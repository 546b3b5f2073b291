---------------------------- MODULE AgentSession ----------------------------
(***************************************************************************)
(* A session in the terminal: its prompts, the queues of its agent, the    *)
(* hand-off to a fresh session and /new (pkg/session/agentsession.go,      *)
(* pkg/extension/session_bridge.go, pkg/modes/interactive/commands.go),    *)
(* the contexts extensions prepend, and the status card that others read   *)
(* (pkg/session/statuscard.go).  Messages are sent by goroutines of their  *)
(* own, and each restart, a hand-off or /new, has one.                     *)
(*                                                                         *)
(* The agent is another Go module.  It is here as the session uses it: one *)
(* run at a time, which begins with the messages it was given, asks the    *)
(* model, runs tools, takes what was queued and ends when there is nothing *)
(* left; an aborted run still takes what is queued.                        *)
(***************************************************************************)
EXTENDS Integers, Sequences, FiniteSets, SequencesExt

CONSTANTS
  Message,      \* what people and channels send, each once
  Restart,      \* goroutines of startNewSession
  Context,      \* texts extensions prepend
  Briefing,     \* the one of them a hand-off brings
  Prompt,       \* the prompt of a hand-off
  None,
  MaxReplies    \* bound: messages of the model

VARIABLES
  loop,         \* the agent's run: "none" when it is idle
  cancelled,    \* its context is cancelled
  input,        \* what it delivers next
  steer, followUps, contexts,   \* the agent's queues
  history,      \* the agent's messages
  transcript,   \* what is persisted of them, the replies left out
  model,        \* a model is selected
  status, err, aborted,         \* the status card
  inFlight,     \* prependInFlight
  persisting,   \* the context PrependContext has to persist; it holds prependMu
  pending,      \* pendingRestart: None, or what it carries and who was sent before it
  lastCarried, lastPrompt,      \* of the bridge
  pc,           \* per message and per restart
  kind,         \* per restart: "handoff" or "new", once it began
  hold,         \* per restart: the messages it carries
  seen,         \* history: how often a message has reached a history
  due,          \* history: how often it will have when the session that a hand-off last
                \* carried it to has had it; 0 for one that none has carried
  gone,         \* history: answered in a former session, or put back or cleared by a person
  raced,        \* history: a run began between a restart's look at the agent and its reset
  entangled,    \* history: a hand-off was on its way between another's request and prompt
  late,         \* history: something was queued after the run's last look
  behind,       \* history: a context came between the steps of a restart's reset or
                \* was persisted after a run began or a restart reset
  replies

agentVars == <<loop, cancelled, input, steer, followUps, contexts, history, model>>
cardVars == <<status, err, aborted>>
contextVars == <<inFlight, persisting>>
bridgeVars == <<pending, lastCarried, lastPrompt>>
callVars == <<pc, kind, hold>>
monitors == <<seen, due, gone, raced, entangled, late, behind, replies>>
vars == <<agentVars, transcript, cardVars, contextVars, bridgeVars, callVars, monitors>>

Caller == Message \cup Restart
Reply == [reply : {"answer", "tool", "failed", "aborted"}]

\* withCarriedNote: a message again, with the note that it was carried.
Noted(m) == [noted |-> m]
Copies(m) == {m, Noted(m)}
Sent == Message \cup {Noted(m) : m \in Message}
Item == Sent \cup Context \cup {Prompt} \cup Reply
Request == [carried : Seq(Sent \cup {Prompt}), before : SUBSET Message]

ASSUME SessionAssumption ==
  /\ Briefing \in Context
  /\ Prompt # None /\ {Prompt, None} \cap (Sent \cup Context \cup Restart \cup Reply) = {}
  /\ Sent \cap (Context \cup Restart) = {} /\ (Message \cup Context) \cap Reply = {}
  /\ \A m \in Message : Noted(m) \notin Message
  /\ None \notin Request
  /\ MaxReplies \in Nat

Streaming == loop # "none"
Count(s, x) == Cardinality({i \in DOMAIN s : s[i] = x})

\* Where a message or a restart is.
Place ==
  {"unsent", "steer", "followUp", "inject", "accepted", "send", "fallback",
   "refuse", "wait", "done", "refused", "dropped", "abort", "idle", "take",
   "queues", "stop", "stopped", "again", "reset", "erase", "prepend", "carry",
   "prompt"}

AgentTypes ==
  /\ loop \in {"none", "start", "deliver", "request", "tools", "settle", "end", "ended"}
  /\ cancelled \in BOOLEAN /\ model \in BOOLEAN
  /\ input \in Seq(Item \ Reply) /\ history \in Seq(Item) /\ transcript \in Seq(Item \ Reply)
  /\ steer \in Seq(Message) /\ followUps \in Seq(Sent \cup {Prompt}) /\ contexts \in Seq(Context)

SessionTypes ==
  /\ status \in {"idle", "running", "error", "no-model"}
  /\ err \in {"", "aborted", "error"} /\ aborted \in BOOLEAN
  /\ inFlight \subseteq Context /\ persisting \in Context \cup {None}
  /\ pending \in Request \cup {None}
  /\ lastCarried \subseteq Sent \cup {Prompt} /\ lastPrompt \in {Prompt, None}

CallTypes ==
  /\ pc \in [Caller -> Place]
  /\ kind \in [Restart -> {"none", "handoff", "new"}]
  /\ hold \in [Restart -> Seq(Sent \cup {Prompt})]

MonitorTypes ==
  /\ seen \in [Message -> Nat] /\ due \in [Message -> Nat] /\ gone \subseteq Item
  /\ raced \in BOOLEAN /\ entangled \in BOOLEAN /\ late \in BOOLEAN /\ behind \in BOOLEAN
  /\ replies \in Nat

TypeOK == AgentTypes /\ SessionTypes /\ CallTypes /\ MonitorTypes

Init ==
  /\ loop = "none" /\ cancelled = FALSE /\ input = <<>>
  /\ steer = <<>> /\ followUps = <<>> /\ contexts = <<>>
  /\ history = <<>> /\ transcript = <<>>
  /\ model \in BOOLEAN
  /\ status = (IF model THEN "idle" ELSE "no-model") /\ err = "" /\ aborted = FALSE
  /\ inFlight = {} /\ persisting = None
  /\ pending = None /\ lastCarried = {} /\ lastPrompt = None
  /\ pc = [c \in Caller |-> "unsent"]
  /\ kind = [r \in Restart |-> "none"]
  /\ hold = [r \in Restart |-> <<>>]
  /\ seen = [m \in Message |-> 0] /\ due = [m \in Message |-> 0] /\ gone = {}
  /\ raced = FALSE /\ entangled = FALSE /\ late = FALSE /\ behind = FALSE /\ replies = 0

At(c, step) == pc[c] = step
Goto(c, step) == pc' = [pc EXCEPT ![c] = step]

-----------------------------------------------------------------------------
(* What the session calls of the agent.                                     *)

FollowUp(ms) ==
  /\ followUps' = followUps \o ms
  /\ late' = (late \/ (ms # <<>> /\ loop \in {"end", "ended"}))

\* A restart that has looked at the agent, and has yet to reset it.
Resetting(r) == pc[r] \in {"take", "queues", "stop", "stopped", "again", "reset", "erase"}

\* PromptMessages begins a run, or says why not.
CanRun == ~Streaming /\ model
BeginRun(ms) ==
  /\ loop' = "start" /\ cancelled' = FALSE
  /\ input' = ms
  /\ raced' = (raced \/ \E r \in Restart : Resetting(r))
  /\ behind' = (behind \/ persisting # None)

\* AgentSession.Abort
AbortRun ==
  /\ aborted' = TRUE
  /\ cancelled' = (cancelled \/ Streaming)

-----------------------------------------------------------------------------
(* The agent's run, and handleAgentEvent at each of its events.             *)

\* agent_start
RunStarts ==
  /\ loop = "start" /\ loop' = "deliver"
  /\ status' = "running" /\ err' = "" /\ aborted' = FALSE
  /\ UNCHANGED <<cancelled, input, steer, followUps, contexts, history, model, transcript,
                 contextVars, bridgeVars, callVars, monitors>>

\* message_end of a user's message or a context: persistMessage, prependDelivered.
Deliver ==
  /\ loop = "deliver" /\ input # <<>>
  /\ LET x == Head(input) IN
       /\ history' = Append(history, x) /\ transcript' = Append(transcript, x)
       /\ inFlight' = inFlight \ {x}
       /\ seen' = [m \in Message |-> IF x \in Copies(m) THEN seen[m] + 1 ELSE seen[m]]
  /\ input' = Tail(input)
  /\ loop' = IF Len(input) = 1 THEN "request" ELSE "deliver"
  /\ UNCHANGED <<cancelled, steer, followUps, contexts, model, cardVars, persisting, bridgeVars,
                 callVars, due, gone, raced, entangled, late, behind, replies>>

\* message_end of a reply; one that was cancelled on the way may look like an error.
ModelReplies ==
  /\ loop = "request" /\ replies < MaxReplies
  /\ \E reply \in IF cancelled THEN {"aborted", "failed"} ELSE {"answer", "tool", "failed"} :
       /\ history' = Append(history, [reply |-> reply])
       /\ loop' = IF reply = "tool" THEN "tools" ELSE "settle"
       /\ err' = CASE reply = "aborted" -> "aborted"
                   [] reply = "failed" /\ aborted -> "aborted"
                   [] reply = "failed" -> "error"
                   [] OTHER -> ""
  /\ replies' = replies + 1
  /\ UNCHANGED <<cancelled, input, steer, followUps, contexts, model, transcript, status, aborted,
                 contextVars, bridgeVars, callVars, seen, due, gone, raced, entangled, late, behind>>

\* Before its next request the run takes the contexts and the steering.
ToolsEnd ==
  /\ loop = "tools"
  /\ IF cancelled
       THEN loop' = "settle" /\ UNCHANGED <<input, contexts, steer>>
       ELSE /\ loop' = IF contexts \o steer = <<>> THEN "request" ELSE "deliver"
            /\ input' = contexts \o steer
            /\ contexts' = <<>> /\ steer' = <<>>
  /\ UNCHANGED <<cancelled, followUps, history, model, transcript, cardVars, contextVars,
                 bridgeVars, callVars, monitors>>

\* After its last reply it takes what is queued, or ends.
Settle ==
  /\ loop = "settle"
  /\ LET queued == steer \o followUps IN
       /\ loop' = IF queued = <<>> THEN "end" ELSE "deliver"
       /\ input' = queued
  /\ steer' = <<>> /\ followUps' = <<>>
  /\ UNCHANGED <<cancelled, contexts, history, model, transcript, cardVars, contextVars,
                 bridgeVars, callVars, monitors>>

\* Mutant: an aborted run is not seen to end.
RunEndsUnlessAborted ==
  /\ loop = "end" /\ loop' = "ended"
  /\ history' = history \o contexts /\ transcript' = transcript \o contexts
  /\ contexts' = <<>> /\ inFlight' = {}
  /\ status' = CASE err = "error" -> "error" [] err = "aborted" -> status [] OTHER -> "idle"
  /\ UNCHANGED <<cancelled, input, steer, followUps, model, err, aborted, persisting,
                 bridgeVars, callVars, monitors>>

\* agent_end, after the contexts that are left.
RunEnds ==
  /\ loop = "end" /\ loop' = "ended"
  /\ history' = history \o contexts /\ transcript' = transcript \o contexts
  /\ contexts' = <<>> /\ inFlight' = {}
  /\ status' = IF err = "error" THEN "error" ELSE "idle"
  /\ err' = IF err = "aborted" THEN "" ELSE err
  /\ UNCHANGED <<cancelled, input, steer, followUps, model, aborted, persisting, bridgeVars,
                 callVars, monitors>>

AgentIdles ==
  /\ loop = "ended" /\ loop' = "none"
  /\ UNCHANGED <<cancelled, input, steer, followUps, contexts, history, model, transcript,
                 cardVars, contextVars, bridgeVars, callVars, monitors>>

Agent == RunStarts \/ Deliver \/ ModelReplies \/ ToolsEnd \/ Settle \/ RunEnds
         \/ AgentIdles

-----------------------------------------------------------------------------
(* AgentSession.Prompt, of a message or of a hand-off's prompt.             *)

Text(c) == IF c \in Restart THEN Prompt ELSE c

\* statusPromptAccepted, or a prompt refused without a model.
Accept(c) ==
  IF model
    THEN /\ Goto(c, "accepted")
         /\ status' = "running"
         /\ err' = IF status = "running" THEN err ELSE ""
    ELSE Goto(c, "refused") /\ status' = "no-model" /\ err' = "error"

\* While a run is on, the message waits for its end in a queue.
CheckStreaming(c) ==
  /\ At(c, "accepted")
  /\ IF Streaming
       THEN FollowUp(<<Text(c)>>) /\ Goto(c, "done")
       ELSE Goto(c, "send") /\ UNCHANGED <<followUps, late>>
  /\ UNCHANGED <<loop, cancelled, input, steer, contexts, history, model, transcript, cardVars,
                 contextVars, bridgeVars, kind, hold, seen, due, gone, raced, entangled, behind,
                 replies>>

\* Mutant: a prompt that meets a run which has just begun is given up.
SendOrDrop(c) ==
  /\ At(c, "send")
  /\ IF CanRun
       THEN BeginRun(<<Text(c)>>) /\ Goto(c, "wait")
       ELSE Goto(c, "done") /\ UNCHANGED <<loop, cancelled, input, raced, behind>>
  /\ UNCHANGED <<steer, followUps, contexts, history, model, transcript, cardVars, contextVars,
                 bridgeVars, kind, hold, seen, due, gone, entangled, late, replies>>

Send(c) ==
  /\ At(c, "send")
  /\ IF CanRun
       THEN BeginRun(<<Text(c)>>) /\ Goto(c, "wait")
       ELSE Goto(c, "fallback") /\ UNCHANGED <<loop, cancelled, input, raced, behind>>
  /\ UNCHANGED <<steer, followUps, contexts, history, model, transcript, cardVars, contextVars,
                 bridgeVars, kind, hold, seen, due, gone, entangled, late, replies>>

\* A run began in between; or it has ended again, and the prompt is refused.
Fallback(c) ==
  /\ At(c, "fallback")
  /\ IF Streaming
       THEN FollowUp(<<Text(c)>>) /\ Goto(c, "done")
       ELSE Goto(c, "refuse") /\ UNCHANGED <<followUps, late>>
  /\ UNCHANGED <<loop, cancelled, input, steer, contexts, history, model, transcript, cardVars,
                 contextVars, bridgeVars, kind, hold, seen, due, gone, raced, entangled, behind,
                 replies>>

Refuse(c) ==
  /\ At(c, "refuse")
  /\ Goto(c, "refused") /\ status' = "error" /\ err' = "error"
  /\ UNCHANGED <<agentVars, transcript, aborted, contextVars, bridgeVars, kind, hold, monitors>>

WaitForIdle(c) ==
  /\ At(c, "wait") /\ ~Streaming
  /\ Goto(c, "done")
  /\ UNCHANGED <<agentVars, transcript, cardVars, contextVars, bridgeVars, kind, hold, monitors>>

PromptStep(c) == CheckStreaming(c) \/ Send(c) \/ Fallback(c) \/ Refuse(c) \/ WaitForIdle(c)

\* A person, `fir send` or an extension prompts.
Submit(m) ==
  /\ At(m, "unsent")
  /\ Accept(m)
  /\ UNCHANGED <<agentVars, transcript, aborted, contextVars, bridgeVars, kind, hold, monitors>>

-----------------------------------------------------------------------------
(* Other ways in: SendUserMessage of an extension, InjectMessage of a       *)
(* channel.                                                                 *)

\* Steering and follow-ups only for a run that is on.
SendUserMessage(m) ==
  /\ At(m, "unsent") /\ Streaming
  /\ Goto(m, "steer") \/ Goto(m, "followUp")
  /\ UNCHANGED <<agentVars, transcript, cardVars, contextVars, bridgeVars, kind, hold, monitors>>

Queue(m) ==
  /\ \/ At(m, "steer") /\ steer' = Append(steer, m)
        /\ late' = (late \/ loop \in {"end", "ended"}) /\ UNCHANGED followUps
     \/ At(m, "followUp") /\ FollowUp(<<m>>) /\ UNCHANGED steer
  /\ Goto(m, "done")
  /\ UNCHANGED <<loop, cancelled, input, contexts, history, model, transcript, cardVars,
                 contextVars, bridgeVars, kind, hold, seen, due, gone, raced, entangled, behind,
                 replies>>

Inject(m) ==
  /\ At(m, "unsent")
  /\ Goto(m, IF Streaming THEN "followUp" ELSE "inject")
  /\ UNCHANGED <<agentVars, transcript, cardVars, contextVars, bridgeVars, kind, hold, monitors>>

\* A message that meets a run which has just begun is logged and forgotten.
InjectedRun(m) ==
  /\ At(m, "inject")
  /\ IF CanRun
       THEN BeginRun(<<m>>) /\ Goto(m, "done")
       ELSE Goto(m, "dropped") /\ UNCHANGED <<loop, cancelled, input, raced, behind>>
  /\ UNCHANGED <<steer, followUps, contexts, history, model, transcript, cardVars, contextVars,
                 bridgeVars, kind, hold, seen, due, gone, entangled, late, replies>>

\* /dequeue puts what is queued back into the editor.
Dequeue ==
  /\ followUps # <<>>
  /\ gone' = gone \cup ToSet(followUps)
  /\ followUps' = <<>>
  /\ UNCHANGED <<loop, cancelled, input, steer, contexts, history, model, transcript, cardVars,
                 contextVars, bridgeVars, callVars, seen, due, raced, entangled, late, behind, replies>>

\* Escape
Escape ==
  /\ Streaming /\ ~cancelled
  /\ AbortRun
  /\ UNCHANGED <<loop, input, steer, followUps, contexts, history, model, transcript, status, err,
                 contextVars, bridgeVars, callVars, monitors>>

\* SetModel, and statusModelChanged.
SetModel ==
  /\ ~model /\ model' = TRUE
  /\ IF status = "no-model" THEN status' = "idle" /\ err' = "" ELSE UNCHANGED <<status, err>>
  /\ UNCHANGED <<loop, cancelled, input, steer, followUps, contexts, history, transcript, aborted,
                 contextVars, bridgeVars, callVars, monitors>>

-----------------------------------------------------------------------------
(* PrependContext, under prependMu.                                         *)

Known(c) == c \in inFlight \/ c \in ToSet(history) \/ c \in ToSet(contexts)

\* Mutant: without a run nothing is persisted.
PrependUnpersisted(c) ==
  /\ persisting = None
  /\ IF Known(c) THEN UNCHANGED <<contexts, inFlight, history>>
     ELSE IF Streaming /\ loop # "ended"
       THEN /\ contexts' = Append(contexts, c) /\ inFlight' = inFlight \cup {c}
            /\ UNCHANGED history
       ELSE history' = Append(history, c) /\ UNCHANGED <<contexts, inFlight>>
  /\ UNCHANGED <<persisting, behind>>

Prepend(c) ==
  /\ persisting = None
  /\ IF Known(c) THEN UNCHANGED <<contexts, inFlight, history, persisting, behind>>
     ELSE IF Streaming /\ loop # "ended"
       THEN /\ contexts' = Append(contexts, c) /\ inFlight' = inFlight \cup {c}
            /\ UNCHANGED <<history, persisting, behind>>
       ELSE /\ history' = Append(history, c) /\ persisting' = c
            /\ behind' = (behind \/ \E r \in Restart : pc[r] = "erase")
            /\ UNCHANGED <<contexts, inFlight>>

PrependContext(c) ==
  /\ ~Known(c)
  /\ Prepend(c)
  /\ UNCHANGED <<loop, cancelled, input, steer, followUps, model, transcript, cardVars, bridgeVars,
                 callVars, seen, due, gone, raced, entangled, late, replies>>

Persist ==
  /\ persisting # None
  /\ transcript' = Append(transcript, persisting)
  /\ persisting' = None
  /\ UNCHANGED <<agentVars, cardVars, inFlight, bridgeVars, callVars, monitors>>

-----------------------------------------------------------------------------
(* Restarts: RestartSession and handleHandoff, or /new.                     *)

Queued == steer \o followUps
Submitted == {m \in Message : pc[m] # "unsent"}

\* Mutant: a later request replaces an earlier one.
RestartSessionAlone(r) ==
  /\ At(r, "unsent") /\ kind' = [kind EXCEPT ![r] = "handoff"]
  /\ pending' = [carried |-> Queued, before |-> Submitted]
  /\ steer' = <<>> /\ followUps' = <<>>
  /\ Goto(r, "abort")
  /\ UNCHANGED <<loop, cancelled, input, contexts, history, model, transcript, cardVars,
                 contextVars, lastCarried, lastPrompt, hold, monitors>>

\* RestartSession records the request with the queues, after those of a request
\* nobody has consumed yet, and only then aborts the run.
RestartSession(r) ==
  /\ At(r, "unsent") /\ kind' = [kind EXCEPT ![r] = "handoff"]
  /\ pending' = [carried |-> (IF pending = None THEN <<>> ELSE pending.carried) \o Queued,
                 before |-> Submitted]
  /\ steer' = <<>> /\ followUps' = <<>>
  /\ Goto(r, "abort")
  /\ UNCHANGED <<loop, cancelled, input, contexts, history, model, transcript, cardVars,
                 contextVars, lastCarried, lastPrompt, hold, monitors>>

RestartAborts(r) ==
  /\ At(r, "abort")
  /\ AbortRun
  /\ Goto(r, "idle")
  /\ UNCHANGED <<loop, input, steer, followUps, contexts, history, model, transcript, status, err,
                 contextVars, bridgeVars, kind, hold, monitors>>

RestartWaits(r) ==
  /\ At(r, "idle") /\ ~Streaming
  /\ Goto(r, "take")
  /\ UNCHANGED <<agentVars, transcript, cardVars, contextVars, bridgeVars, kind, hold, monitors>>

\* The replies that count as an answer.
Answers == {i \in DOMAIN history : history[i] = [reply |-> "answer"]}

\* Mutant: what the last restart has carried is carried again.
UnansweredAgain ==
  {i \in DOMAIN history : /\ history[i] \in (Sent \cup {Prompt}) \ {lastPrompt}
                          /\ \A j \in Answers : j < i}

\* unansweredUserMessages: after the last answer, but for the prompt of the last
\* restart and what it has carried.
Unanswered ==
  {i \in DOMAIN history : /\ history[i] \in (Sent \cup {Prompt}) \ ({lastPrompt} \cup lastCarried)
                          /\ \A j \in Answers : j < i}

\* The items of s at some positions, in their order.
Pick(s, positions) ==
  [i \in 1 .. Cardinality(positions) |->
     s[CHOOSE p \in positions : Cardinality({q \in positions : q < p}) = i - 1]]

\* Those of before the request with a note, what was queued, and those of after it.
Carried ==
  LET earlier == {i \in Unanswered : history[i] \notin Message \ pending.before}
      noted == [i \in DOMAIN history |->
                  IF history[i] \in Message THEN Noted(history[i]) ELSE history[i]]
  IN Pick(noted, earlier) \o pending.carried \o Pick(history, Unanswered \ earlier)

\* A hand-off has yet to give the new session what it carries.
Underway(r) ==
  /\ kind[r] = "handoff"
  /\ pc[r] \in {"queues", "stop", "stopped", "again", "reset", "erase", "prepend", "carry"}

\* One restart may consume the request of another, which then finds none.
TakePendingRestart(r) ==
  /\ At(r, "take")
  /\ IF pending = None
       THEN Goto(r, "done") /\ UNCHANGED <<bridgeVars, hold, due, entangled>>
       ELSE /\ hold' = [hold EXCEPT ![r] = Carried]
            /\ lastCarried' = ToSet(Carried) /\ lastPrompt' = Prompt
            /\ pending' = None
            /\ due' = [m \in Message |-> IF Copies(m) \cap ToSet(Carried) = {} THEN due[m]
                                         ELSE seen[m] + 1]
            /\ entangled' = (entangled \/ \E other \in Restart : Underway(other))
            /\ Goto(r, "queues")
  /\ UNCHANGED <<agentVars, transcript, cardVars, contextVars, kind, seen, gone, raced, late,
                 behind, replies>>

StartNew(r) ==
  /\ At(r, "unsent") /\ kind' = [kind EXCEPT ![r] = "new"]
  /\ Goto(r, "queues")
  /\ UNCHANGED <<agentVars, transcript, cardVars, contextVars, bridgeVars, hold, monitors>>

\* TakeQueuedMessages, before the run is aborted and after it has unwound.
TakeQueues(r) ==
  /\ \/ At(r, "queues") /\ Goto(r, "stop")
     \/ At(r, "again") /\ Goto(r, "reset")
  /\ hold' = [hold EXCEPT ![r] = @ \o Queued]
  /\ steer' = <<>> /\ followUps' = <<>>
  /\ UNCHANGED <<loop, cancelled, input, contexts, history, model, transcript, cardVars,
                 contextVars, bridgeVars, kind, monitors>>

StopRun(r) ==
  /\ At(r, "stop")
  /\ IF Streaming THEN AbortRun /\ Goto(r, "stopped")
     ELSE Goto(r, "again") /\ UNCHANGED <<cancelled, aborted>>
  /\ UNCHANGED <<loop, input, steer, followUps, contexts, history, model, transcript, status, err,
                 contextVars, bridgeVars, kind, hold, monitors>>

RunStopped(r) ==
  /\ At(r, "stopped") /\ ~Streaming
  /\ Goto(r, "again")
  /\ UNCHANGED <<agentVars, transcript, cardVars, contextVars, bridgeVars, kind, hold, monitors>>

\* NewSessionCmd: the store first, then the agent.
NewTranscript(r) ==
  /\ At(r, "reset")
  /\ transcript' = <<>>
  /\ behind' = (behind \/ persisting # None)
  /\ Goto(r, "erase")
  /\ UNCHANGED <<agentVars, cardVars, contextVars, bridgeVars, kind, hold, seen, due, gone, raced,
                 entangled, late, replies>>

Erase(r) ==
  /\ At(r, "erase")
  /\ history' = <<>>
  /\ gone' = gone \cup
       (IF kind[r] = "new" THEN ToSet(history) \cup ToSet(hold[r])
        ELSE {x \in ToSet(history) : \E i \in Answers : x \in ToSet(SubSeq(history, 1, i))})
  /\ IF kind[r] = "new" THEN Goto(r, "done") /\ hold' = [hold EXCEPT ![r] = <<>>]
     ELSE Goto(r, "prepend") /\ UNCHANGED hold
  /\ UNCHANGED <<loop, cancelled, input, steer, followUps, contexts, model, transcript, cardVars,
                 contextVars, bridgeVars, kind, seen, due, raced, entangled, late, behind, replies>>

\* The briefing, if the hand-off has one.
Brief(r) ==
  /\ At(r, "prepend")
  /\ Prepend(Briefing) \/ UNCHANGED <<contexts, inFlight, history, persisting, behind>>
  /\ Goto(r, "carry")
  /\ UNCHANGED <<loop, cancelled, input, steer, followUps, model, transcript, cardVars, bridgeVars,
                 kind, hold, seen, due, gone, raced, entangled, late, replies>>

\* PromptWithCarried: what is carried is queued behind the prompt.
Carry(r) ==
  /\ At(r, "carry") /\ persisting # Briefing
  /\ FollowUp(hold[r])
  /\ hold' = [hold EXCEPT ![r] = <<>>]
  /\ entangled' = (entangled \/ pending # None)
  /\ Goto(r, "prompt")
  /\ UNCHANGED <<loop, cancelled, input, steer, contexts, history, model, transcript, cardVars,
                 contextVars, bridgeVars, kind, seen, due, gone, raced, behind, replies>>

RestartPrompts(r) ==
  /\ At(r, "prompt")
  /\ Accept(r)
  /\ UNCHANGED <<agentVars, transcript, aborted, contextVars, bridgeVars, kind, hold, monitors>>

RestartStep(r) ==
  \/ RestartSession(r) \/ RestartAborts(r) \/ RestartWaits(r) \/ TakePendingRestart(r)
  \/ StartNew(r) \/ TakeQueues(r) \/ StopRun(r) \/ RunStopped(r) \/ NewTranscript(r) \/ Erase(r)
  \/ Brief(r) \/ Carry(r) \/ RestartPrompts(r)

Next ==
  \/ Agent \/ Dequeue \/ Escape \/ SetModel \/ Persist
  \/ \E m \in Message : Submit(m) \/ SendUserMessage(m) \/ Queue(m) \/ Inject(m) \/ InjectedRun(m)
  \/ \E c \in Caller : PromptStep(c)
  \/ \E r \in Restart : RestartStep(r)
  \/ \E c \in Context : PrependContext(c)

Spec == Init /\ [][Next]_vars

-----------------------------------------------------------------------------
(* Properties.                                                              *)

Kept(m) ==
  \/ Copies(m) \cap (ToSet(Queued) \cup ToSet(input) \cup ToSet(history) \cup gone) # {}
  \/ pending # None /\ Copies(m) \cap ToSet(pending.carried) # {}
  \/ \E r \in Restart : Copies(m) \cap ToSet(hold[r]) # {}

\* A message that was taken is never lost: through aborts, hand-offs and their
\* requests that supersede each other it is queued, carried or in the history
\* until it is answered, put back or cleared by a person, or the session it was
\* carried to has had it (a message is carried once; the next hand-off drops it,
\* answered or not); unless a run began while a restart was between its look at
\* the agent and its reset.
HadAgain(m) == 0 < due[m] /\ due[m] <= seen[m]
NothingForgotten ==
  raced \/ \A m \in Message : pc[m] \in {"wait", "done"} => Kept(m) \/ HadAgain(m)

\* A message is carried at most once, so that two sessions see it at most, each
\* once (lastCarried, carryKey), however many hand-offs follow each other; unless
\* they overlap, or a run begins beside one.
CarriedOnce == entangled \/ raced \/ \A m \in Message : seen[m] <= 2

\* Nobody who reads the card waits for nothing: without a run and a prompt on its
\* way it does not say "running"; unless a message came after the run's last look
\* at its queues, and waits for the next run.
NotRunningForever ==
  (~late /\ ~Streaming /\ \A c \in Caller : pc[c] \notin {"accepted", "send", "fallback", "refuse"})
    => status # "running"

\* An agent that does not run has nothing to deliver, and a context that it has yet
\* to deliver is marked.
Marked ==
  /\ ~Streaming => input = <<>> /\ contexts = <<>>
  /\ ToSet(contexts) \subseteq inFlight

\* A context is in the agent once, whoever prepends it and whenever.
ContextOnce ==
  \A c \in Context : Count(history, c) + Count(contexts, c) + Count(input, c) <= 1

\* A reloaded session replays what the agent has, each message at its place.
ReplaysInPlace ==
  (~Streaming /\ persisting = None /\ ~behind /\ ~raced /\ \A r \in Restart : pc[r] # "erase")
    => transcript = Pick(history, {i \in DOMAIN history : history[i] \notin Reply})

\* Whoever prepends a context (PrependContext, persistContexts), and whenever, it
\* is in the conversation once, and where the transcript replays it.
ContextsInPlace == TypeOK /\ Marked /\ ContextOnce /\ ReplaysInPlace

-----------------------------------------------------------------------------
(* What the comments say without conditions, found violated.                *)

\* Also when a run begins beside a restart.
NeverForgotten ==
  \A m \in Message : pc[m] \in {"wait", "done"} => Kept(m) \/ HadAgain(m)

\* Also when hand-offs overlap: the note a message gets makes it another one.
NeverCarriedTwice == \A m \in Message : seen[m] <= 2

\* A channel's message is queued or begins a turn.
InjectedIsHeard == \A m \in Message : pc[m] # "dropped"

\* Idle means idle, also with a message queued after the run's last look.
RunningMeansRunning ==
  (~Streaming /\ \A c \in Caller : pc[c] \notin {"accepted", "send", "fallback", "refuse"})
    => status # "running"

\* Contexts are persisted at the place they have in the history.
PersistedInPlace ==
  (~Streaming /\ persisting = None /\ \A r \in Restart : pc[r] = "unsent")
    => transcript = Pick(history, {i \in DOMAIN history : history[i] \notin Reply})
=============================================================================

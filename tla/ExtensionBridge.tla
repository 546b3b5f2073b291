-------------------------- MODULE ExtensionBridge --------------------------
(***************************************************************************)
(* pkg/extension: the Bridge between fir and one extension process.        *)
(*                                                                         *)
(* Callers park a channel in b.pending, write a request and wait.  A       *)
(* reader goroutine routes the extension's responses to the channels and   *)
(* starts a goroutine for each of its requests; Run fails every parked     *)
(* channel when the stream ends or the manager cancels it.  The extension  *)
(* answers in any order, calls back into fir while it works, and may say   *)
(* nothing, say too much, write something that is not JSON-RPC, or die.    *)
(*                                                                         *)
(* A call's timer counts ticks; b.lastActivity is the number of ticks      *)
(* since the extension was last heard.                                     *)
(***************************************************************************)
EXTENDS Naturals, Sequences, FiniteSets

CONSTANTS
  ToolCalls,    \* calls of this extension's tools
  EventAcks,    \* events sent as requests, by EmitEventAwait
  StreamStarts, \* provider/stream/start calls, each with its stream
  Timeout,      \* Timeout[c]: ticks; 0 disables the host's deadline
  MaxQuiet,     \* where b.lastActivity's age stops being counted
  InboxMax,     \* bound: messages in the extension's stdout pipe
  Works,        \* bound: what the extension asks of fir while it works
  None

Calls == ToolCalls \cup EventAcks \cup StreamStarts

ASSUME BridgeAssumption ==
  /\ Timeout \in [Calls -> Nat]
  /\ \A c \in EventAcks : Timeout[c] > 0
  /\ MaxQuiet \in Nat /\ \A c \in Calls : Timeout[c] <= MaxQuiet
  /\ InboxMax \in Nat
  /\ Works \subseteq {"call_tool", "exec"}
  /\ None \notin Calls
  /\ ToolCalls \cap (EventAcks \cup StreamStarts) = {}
  /\ EventAcks \cap StreamStarts = {}

VARIABLES
  alive,        \* the extension process runs
  stdin,        \* its stdin is open
  inbox,        \* its stdout, as fir has yet to read it
  written,      \* calls whose request reached it
  replied,      \* calls it answered
  reading,      \* the reader goroutine has not ended
  leaving,      \* the manager has cancelled Run's context
  pending,      \* the calls in b.pending
  closed,       \* b.closed
  routing,      \* the call whose response the reader holds
  failing,      \* the calls failAllPending took out of b.pending
  mailbox,      \* mailbox[c]: what is in c's channel
  call,         \* how call c stands
  ctx,          \* ctx[c]: whose context c runs under; None is Background
  left,         \* ticks left on c's timer
  quiet,        \* ticks since b.lastActivity
  returned,     \* calls that have returned to their caller
  activeCtx,    \* b.activeCtx and b.activeToolCallID
  aborted,      \* calls whose context is cancelled
  nest,         \* nest[c]: the request into fir that c's handler makes
  work,         \* what that request is
  under,        \* the context it runs under
  inner,        \* the tool of this very extension it runs
  stream        \* stream[s]: "none", "active" or "ended"

procVars == <<alive, stdin, inbox, written, replied>>
loopVars == <<reading, leaving>>
routeVars == <<pending, closed, routing, failing, mailbox>>
callVars == <<call, ctx, left, returned>>
toolVars == <<activeCtx, aborted>>
nestVars == <<nest, work, under, inner>>
vars == <<procVars, loopVars, routeVars, callVars, quiet, toolVars, nestVars, stream>>

Ended == {"answered", "failed", "cancelled", "timedOut"}
Messages == [type : {"response", "request", "end"}, of : Calls]
              \cup [type : {"chatter", "garbage"}, of : {None}]

TypeOK ==
  /\ alive \in BOOLEAN /\ stdin \in BOOLEAN
  /\ reading \in BOOLEAN /\ leaving \in BOOLEAN /\ closed \in BOOLEAN
  /\ inbox \in Seq(Messages)
  /\ written \in SUBSET Calls /\ replied \in SUBSET Calls
  /\ pending \in SUBSET Calls /\ failing \in SUBSET Calls
  /\ routing \in Calls \cup {None}
  /\ mailbox \in [Calls -> {"empty", "answer", "failure"}]
  /\ call \in [Calls -> {"idle", "called", "parked", "waiting"} \cup Ended]
  /\ ctx \in [Calls -> Calls \cup {None}]
  /\ left \in [Calls -> 0 .. MaxQuiet] /\ quiet \in 0 .. MaxQuiet
  /\ returned \in SUBSET Calls /\ aborted \in SUBSET Calls
  /\ activeCtx \in ToolCalls \cup {None}
  /\ nest \in [Calls -> {"none", "sent", "dispatched", "running"}]
  /\ work \in [Calls -> Works \cup {"none"}]
  /\ under \in [Calls -> ToolCalls \cup {None}]
  /\ inner \in [Calls -> ToolCalls \cup {None}]
  /\ stream \in [StreamStarts -> {"none", "active", "ended"}]

Init ==
  /\ alive = TRUE /\ stdin = TRUE
  /\ inbox = <<>> /\ written = {} /\ replied = {}
  /\ reading = TRUE /\ leaving = FALSE
  /\ pending = {} /\ closed = FALSE /\ routing = None /\ failing = {}
  /\ mailbox = [c \in Calls |-> "empty"]
  /\ call = [c \in Calls |-> "idle"]
  /\ ctx = [c \in Calls |-> None]
  /\ left = [c \in Calls |-> 0] /\ quiet = 0
  /\ returned = {} /\ activeCtx = None /\ aborted = {}
  /\ nest = [c \in Calls |-> "none"]
  /\ work = [c \in Calls |-> "none"]
  /\ under = [c \in Calls |-> None]
  /\ inner = [c \in Calls |-> None]
  /\ stream = [s \in StreamStarts |-> "none"]

-----------------------------------------------------------------------------
(* Callers: Execute of a tool, EmitEventAwait, the stream adapter.          *)

\* The stream adapter puts a stream into b.activeStreams before its start call
\* and pushes an error if that call fails; handleProviderStreamEvent pushes the
\* last event of a stream that is still there; UnregisterProviders ends them all.
StreamBegun(c) == [s \in StreamStarts |-> IF s = c THEN "active" ELSE stream[s]]
StreamStarted(c) ==
  [s \in StreamStarts |-> IF s = c /\ call[c] # "answered" THEN "ended" ELSE stream[s]]
StreamEvent(s) ==
  IF s \in StreamStarts /\ stream[s] = "active" THEN [stream EXCEPT ![s] = "ended"] ELSE stream
StreamsEnded ==
  [s \in StreamStarts |-> IF stream[s] = "active" THEN "ended" ELSE stream[s]]

\* A tool's Execute stores its context before CallHook.
Begin(c, x) ==
  /\ call[c] = "idle"
  /\ call' = [call EXCEPT ![c] = "called"]
  /\ ctx' = [ctx EXCEPT ![c] = x]
  /\ activeCtx' = IF c \in ToolCalls THEN c ELSE activeCtx
  /\ stream' = StreamBegun(c)
  /\ UNCHANGED <<procVars, loopVars, routeVars, left, returned, quiet, aborted, nestVars>>

\* The agent loop runs one tool call at a time.
AgentIdle == \A d \in ToolCalls : ctx[d] = d => d \in returned

HostCalls(c) ==
  /\ c \in ToolCalls => AgentIdle /\ \A e \in Calls : inner[e] # c
  /\ Begin(c, c)

\* Mutant: a bridge that does not look whether its loop has ended.
RegisterUnlatched(c) ==
  /\ call[c] = "called"
  /\ call' = [call EXCEPT ![c] = "parked"]
  /\ pending' = pending \cup {c}
  /\ UNCHANGED <<procVars, loopVars, closed, routing, failing, mailbox, ctx, left, returned,
                 quiet, toolVars, nestVars, stream>>

\* CallHook: park a channel, unless the read loop has ended.
Register(c) ==
  /\ call[c] = "called"
  /\ IF closed
       THEN /\ call' = [call EXCEPT ![c] = "failed"]
            /\ UNCHANGED pending
       ELSE /\ call' = [call EXCEPT ![c] = "parked"]
            /\ pending' = pending \cup {c}
  /\ UNCHANGED <<procVars, loopVars, closed, routing, failing, mailbox, ctx, left, returned,
                 quiet, toolVars, nestVars, stream>>

\* CallHook: write the request and start the timer.  Only the activity-aware
\* deadline counts as activity; EmitEventAwait's is a context's.
Write(c) ==
  /\ call[c] = "parked" /\ stdin
  /\ call' = [call EXCEPT ![c] = "waiting"]
  /\ written' = IF alive THEN written \cup {c} ELSE written
  /\ left' = [left EXCEPT ![c] = Timeout[c]]
  /\ quiet' = IF Timeout[c] > 0 /\ c \notin EventAcks THEN 0 ELSE quiet
  /\ UNCHANGED <<alive, stdin, inbox, replied, loopVars, routeVars, ctx, returned, toolVars,
                 nestVars, stream>>

\* CallHook: the request could not be written.
WriteFails(c) ==
  /\ call[c] = "parked" /\ ~ (alive /\ stdin)
  /\ call' = [call EXCEPT ![c] = "failed"]
  /\ pending' = pending \ {c}
  /\ UNCHANGED <<procVars, loopVars, closed, routing, failing, mailbox, ctx, left, returned,
                 quiet, toolVars, nestVars, stream>>

\* CallHook: the channel has something.
Receive(c) ==
  /\ call[c] = "waiting" /\ mailbox[c] # "empty"
  /\ call' = [call EXCEPT ![c] = IF mailbox[c] = "answer" THEN "answered" ELSE "failed"]
  /\ mailbox' = [mailbox EXCEPT ![c] = "empty"]
  /\ left' = [left EXCEPT ![c] = 0]
  /\ UNCHANGED <<procVars, loopVars, pending, closed, routing, failing, ctx, returned,
                 quiet, toolVars, nestVars, stream>>

GiveUp(c, how) ==
  /\ call' = [call EXCEPT ![c] = how]
  /\ pending' = pending \ {c}
  /\ left' = [left EXCEPT ![c] = 0]
  /\ UNCHANGED <<procVars, loopVars, closed, routing, failing, mailbox, ctx, returned,
                 quiet, toolVars, nestVars, stream>>

\* EmitEventAwait's cap, which no activity moves.
Expired(c) == c \in EventAcks /\ left[c] = 0

\* Mutant: EmitEventAwait with CallHook's activity-aware deadline.
CancelWhenSilent(c) ==
  /\ call[c] = "waiting"
  /\ ctx[c] \in aborted \/ (Expired(c) /\ quiet >= Timeout[c])
  /\ GiveUp(c, "cancelled")

\* CallHook: the call's context is cancelled.
Cancel(c) ==
  /\ call[c] = "waiting"
  /\ ctx[c] \in aborted \/ Expired(c)
  /\ GiveUp(c, "cancelled")

TimerRuns(c) == call[c] = "waiting" /\ Timeout[c] > 0

\* CallHook: the timer fires, and the extension was heard since.
Extend(c) ==
  /\ TimerRuns(c) /\ c \notin EventAcks /\ left[c] = 0 /\ quiet < Timeout[c]
  /\ left' = [left EXCEPT ![c] = Timeout[c] - quiet]
  /\ UNCHANGED <<procVars, loopVars, routeVars, call, ctx, returned, quiet, toolVars,
                 nestVars, stream>>

TimeOut(c) ==
  /\ TimerRuns(c) /\ c \notin EventAcks /\ left[c] = 0 /\ quiet >= Timeout[c]
  /\ GiveUp(c, "timedOut")

\* A tool's Execute returns and clears what it had stored.
Return(c) ==
  /\ call[c] \in Ended /\ c \notin returned
  /\ returned' = returned \cup {c}
  /\ activeCtx' = IF c \in ToolCalls THEN None ELSE activeCtx
  /\ stream' = StreamStarted(c)
  /\ UNCHANGED <<procVars, loopVars, routeVars, call, ctx, left, quiet, aborted, nestVars>>

\* The turn a call belongs to is cancelled.
Abort(c) ==
  /\ ctx[c] = c /\ c \notin EventAcks /\ c \notin returned /\ c \notin aborted
  /\ aborted' = aborted \cup {c}
  /\ UNCHANGED <<procVars, loopVars, routeVars, callVars, quiet, activeCtx, nestVars, stream>>

-----------------------------------------------------------------------------
(* The reader goroutine and Run.                                            *)

Read(type) == reading /\ routing = None /\ inbox # <<>> /\ Head(inbox).type = type

RouteTo(c, parked) ==
  /\ Read("response")
  /\ inbox' = Tail(inbox) /\ quiet' = 0
  /\ routing' = c
  /\ pending' = parked
  /\ UNCHANGED <<alive, stdin, written, replied, loopVars, closed, failing, mailbox,
                 callVars, toolVars, nestVars, stream>>

\* Mutant: the response goes to another caller.
ReadResponseAnyone == \E c \in pending : RouteTo(c, pending \ {c})

\* routeResponse takes the channel out of b.pending under the lock; a response
\* to a call nobody waits for is dropped.
ReadResponse ==
  LET c == Head(inbox).of IN RouteTo(IF c \in pending THEN c ELSE None, pending \ {c})

\* ... and fills it after the unlock.
Deliver ==
  /\ routing # None /\ mailbox[routing] = "empty"
  /\ mailbox' = [mailbox EXCEPT ![routing] = "answer"]
  /\ routing' = None
  /\ UNCHANGED <<procVars, loopVars, pending, closed, failing, callVars, quiet, toolVars,
                 nestVars, stream>>

\* go b.handleInbound(...)
ReadRequest ==
  /\ Read("request")
  /\ inbox' = Tail(inbox) /\ quiet' = 0
  /\ nest' = [nest EXCEPT ![Head(inbox).of] = "dispatched"]
  /\ UNCHANGED <<alive, stdin, written, replied, loopVars, routeVars, callVars, toolVars,
                 work, under, inner, stream>>

\* A notification: progress, or an event of a stream, whose last one ends it.
ReadNotification ==
  /\ Read("chatter") \/ Read("end")
  /\ inbox' = Tail(inbox) /\ quiet' = 0
  /\ stream' = StreamEvent(Head(inbox).of)
  /\ UNCHANGED <<alive, stdin, written, replied, loopVars, routeVars, callVars, toolVars,
                 nestVars>>

\* The stream is over, or holds a line that is not JSON-RPC.
ReadFails ==
  /\ reading /\ routing = None
  /\ (inbox = <<>> /\ ~ alive) \/ Read("garbage")
  /\ reading' = FALSE
  /\ UNCHANGED <<procVars, leaving, routeVars, callVars, quiet, toolVars, nestVars, stream>>

\* The manager stops the extension: UnregisterProviders ends its streams and
\* Run's context is cancelled.
Leave ==
  /\ ~ leaving
  /\ leaving' = TRUE
  /\ stream' = StreamsEnded
  /\ UNCHANGED <<procVars, reading, routeVars, callVars, quiet, toolVars, nestVars>>

CloseStdin ==
  /\ leaving /\ stdin /\ ~ closed
  /\ stdin' = FALSE
  /\ UNCHANGED <<alive, inbox, written, replied, loopVars, routeVars, callVars, quiet,
                 toolVars, nestVars, stream>>

\* Mutant: the map is replaced before it is copied.
FailNonePending ==
  /\ ~ closed /\ (~ reading \/ ~ stdin)
  /\ closed' = TRUE
  /\ failing' = {} /\ pending' = {}
  /\ UNCHANGED <<procVars, loopVars, routing, mailbox, callVars, quiet, toolVars, nestVars,
                 stream>>

\* failAllPending swaps the map and latches the bridge closed.
FailAllPending ==
  /\ ~ closed /\ (~ reading \/ ~ stdin)
  /\ closed' = TRUE
  /\ failing' = pending
  /\ pending' = {}
  /\ UNCHANGED <<procVars, loopVars, routing, mailbox, callVars, quiet, toolVars, nestVars,
                 stream>>

\* ... and then fills the channels it took.
FailOne(c) ==
  /\ c \in failing /\ mailbox[c] = "empty"
  /\ mailbox' = [mailbox EXCEPT ![c] = "failure"]
  /\ failing' = failing \ {c}
  /\ UNCHANGED <<procVars, loopVars, pending, closed, routing, callVars, quiet, toolVars,
                 nestVars, stream>>

-----------------------------------------------------------------------------
(* handleInbound: what the extension asks of fir while it works on a call.  *)

\* call_tool starts keepAlive and takes b.activeCtx; the tool it names may be
\* one of this extension's own.
HandleCallTool(c, d) ==
  /\ nest[c] = "dispatched" /\ work[c] = "call_tool"
  /\ d # None => call[d] = "idle" /\ \A e \in Calls : inner[e] # d
  /\ nest' = [nest EXCEPT ![c] = "running"]
  /\ under' = [under EXCEPT ![c] = activeCtx]
  /\ inner' = [inner EXCEPT ![c] = d]
  /\ UNCHANGED <<procVars, loopVars, routeVars, callVars, quiet, toolVars, work, stream>>

HandleExec(c) ==
  /\ nest[c] = "dispatched" /\ work[c] = "exec"
  /\ nest' = [nest EXCEPT ![c] = "running"]
  /\ UNCHANGED <<procVars, loopVars, routeVars, callVars, quiet, toolVars, work, under,
                 inner, stream>>

\* SessionBridge.CallTool runs the tool's Execute, with the context it was given.
InnerCall(c) ==
  /\ nest[c] = "running" /\ inner[c] # None
  /\ Begin(inner[c], under[c])

\* The request is answered: its tool or command returned.
HandlerEnds(c) ==
  /\ nest[c] = "running" /\ (inner[c] = None \/ inner[c] \in returned)
  /\ nest' = [nest EXCEPT ![c] = "none"]
  /\ under' = [under EXCEPT ![c] = None]
  /\ inner' = [inner EXCEPT ![c] = None]
  /\ work' = [work EXCEPT ![c] = "none"]
  /\ UNCHANGED <<procVars, loopVars, routeVars, callVars, quiet, toolVars, stream>>

-----------------------------------------------------------------------------
(* The extension process, as fir sees it.                                   *)

Send(msg) ==
  /\ alive /\ Len(inbox) < InboxMax
  /\ inbox' = Append(inbox, msg)
  /\ UNCHANGED <<alive, stdin, written, loopVars, routeVars, callVars, quiet, toolVars>>

Reply(c) ==
  /\ c \in written \ replied
  /\ Send([type |-> "response", of |-> c])
  /\ replied' = replied \cup {c}
  /\ UNCHANGED <<nestVars, stream>>

\* A handler calls back into fir; one request at a time.
CallBack(c, w) ==
  /\ c \in written \ replied /\ nest[c] = "none"
  /\ Send([type |-> "request", of |-> c])
  /\ nest' = [nest EXCEPT ![c] = "sent"]
  /\ work' = [work EXCEPT ![c] = w]
  /\ UNCHANGED <<replied, under, inner, stream>>

EndStream(s) ==
  /\ s \in written
  /\ Send([type |-> "end", of |-> s])
  /\ UNCHANGED <<replied, nestVars, stream>>

Say(type) ==
  /\ Send([type |-> type, of |-> None])
  /\ UNCHANGED <<replied, nestVars, stream>>

Die ==
  /\ alive
  /\ alive' = FALSE
  /\ UNCHANGED <<stdin, inbox, written, replied, loopVars, routeVars, callVars, quiet,
                 toolVars, nestVars, stream>>

\* A tick is longer than keepAliveInterval and than a goroutine takes to start.
Working == \E c \in Calls : nest[c] = "running" /\ work[c] = "call_tool"
Passes(heard, timer) ==
  /\ \A c \in Calls : nest[c] # "dispatched"
  /\ \E c \in Calls : TimerRuns(c) /\ (left[c] > 0 \/ quiet < MaxQuiet)
  /\ quiet' = IF heard THEN 0 ELSE IF quiet < MaxQuiet THEN quiet + 1 ELSE quiet
  /\ left' = timer
  /\ UNCHANGED <<procVars, loopVars, routeVars, call, ctx, returned, toolVars, nestVars,
                 stream>>

Elapsed == [c \in Calls |-> IF TimerRuns(c) /\ left[c] > 0 THEN left[c] - 1 ELSE left[c]]

\* Mutant: no keepAlive.
TickUnheard == Passes(FALSE, Elapsed)

Tick == Passes(Working, Elapsed)

-----------------------------------------------------------------------------
Caller(c) ==
  \/ Register(c) \/ Write(c) \/ WriteFails(c) \/ Receive(c)
  \/ Cancel(c) \/ Extend(c) \/ TimeOut(c) \/ Return(c)

Reader == ReadResponse \/ Deliver \/ ReadRequest \/ ReadNotification \/ ReadFails

Run == CloseStdin \/ FailAllPending \/ \E c \in Calls : FailOne(c)

Handler(c) ==
  \/ \E d \in (ToolCalls \ {c}) \cup {None} : HandleCallTool(c, d)
  \/ HandleExec(c) \/ InnerCall(c) \/ HandlerEnds(c)

Extension ==
  \/ \E c \in Calls : Reply(c) \/ \E w \in Works : CallBack(c, w)
  \/ \E s \in StreamStarts : EndStream(s)
  \/ \E type \in {"chatter", "garbage"} : Say(type)
  \/ Die

Next ==
  \/ \E c \in Calls : HostCalls(c) \/ Abort(c) \/ Caller(c) \/ Handler(c)
  \/ Reader \/ Run \/ Leave \/ Extension \/ Tick

Spec == Init /\ [][Next]_vars

\* The goroutines of fir run, a select does not pass over a ready channel for
\* ever, and time passes however often handlers start.
Fairness ==
  /\ \A c \in Calls :
       /\ WF_vars(Caller(c)) /\ WF_vars(Receive(c)) /\ WF_vars(Cancel(c))
       /\ WF_vars(FailOne(c))
       /\ WF_vars(HandleExec(c)) /\ WF_vars(\E d \in ToolCalls \cup {None} : HandleCallTool(c, d))
  /\ WF_vars(Reader)
  /\ WF_vars(CloseStdin \/ FailAllPending)
  /\ SF_vars(Tick)

FairSpec == Spec /\ Fairness

-----------------------------------------------------------------------------
(* Properties.                                                              *)

\* A parked channel is filled at most once (failAllPending's comment: "only
\* ever delivered to once ... so the send never blocks"): between b.pending,
\* the response in the reader's hand, the channels failAllPending took and the
\* channel's own slot, a call is in one place at most.
DeliveredOnce ==
  /\ pending \cap failing = {} /\ routing \notin pending \cup failing
  /\ \A c \in pending \cup failing \cup ({routing} \ {None}) : mailbox[c] = "empty"

\* Nobody waits forgotten: a caller that waits is still in b.pending, where a
\* response or the end of the loop will find it, or something is on its way to
\* its channel.  Once the loop has ended nothing is parked any more.
WaiterReachable ==
  /\ \A c \in Calls : call[c] = "waiting" =>
       c \in pending \cup failing \cup {routing} \/ mailbox[c] # "empty"
  /\ closed => pending = {}

\* CallHook, routeResponse, failAllPending: whoever waits will be told, and once.
WaitersToldOnce == DeliveredOnce /\ WaiterReachable

\* CallHook: "an extension that stays busy ... is never clipped mid-work": no
\* call times out while fir itself works on a call_tool of the extension.
NotClippedMidWork ==
  [][\A c \in Calls : call[c] # "timedOut" /\ call'[c] = "timedOut" => ~ Working]_vars

\* EmitEventAwait "costs exactly timeout and is then abandoned": it returns
\* although the extension is silent, dead, or talks without ever answering.
AckBounded == \A e \in EventAcks : call[e] # "idle" ~> e \in returned

\* A call in flight when the read loop ends, or made afterwards, returns, even
\* with its host-side deadline disabled.
ClosedEndsCalls == \A c \in Calls : closed /\ call[c] # "idle" ~> c \in returned

\* The bridge implements one-shot calls over a connection that can be lost.
Outcome == [c \in Calls |->
  CASE call[c] \in {"idle", "called"} -> "none"
    [] call[c] \in {"parked", "waiting"} -> "open"
    [] OTHER -> call[c]]
LinkLost == ~ alive \/ ~ stdin \/ closed

OneShot == INSTANCE OneShotCall WITH outcome <- Outcome, lost <- LinkLost
ImplementsOneShot == OneShot!Spec

\* RegisterTools: "Store context so inbound call_tool requests use it": what the
\* extension asks of fir while one of its tools runs is cancelled with that
\* tool's turn.
NestedUnderItsCall ==
  \A c \in ToolCalls : nest[c] = "running" /\ work[c] = "call_tool" /\ call[c] = "waiting"
                           => under[c] # None

\* UnregisterProviders ends a stream when "there's nobody left to deliver
\* events"; a stream whose extension died ends, too.
StreamsEnd == \A s \in StreamStarts : closed ~> stream[s] # "active"
=============================================================================

---------------------------- MODULE AcpSessions ----------------------------
(***************************************************************************)
(* pkg/modes/acp: the table of in-memory sessions of one ACP server, as    *)
(* one sessionId sees it.                                                  *)
(*                                                                         *)
(* A session in memory (a firSession) runs the turns of prompts and writes *)
(* them to its transcript, under the transcript's flock.  A handle on disk *)
(* binds the sessionId to the transcript it continues on.  An idle session *)
(* is reaped; the next prompt rehydrates it from the handle.  Prompts,     *)
(* loads, releases, the reaper and the shutdown are goroutines that meet   *)
(* only under pa.mu, a rehydrate lock, each session's saveMu and flocks.   *)
(*                                                                         *)
(* Which entries a transcript holds is module SessionStore's; here it has  *)
(* the turns that were written to it.                                      *)
(***************************************************************************)
EXTENDS Naturals, FiniteSets

CONSTANTS
  Prompts, Loads, Releases,   \* requests of clients
  Reaper, Closer,             \* the idle reaper, and Run's cleanup
  Entry,                      \* bound: firSessions of one server's life
  Transcript, First,          \* transcript paths; the one there is at first
  Outsider,                   \* another process that opens transcripts
  MaxCrashes,                 \* bound: how often the server ends
  None

Opener == Prompts \cup Loads
Request == Opener \cup Releases
Actor == Request \cup {Reaper, Closer}

ASSUME AcpAssumption ==
  /\ Prompts \cap Loads = {} /\ Opener \cap Releases = {}
  /\ Reaper # Closer /\ {Reaper, Closer} \cap Request = {}
  /\ First \in Transcript
  /\ Outsider \notin Entry
  /\ None \notin Actor \cup Entry \cup Transcript \cup {Outsider}
  /\ MaxCrashes \in Nat

VARIABLES
  handle,     \* the transcript the handle of the sessionId points at
  onDisk,     \* the transcripts that exist
  turns,      \* turns[t]: the prompts whose turn t holds
  holder,     \* holder[t]: who has the flock of t
  table,      \* pa.sessions[sessionId]
  status,     \* status[e]: what has become of a firSession
  file,       \* file[e]: the transcript it writes
  fresh,      \* the entries touched within the idle TTL
  run,        \* run[e]: the prompt whose turn e's agent runs
  saver,      \* saver[e]: who holds e's saveMu
  lock,       \* who holds the sessionId's rehydrate lock
  pc, ent, path,
              \* each actor's step, firSession and resolved transcript
  cut,        \* history: prompts whose turn was cancelled under them
  kept,       \* history: prompts answered after a whole turn, until a release
  raced,      \* history: the client, or the reaper, raced (Racing)
  crashes

diskVars == <<handle, onDisk, turns, holder>>
entryVars == <<status, file, fresh, run, saver>>
history == <<cut, kept>>
vars == <<diskVars, table, entryVars, lock, pc, ent, path, history, raced, crashes>>

Ends == {"answered", "queued", "notfound", "lost"}
Opening == {"can", "resolve", "remove", "close", "stop", "open", "save", "saving", "insert",
            "touchNew"}
Steps == {"idle", "rehydrate", "touch", "wait", "submit", "run", "answer", "forget", "exit"}

TypeOK ==
  /\ handle \in Transcript \cup {None}
  /\ onDisk \in SUBSET Transcript
  /\ turns \in [Transcript -> SUBSET Prompts]
  /\ holder \in [Transcript -> Entry \cup {Outsider, None}]
  /\ table \in Entry \cup {None}
  /\ status \in [Entry -> {"free", "building", "open", "closing", "closed"}]
  /\ file \in [Entry -> Transcript \cup {None}]
  /\ fresh \in SUBSET Entry
  /\ run \in [Entry -> Prompts \cup {None}]
  /\ saver \in [Entry -> Actor \cup {None}]
  /\ lock \in Prompts \cup {None}
  /\ pc \in [Actor -> Steps \cup Opening \cup Ends]
  /\ ent \in [Actor -> Entry \cup {None}]
  /\ path \in [Actor -> Transcript \cup {None}]
  /\ cut \in SUBSET Prompts /\ kept \in SUBSET Prompts
  /\ raced \in BOOLEAN /\ crashes \in 0 .. MaxCrashes

\* The server has just started; the client knows the sessionId from before.
Init ==
  /\ handle = First /\ onDisk = {First}
  /\ turns = [t \in Transcript |-> {}]
  /\ holder = [t \in Transcript |-> None]
  /\ table = None
  /\ status = [e \in Entry |-> "free"]
  /\ file = [e \in Entry |-> None]
  /\ fresh = {}
  /\ run = [e \in Entry |-> None]
  /\ saver = [e \in Entry |-> None]
  /\ lock = None
  /\ pc = [a \in Actor |-> "idle"]
  /\ ent = [a \in Actor |-> None]
  /\ path = [a \in Actor |-> None]
  /\ cut = {} /\ kept = {} /\ raced = FALSE /\ crashes = 0

-----------------------------------------------------------------------------
Goto(a, step) == pc' = [pc EXCEPT ![a] = step]
At(a, step) == pc[a] = step

\* The goroutine is done with its session.
Return(a, step) == Goto(a, step) /\ ent' = [ent EXCEPT ![a] = None]

\* store.ResolveHandle: a binding to a transcript that is not there is none.
Resolved == IF handle \in onDisk THEN handle ELSE None

\* A path made from a new UUID.
Unused(t) == t \notin onDisk /\ handle # t /\ \A e \in Entry : file[e] # t

Closed(e) == status[e] \in {"closing", "closed"}

\* The session's agent events are still delivered and persisted.
Subscribed(e) == status[e] \in {"open", "closing"}

-----------------------------------------------------------------------------
(* SaveState and teardownSession.                                           *)

AfterSave(a) ==
  IF status[ent[a]] = "building" THEN "insert"
  ELSE IF a = Reaper THEN "close" ELSE "answer"

\* Mutants: whether the session is closed is not looked at again under saveMu;
\* a handle that is bound is not bound again.
SaveLockUnchecked(a) ==
  /\ At(a, "save") /\ saver[ent[a]] = None
  /\ Goto(a, "saving")
  /\ saver' = [saver EXCEPT ![ent[a]] = a]
  /\ UNCHANGED <<status, file, fresh, run, diskVars, table, lock, ent, path, history,
                 crashes>>

SaveBindOnce(a) ==
  /\ At(a, "saving")
  /\ handle' = IF Resolved = None THEN file[ent[a]] ELSE handle
  /\ saver' = [saver EXCEPT ![ent[a]] = None]
  /\ Goto(a, AfterSave(a))
  /\ UNCHANGED <<onDisk, turns, holder, status, file, fresh, run, table, lock, ent, path,
                 history, crashes>>

\* SaveState: lock saveMu, and stop if the session has been closed.
SaveLock(a) ==
  /\ At(a, "save") /\ saver[ent[a]] = None
  /\ IF Closed(ent[a])
       THEN /\ Goto(a, AfterSave(a))
            /\ UNCHANGED saver
       ELSE /\ Goto(a, "saving")
            /\ saver' = [saver EXCEPT ![ent[a]] = a]
  /\ UNCHANGED <<status, file, fresh, run, diskVars, table, lock, ent, path, history,
                 crashes>>

\* SaveState: the handle points at the transcript the session writes.
SaveBind(a) ==
  /\ At(a, "saving")
  /\ handle' = file[ent[a]]
  /\ saver' = [saver EXCEPT ![ent[a]] = None]
  /\ Goto(a, AfterSave(a))
  /\ UNCHANGED <<onDisk, turns, holder, status, file, fresh, run, table, lock, ent, path,
                 history, crashes>>

\* AgentSession.Close: closeState waits for a save in flight.
CloseState(a) ==
  /\ At(a, "close") /\ saver[ent[a]] = None
  /\ status' = [status EXCEPT ![ent[a]] = "closing"]
  /\ Goto(a, "stop")
  /\ UNCHANGED <<file, fresh, run, saver, diskVars, table, lock, ent, path, history,
                 crashes>>

Unlocked(e) == [t \in Transcript |-> IF holder[t] = e THEN None ELSE holder[t]]

AfterTeardown(a) ==
  IF a \in Releases THEN "forget" ELSE IF a = Closer THEN "exit" ELSE "open"

\* ... then aborts the run, unsubscribes and closes the store, which drops the
\* flock.  A client that releases a session gives up the prompts it has there.
Stop(a) ==
  /\ At(a, "stop")
  /\ status' = [status EXCEPT ![ent[a]] = "closed"]
  /\ holder' = Unlocked(ent[a])
  /\ cut' = cut \cup {p \in Prompts :
                        /\ ent[p] = ent[a] /\ pc[p] \notin Ends
                        /\ run[ent[a]] = p \/ a \in Releases}
  /\ IF a = Reaper THEN Return(a, "idle") ELSE Goto(a, AfterTeardown(a)) /\ UNCHANGED ent
  /\ UNCHANGED <<handle, onDisk, turns, file, fresh, run, saver, kept, table, lock, path,
                 crashes>>

\* Mutant: the entry stays in the table.
TakeOutKeeps(a, next) ==
  /\ table # None
  /\ ent' = [ent EXCEPT ![a] = table]
  /\ UNCHANGED table
  /\ Goto(a, next)

\* removeSession, pa.mu held: whoever takes an entry out tears it down.
TakeOut(a, next) ==
  /\ table # None
  /\ ent' = [ent EXCEPT ![a] = table]
  /\ table' = None
  /\ Goto(a, next)

-----------------------------------------------------------------------------
(* openSession and createSession.                                           *)

\* openSession resolves the handle, which canRehydrate resolved before it.
Resolve(a) ==
  /\ At(a, "resolve")
  /\ path' = [path EXCEPT ![a] = Resolved]
  /\ Goto(a, "remove")
  /\ UNCHANGED <<diskVars, table, entryVars, lock, ent, history, crashes>>

\* "A client retry would otherwise leak the old session's goroutines."
RemoveOld(a) ==
  /\ At(a, "remove")
  /\ IF table = None
       THEN Goto(a, "open") /\ UNCHANGED <<table, ent>>
       ELSE TakeOut(a, "close")
  /\ UNCHANGED <<diskVars, entryVars, lock, path, history, crashes>>

Opened(a, e, t) ==
  /\ status' = [status EXCEPT ![e] = "building"]
  /\ file' = [file EXCEPT ![e] = t]
  /\ holder' = [holder EXCEPT ![t] = e]
  /\ ent' = [ent EXCEPT ![a] = e]
  /\ path' = [path EXCEPT ![a] = None]
  /\ Goto(a, "save")
  /\ UNCHANGED <<handle, fresh, run, saver, table, lock, history, crashes>>

\* OpenSessionStore takes the transcript's flock.
OpenStore(a) ==
  /\ At(a, "open") /\ path[a] # None /\ holder[path[a]] = None
  /\ \E e \in Entry : status[e] = "free" /\ Opened(a, e, path[a])
  /\ UNCHANGED <<onDisk, turns>>

\* ... or forks what somebody else holds; NewSessionStore if there is nothing
\* to open, whose file is written with its first turn.
OpenNew(a) ==
  /\ At(a, "open") /\ (path[a] # None => holder[path[a]] # None)
  /\ \E e \in Entry, t \in Transcript :
       /\ status[e] = "free" /\ Unused(t)
       /\ IF path[a] = None
            THEN UNCHANGED <<onDisk, turns>>
            ELSE /\ onDisk' = onDisk \cup {t}
                 /\ turns' = [turns EXCEPT ![t] = turns[path[a]]]
       /\ Opened(a, e, t)

\* pa.sessions[sessionID] = entry, which forgets the entry that was there.
Insert(a) ==
  /\ At(a, "insert")
  /\ table' = ent[a]
  /\ status' = [status EXCEPT ![ent[a]] = "open"]
  /\ Goto(a, "touchNew")
  /\ UNCHANGED <<file, fresh, run, saver, diskVars, lock, ent, path, history, crashes>>

\* ... and only then entry.touch; a rehydrate drops its lock as it returns.
TouchNew(a) ==
  /\ At(a, "touchNew")
  /\ fresh' = fresh \cup {ent[a]}
  /\ lock' = IF a \in Prompts THEN None ELSE lock
  /\ IF a \in Prompts THEN Goto(a, "touch") /\ UNCHANGED ent ELSE Return(a, "answered")
  /\ UNCHANGED <<status, file, run, saver, diskVars, table, path, history, crashes>>

\* session/load and session/resume.
Load(l) ==
  /\ At(l, "idle") /\ l \in Loads
  /\ Goto(l, "resolve")
  /\ UNCHANGED <<diskVars, table, entryVars, lock, ent, path, history, crashes>>

-----------------------------------------------------------------------------
(* Prompt.                                                                  *)

Lookup(p) ==
  /\ At(p, "idle") /\ p \in Prompts
  /\ ent' = [ent EXCEPT ![p] = table]
  /\ Goto(p, IF table = None THEN "rehydrate" ELSE "touch")
  /\ UNCHANGED <<diskVars, table, entryVars, lock, path, history, crashes>>

\* Mutant: the session is not looked up again under the lock.
RehydrateUnlooked(p) ==
  /\ At(p, "rehydrate") /\ lock = None
  /\ Goto(p, "can")
  /\ lock' = p
  /\ UNCHANGED <<diskVars, table, entryVars, ent, path, history, crashes>>

\* rehydrateForPrompt: one at a time, and look again.
Rehydrate(p) ==
  /\ At(p, "rehydrate") /\ lock = None
  /\ IF table = None
       THEN /\ Goto(p, "can")
            /\ lock' = p
            /\ UNCHANGED ent
       ELSE /\ Goto(p, "touch")
            /\ ent' = [ent EXCEPT ![p] = table]
            /\ UNCHANGED lock
  /\ UNCHANGED <<diskVars, table, entryVars, path, history, crashes>>

\* canRehydrate.
CanRehydrate(p) ==
  /\ At(p, "can")
  /\ IF Resolved = None
       THEN Goto(p, "notfound") /\ lock' = None
       ELSE Goto(p, "resolve") /\ UNCHANGED lock
  /\ UNCHANGED <<diskVars, table, entryVars, ent, path, history, crashes>>

Touch(p) ==
  /\ At(p, "touch")
  /\ fresh' = fresh \cup {ent[p]}
  /\ Goto(p, "wait")
  /\ UNCHANGED <<status, file, run, saver, diskVars, table, lock, ent, path, history,
                 crashes>>

\* "Wait for the run to end"
AwaitIdle(p) ==
  /\ At(p, "wait") /\ run[ent[p]] = None
  /\ Goto(p, "submit")
  /\ UNCHANGED <<diskVars, table, entryVars, lock, ent, path, history, crashes>>

\* AgentSession.Prompt: a run that has begun meanwhile queues the message, and
\* the request is answered at once.
Submit(p) ==
  /\ At(p, "submit")
  /\ IF run[ent[p]] = None
       THEN /\ run' = [run EXCEPT ![ent[p]] = p]
            /\ Goto(p, "run") /\ UNCHANGED ent
       ELSE /\ Return(p, "queued")
            /\ UNCHANGED run
  /\ UNCHANGED <<status, file, fresh, saver, diskVars, table, lock, path, history, crashes>>

\* The turn is over.  Its messages are in the transcript, if the session still
\* hears its agent, and the end of the run saves the state.
TurnEnds(p) ==
  LET e == ent[p] IN
  /\ At(p, "run")
  /\ IF Subscribed(e)
       THEN /\ turns' = [turns EXCEPT ![file[e]] = @ \cup {p}]
            /\ onDisk' = onDisk \cup {file[e]}
            /\ fresh' = fresh \cup {e}
            /\ Goto(p, "save")
       ELSE /\ Goto(p, "answer")
            /\ UNCHANGED <<turns, onDisk, fresh>>
  /\ UNCHANGED <<handle, holder, status, file, run, saver, table, lock, ent, path, history,
                 crashes>>

Answer(p) ==
  /\ At(p, "answer")
  /\ run' = [run EXCEPT ![ent[p]] = None]
  /\ kept' = IF p \in cut THEN kept ELSE kept \cup {p}
  /\ Return(p, "answered")
  /\ UNCHANGED <<status, file, fresh, saver, cut, diskVars, table, lock, path, crashes>>

-----------------------------------------------------------------------------
(* ReleaseSession, reapIdle, the end of Run, and the outside.               *)

Release(r) ==
  /\ At(r, "idle") /\ r \in Releases
  /\ IF table = None
       THEN Goto(r, "forget") /\ UNCHANGED <<table, ent>>
       ELSE TakeOut(r, "close")
  /\ UNCHANGED <<diskVars, entryVars, lock, path, history, crashes>>

\* forgetSession.
Forget(r) ==
  /\ At(r, "forget")
  /\ handle' = None
  /\ kept' = {}
  /\ Goto(r, IF ent[r] = None /\ handle = None THEN "notfound" ELSE "answered")
  /\ UNCHANGED <<onDisk, turns, holder, cut, table, entryVars, lock, ent, path, crashes>>

\* The TTL passes.  Every event of a turn touches its session, and a TTL is
\* longer than a prompt takes from its touch to its run.
GoesIdle(e) ==
  /\ e \in fresh
  /\ \A p \in Prompts : ent[p] = e => pc[p] \notin {"wait", "submit", "run"}
  /\ fresh' = fresh \ {e}
  /\ UNCHANGED <<pc, status, file, run, saver, diskVars, table, lock, ent, path, history,
                 crashes>>

\* reapIdle takes a session that nothing has touched, saves it and tears it down.
Reap ==
  /\ At(Reaper, "idle") /\ table \notin fresh
  /\ TakeOut(Reaper, "save")
  /\ UNCHANGED <<diskVars, entryVars, lock, path, history, crashes>>

\* Run ends: it empties the table, waits for the reaper, and tears down.
ShutDown ==
  /\ At(Closer, "idle") /\ crashes < MaxCrashes
  /\ TakeOut(Closer, "wait")
  /\ UNCHANGED <<diskVars, entryVars, lock, path, history, crashes>>

ReaperStopped ==
  /\ At(Closer, "wait") /\ At(Reaper, "idle")
  /\ pc' = [pc EXCEPT ![Closer] = "close", ![Reaper] = "exit"]
  /\ UNCHANGED <<diskVars, table, entryVars, lock, ent, path, history, crashes>>

\* The process ends, by itself or killed, and another one starts.
Dies ==
  /\ crashes < MaxCrashes
  /\ crashes' = crashes + 1
  /\ holder' = [t \in Transcript |-> IF holder[t] = Outsider THEN Outsider ELSE None]
  /\ table' = None
  /\ status' = [e \in Entry |-> "free"]
  /\ file' = [e \in Entry |-> None]
  /\ fresh' = {}
  /\ run' = [e \in Entry |-> None]
  /\ saver' = [e \in Entry |-> None]
  /\ lock' = None
  /\ pc' = [a \in Actor |->
              IF a \in Request /\ pc[a] \in Ends \cup {"idle"} THEN pc[a]
              ELSE IF a \in Request THEN "lost" ELSE "idle"]
  /\ ent' = [a \in Actor |-> None]
  /\ path' = [a \in Actor |-> None]
  /\ UNCHANGED <<handle, onDisk, turns, history>>

\* Another process opens the transcript, or closes it.
Hold(t) ==
  /\ t \in onDisk /\ holder[t] \in {None, Outsider}
  /\ holder' = [holder EXCEPT ![t] = IF @ = None THEN Outsider ELSE None]
  /\ UNCHANGED <<pc, handle, onDisk, turns, table, entryVars, lock, ent, path, history,
                 crashes>>

-----------------------------------------------------------------------------
Opens(a) ==
  Resolve(a) \/ RemoveOld(a) \/ OpenStore(a) \/ OpenNew(a) \/ Insert(a) \/ TouchNew(a)

Prompt(p) ==
  \/ Lookup(p) \/ Rehydrate(p) \/ CanRehydrate(p)
  \/ Touch(p) \/ AwaitIdle(p) \/ Submit(p) \/ TurnEnds(p) \/ Answer(p)

Saves(a) == SaveLock(a) \/ SaveBind(a)
Teardown(a) == CloseState(a) \/ Stop(a)

Step ==
  \/ \E p \in Prompts : Prompt(p)
  \/ \E l \in Loads : Load(l)
  \/ \E a \in Opener : Opens(a)
  \/ \E r \in Releases : Release(r) \/ Forget(r)
  \/ \E a \in Opener \cup {Reaper} : Saves(a)
  \/ \E a \in Actor : Teardown(a)
  \/ Reap \/ ShutDown \/ ReaperStopped \/ Dies
  \/ \E e \in Entry : GoesIdle(e)
  \/ \E t \in Transcript : Hold(t)

\* A client that sends a load beside another request, or a release beside one
\* that opens the session; a session released or opened again while the reaper
\* tears it down, or taken out after a prompt found it and before it touched it;
\* a request that is served while the server shuts down.
Busy(a) == pc[a] \notin Ends \cup {"idle"}
IsOpening(a) == pc[a] \in Opening /\ (pc[a] \in {"save", "saving"} => status[ent[a]] = "building")
Racing ==
  \/ \E l \in Loads, a \in Request : a # l /\ Busy(l) /\ Busy(a)
  \/ \E r \in Releases :
       /\ Busy(r)
       /\ \E a \in Request : a # r /\ Busy(a) /\ (a \in Releases \/ IsOpening(a))
  \/ /\ pc[Reaper] # "idle"
     /\ \E a \in Request : Busy(a) /\ (a \in Releases \/ IsOpening(a))
  \/ \E p \in Prompts : pc[p] = "touch" /\ ent[p] # table
  \/ pc[Closer] # "idle" /\ \E a \in Request : Busy(a)

Next == Step /\ raced' = (raced \/ Racing')

Spec == Init /\ [][Next]_vars

-----------------------------------------------------------------------------
(* Properties.                                                              *)

\* Whoever takes an entry out of pa.sessions, and nobody else, tears it down.
TakenOnce ==
  /\ table # None => status[table] = "open"
  /\ \A a, b \in Actor :
       a # b /\ {pc[a], pc[b]} \subseteq {"close", "stop"} => ent[a] # ent[b]

\* "A client retry would otherwise leak the old session's goroutines": an open
\* session is the table's, or somebody is about to tear it down.
Leaked(e) ==
  /\ status[e] = "open" /\ e # table
  /\ \A a \in Actor \ Prompts :
       ent[a] = e => pc[a] \notin {"save", "saving", "wait", "close", "stop"}
  /\ \A p \in Prompts : ent[p] = e => pc[p] \notin {"close", "stop"}
NoneLeaked == ~ raced => \A e \in Entry : ~ Leaked(e)

\* removeSession, reapIdle, Run: a session is torn down by exactly one of those
\* who may, and a prompt never finds a closed one in the table.
TornDownOnce == TypeOK /\ TakenOnce /\ NoneLeaked

\* rehydrateForPrompt: "a second concurrent Prompt must reuse the first one's
\* session, not tear it down by rebuilding it".
RehydrateReplacesNothing ==
  ~ raced => \A p \in Prompts : pc[p] \notin {"close", "stop"}

\* What a client was told is done is not forgotten: the transcript that the
\* session has, or that the next prompt will wake it with, holds the turn of
\* every prompt answered, across reaping, forks, crashes and shutdowns.
Current == IF table # None THEN file[table] ELSE Resolved
TurnsIn(t) == IF t = None THEN {} ELSE turns[t]
TurnsKept == ~ raced => kept \subseteq TurnsIn(Current)

\* closeState: "so a late save cannot revive a session its owner has just
\* forgotten": only a session being opened binds a forgotten handle.
Revived ==
  /\ handle = None /\ handle' # None
  /\ \A a \in Opener : pc[a] = "saving" => status[ent[a]] # "building"
NoRevival == [][~ raced' => ~ Revived]_vars

-----------------------------------------------------------------------------
(* What comments of the code say and the code does not do.                  *)

\* "waking an idle conversation is seamless"
WakingIsSeamless == kept \subseteq TurnsIn(Current)

\* "Wait for the run to end, so the message gets a real turn of its own"
OwnTurn == \A p \in Prompts : pc[p] # "queued"

\* "An explicit release is authoritative: forget it so the session is truly
\* gone."
ReleaseIsAuthoritative == [][~ Revived]_vars

\* "A client retry would otherwise leak the old session's goroutines."
RetryLeaksNothing == \A e \in Entry : ~ Leaked(e)
=============================================================================

------------------------- MODULE AcpSessionsProofs -------------------------
(***************************************************************************)
(* Proofs that AcpSessions tears a session down once and by one, that a    *)
(* prompt never rebuilds what another prompt woke, that what was answered  *)
(* is in the transcript the sessionId leads to, and that a late save       *)
(* revives nothing, for any number of requests, sessions and transcripts,  *)
(* and for any number of crashes.                                          *)
(***************************************************************************)
EXTENDS AcpSessions, TLAPS

-----------------------------------------------------------------------------
(* The inductive invariant: what holds whoever races. *)

\* Which steps an actor of each kind can be at.
KindInv ==
  /\ \A p \in Prompts :
       pc[p] \in {"idle", "rehydrate", "touch", "wait", "submit", "run", "answer"}
                   \cup Opening \cup Ends
  /\ \A l \in Loads : pc[l] \in {"idle"} \cup (Opening \ {"can"}) \cup Ends
  /\ \A r \in Releases : pc[r] \in {"idle", "close", "stop", "forget"} \cup Ends
  /\ pc[Reaper] \in {"idle", "save", "saving", "close", "stop", "exit"}
  /\ pc[Closer] \in {"idle", "wait", "close", "stop", "exit"}
  /\ pc[Reaper] = "exit" => pc[Closer] # "idle"

\* The firSession of an actor that has one is there, and has its transcript.
EntInv ==
  /\ \A a \in Actor :
       pc[a] \in {"close", "stop", "save", "saving", "insert", "touchNew", "touch", "wait",
                  "submit", "run", "answer"} => ent[a] # None
  /\ \A a \in Actor : ent[a] # None => status[ent[a]] # "free"
  /\ \A e \in Entry : status[e] # "free" => file[e] # None
  /\ \A t \in Transcript \ onDisk : turns[t] = {}

\* Who builds a firSession is alone with it until it is in the table.
BuildInv ==
  /\ \A a \in Actor :
       ent[a] # None /\ status[ent[a]] = "building" =>
         /\ a \in Opener /\ pc[a] \in {"save", "saving", "insert"}
         /\ \A b \in Actor : ent[b] = ent[a] => b = a
  /\ \A a \in Opener : pc[a] = "insert" => status[ent[a]] = "building"
  /\ \A l \in Loads : pc[l] \in {"save", "saving"} => status[ent[l]] = "building"

\* The actor took its session out of the table and is to tear it down.
Taken(a) ==
  \/ pc[a] \in {"close", "stop"}
  \/ a = Reaper /\ pc[a] \in {"save", "saving"}
  \/ a = Closer /\ pc[a] = "wait"

\* removeSession: what is taken out is not in the table, and is taken by one.
TakenInv ==
  /\ table # None => status[table] = "open"
  /\ \A a \in Actor : Taken(a) =>
       /\ ent[a] # table
       /\ status[ent[a]] = IF pc[a] = "stop" THEN "closing" ELSE "open"
       /\ \A b \in Actor : Taken(b) /\ ent[b] = ent[a] => b = a

\* saveMu is held by who saves, and no session closes under a save.
SaverInv ==
  \A a \in Actor : pc[a] = "saving" =>
    saver[ent[a]] = a /\ status[ent[a]] \in {"building", "open"}

\* The prompt has a turn, which runs or is being answered.
Turn(p) ==
  \/ pc[p] \in {"run", "answer"}
  \/ pc[p] \in {"save", "saving"} /\ status[ent[p]] # "building"

\* Nobody but the prompt ends its turn, and its session is not idle before.
TurnInv ==
  /\ \A p \in Prompts : Turn(p) => run[ent[p]] = p
  /\ \A p \in Prompts : pc[p] \in {"wait", "submit", "run"} => ent[p] \in fresh

\* The prompt rehydrates the session.
Wakes(p) ==
  \/ pc[p] \in {"can", "resolve", "remove", "close", "stop", "open", "insert", "touchNew"}
  \/ pc[p] \in {"save", "saving"} /\ status[ent[p]] = "building"

LockInv == \A p \in Prompts : Wakes(p) => lock = p

BaseInv ==
  TypeOK /\ KindInv /\ EntInv /\ BuildInv /\ TakenInv /\ SaverInv /\ TurnInv /\ LockInv

-----------------------------------------------------------------------------
(* ... and what holds until somebody races. *)

\* The session hears its agent.
Live(e) == status[e] \in {"open", "closing"}

\* Opener a makes a session, and the transcript to be is resolved.
Building(a) == pc[a] = "insert" \/ (pc[a] \in {"save", "saving"} /\ status[ent[a]] = "building")

\* A session that hears its agent is the table's or about to be torn down.
KnownInv == \A e \in Entry : Live(e) => e = table \/ \E a \in Actor : Taken(a) /\ ent[a] = e

\* Who opens or releases the session finds the table empty, and it stays so.
EmptyInv ==
  /\ \A p \in Prompts : Wakes(p) /\ pc[p] # "touchNew" => table = None
  /\ \A p \in Prompts : pc[p] \notin {"close", "stop"}
  /\ \A l \in Loads : pc[l] \in {"close", "stop", "open"} \/ Building(l) => table = None
  /\ \A r \in Releases : pc[r] \in {"close", "stop", "forget"} => table = None

\* A prompt whose turn nobody has cut has a session that hears its agent, and
\* the reaper takes no session that a prompt waits for.
HeardInv ==
  /\ \A p \in Prompts \ cut :
       pc[p] \in {"wait", "submit", "run", "save", "saving", "answer"} =>
         status[ent[p]] \notin {"free", "closed"}
  /\ \A p \in Prompts :
       Taken(Reaper) /\ ent[p] = ent[Reaper] => pc[p] \notin {"wait", "submit", "run"}

\* The turn that is answered is in the transcript.
WrittenInv ==
  \A p \in Prompts :
    Turn(p) /\ pc[p] # "run" /\ p \notin cut => p \in turns[file[ent[p]]]

\* The handle leads to the transcript of the session, and both the handle and
\* the session that is being opened to what was answered.
HandleInv ==
  /\ \A e \in Entry : Live(e) => handle = file[e]
  /\ \A a \in Opener : pc[a] = "insert" => handle = file[ent[a]]
  /\ kept \subseteq TurnsIn(handle)
  /\ \A a \in Opener : pc[a] \in {"remove", "close", "stop", "open"} => kept \subseteq TurnsIn(path[a])
  /\ \A a \in Opener : Building(a) => kept \subseteq TurnsIn(file[ent[a]])

CalmInv == ~ Racing /\ KnownInv /\ EmptyInv /\ HeardInv /\ WrittenInv /\ HandleInv

IInv == BaseInv /\ (~ raced => CalmInv)

-----------------------------------------------------------------------------
(* The actors and their steps. *)

\* An actor is of one kind, and none is None.
LEMMA Kinds ==
  /\ Opener = Prompts \cup Loads /\ Prompts \cap Loads = {} /\ Opener \cap Releases = {}
  /\ Reaper \notin Opener \cup Releases /\ Closer \notin Opener \cup Releases /\ Reaper # Closer
  /\ Actor = Opener \cup Releases \cup {Reaper, Closer}
  /\ Request = Opener \cup Releases
  /\ First \in Transcript
BY AcpAssumption DEF Actor, Request, Opener

LEMMA Nones ==
  /\ None \notin Actor /\ None \notin Entry /\ None \notin Transcript
  /\ Outsider \notin Entry /\ Outsider # None
BY AcpAssumption

\* The steps, each with the actors that can take it.
LEMMA NextSteps ==
  ASSUME Next
  PROVE  /\ raced' = (raced \/ Racing')
         /\ \/ \E a \in Opener : Resolve(a) \/ RemoveOld(a) \/ OpenStore(a) \/ OpenNew(a)
                              \/ Insert(a) \/ TouchNew(a)
            \/ \E l \in Loads : Load(l)
            \/ \E p \in Prompts : Lookup(p) \/ Rehydrate(p) \/ CanRehydrate(p) \/ Touch(p)
                               \/ AwaitIdle(p) \/ Submit(p) \/ TurnEnds(p) \/ Answer(p)
            \/ \E r \in Releases : Release(r) \/ Forget(r)
            \/ \E a \in Actor : SaveLock(a) \/ SaveBind(a) \/ CloseState(a) \/ Stop(a)
            \/ Reap \/ ShutDown \/ ReaperStopped \/ Dies
            \/ \E e \in Entry : GoesIdle(e)
            \/ \E t \in Transcript : Hold(t)
BY Kinds DEF Next, Step, Prompt, Opens, Saves, Teardown

LEMMA AfterSaveIs ==
  ASSUME NEW a \in Actor
  PROVE  /\ AfterSave(a) \in {"insert", "close", "answer"}
         /\ AfterSave(a) = "insert" <=> status[ent[a]] = "building"
         /\ AfterSave(a) = "close" => a = Reaper
         /\ a = Reaper => AfterSave(a) # "answer"
BY DEF AfterSave

\* The steps keep the types.
LEMMA TypeStep ==
  ASSUME KindInv, EntInv, TypeOK, raced' \in BOOLEAN, [Next]_vars
  PROVE  TypeOK'
<1> USE DEF TypeOK, Steps, Opening, Ends, Goto, At, diskVars, entryVars, history
<1>1. ASSUME NEW a \in Opener, Resolve(a) PROVE TypeOK'
  BY <1>1, Kinds, Nones DEF Resolve, Resolved
<1>2. ASSUME NEW a \in Opener, RemoveOld(a) PROVE TypeOK'
  BY <1>2, Kinds, Nones DEF RemoveOld, TakeOut
<1>3. ASSUME NEW a \in Opener, OpenStore(a) PROVE TypeOK'
  BY <1>3, Kinds, Nones DEF OpenStore, Opened
<1>4. ASSUME NEW a \in Opener, OpenNew(a) PROVE TypeOK'
  BY <1>4, Kinds, Nones DEF OpenNew, Opened, Unused
<1>5. ASSUME NEW a \in Opener, Insert(a) PROVE TypeOK'
  BY <1>5, Kinds, Nones DEF Insert
<1>6. ASSUME NEW a \in Opener, TouchNew(a) PROVE TypeOK'
  BY <1>6, Kinds, Nones DEF TouchNew, Return, EntInv
<1>7. ASSUME NEW l \in Loads, Load(l) PROVE TypeOK'
  BY <1>7, Kinds, Nones DEF Load
<1>8. ASSUME NEW p \in Prompts, Lookup(p) PROVE TypeOK'
  BY <1>8, Kinds, Nones DEF Lookup
<1>9. ASSUME NEW p \in Prompts, Rehydrate(p) PROVE TypeOK'
  BY <1>9, Kinds, Nones DEF Rehydrate
<1>10. ASSUME NEW p \in Prompts, CanRehydrate(p) PROVE TypeOK'
  BY <1>10, Kinds, Nones DEF CanRehydrate, Resolved
<1>11. ASSUME NEW p \in Prompts, Touch(p) PROVE TypeOK'
  BY <1>11, Kinds, Nones DEF Touch, EntInv
<1>12. ASSUME NEW p \in Prompts, AwaitIdle(p) PROVE TypeOK'
  BY <1>12, Kinds, Nones DEF AwaitIdle
<1>13. ASSUME NEW p \in Prompts, Submit(p) PROVE TypeOK'
  BY <1>13, Kinds, Nones DEF Submit, Return
<1>14. ASSUME NEW p \in Prompts, TurnEnds(p) PROVE TypeOK'
  <2>1. ent[p] \in Entry /\ p \in Actor
    BY <1>14, Kinds DEF TurnEnds, EntInv
  <2>2. CASE Subscribed(ent[p])
    <3>1. file[ent[p]] \in Transcript
      BY <2>1, <2>2 DEF EntInv, Subscribed
    <3>2. /\ turns' = [turns EXCEPT ![file[ent[p]]] = @ \cup {p}]
          /\ onDisk' = onDisk \cup {file[ent[p]]} /\ fresh' = fresh \cup {ent[p]}
      BY <1>14, <2>2 DEF TurnEnds
    <3>3. /\ turns' \in [Transcript -> SUBSET Prompts] /\ onDisk' \in SUBSET Transcript
          /\ fresh' \in SUBSET Entry
      BY <2>1, <3>1, <3>2
    <3> QED
      BY <1>14, <2>1, <2>2, <3>3 DEF TurnEnds
  <2>3. CASE ~ Subscribed(ent[p])
    BY <1>14, <2>1, <2>3 DEF TurnEnds
  <2> QED
    BY <2>2, <2>3
<1>15. ASSUME NEW p \in Prompts, Answer(p) PROVE TypeOK'
  BY <1>15, Kinds, Nones DEF Answer, Return
<1>16. ASSUME NEW r \in Releases, Release(r) PROVE TypeOK'
  BY <1>16, Kinds, Nones DEF Release, TakeOut
<1>17. ASSUME NEW r \in Releases, Forget(r) PROVE TypeOK'
  BY <1>17, Kinds, Nones DEF Forget
<1>18. ASSUME NEW a \in Actor, SaveLock(a) PROVE TypeOK'
  BY <1>18, Kinds, Nones DEF SaveLock, AfterSave, Closed
<1>19. ASSUME NEW a \in Actor, SaveBind(a) PROVE TypeOK'
  <2>1. ent[a] \in Entry
    BY <1>19 DEF SaveBind, EntInv
  <2> QED
    BY <1>19, <2>1, AfterSaveIs DEF SaveBind
<1>20. ASSUME NEW a \in Actor, CloseState(a) PROVE TypeOK'
  BY <1>20, Kinds, Nones DEF CloseState
<1>21. ASSUME NEW a \in Actor, Stop(a) PROVE TypeOK'
  <2>1. holder' \in [Transcript -> Entry \cup {Outsider, None}]
    BY <1>21 DEF Stop, Unlocked
  <2>2. status' \in [Entry -> {"free", "building", "open", "closing", "closed"}]
    BY <1>21 DEF Stop
  <2>3. cut' \in SUBSET Prompts
    BY <1>21 DEF Stop
  <2>4. pc' \in [Actor -> Steps \cup Opening \cup Ends] /\ ent' \in [Actor -> Entry \cup {None}]
    BY <1>21 DEF Stop, AfterTeardown, Return, Steps
  <2> QED
    BY <1>21, <2>1, <2>2, <2>3, <2>4 DEF Stop
<1>22. CASE Reap
  BY <1>22, Kinds, Nones DEF Reap, TakeOut
<1>23. CASE ShutDown
  BY <1>23, Kinds, Nones DEF ShutDown, TakeOut
<1>24. CASE ReaperStopped
  BY <1>24, Kinds, Nones DEF ReaperStopped
<1>25. CASE Dies
  <2>1. holder' \in [Transcript -> Entry \cup {Outsider, None}]
    BY <1>25 DEF Dies
  <2>2. pc' \in [Actor -> Steps \cup Opening \cup Ends]
    BY <1>25 DEF Dies, Steps
  <2>3. crashes' \in 0 .. MaxCrashes
    BY <1>25, AcpAssumption DEF Dies
  <2>4. /\ status' \in [Entry -> {"free", "building", "open", "closing", "closed"}]
        /\ file' \in [Entry -> Transcript \cup {None}]
        /\ run' \in [Entry -> Prompts \cup {None}] /\ saver' \in [Entry -> Actor \cup {None}]
        /\ ent' \in [Actor -> Entry \cup {None}] /\ path' \in [Actor -> Transcript \cup {None}]
    BY <1>25 DEF Dies
  <2> QED
    BY <1>25, <2>1, <2>2, <2>3, <2>4 DEF Dies
<1>26. ASSUME NEW e \in Entry, GoesIdle(e) PROVE TypeOK'
  BY <1>26, Kinds, Nones DEF GoesIdle
<1>27. ASSUME NEW t \in Transcript, Hold(t) PROVE TypeOK'
  BY <1>27, Kinds, Nones DEF Hold
<1>28. CASE UNCHANGED vars
  BY <1>28 DEF vars, diskVars, history
<1> QED
    BY <1>1, <1>2, <1>3, <1>4, <1>5, <1>6, <1>7, <1>8, <1>9, <1>10, <1>11, <1>12, <1>13, <1>14,
     <1>15, <1>16, <1>17, <1>18, <1>19, <1>20, <1>21, <1>22, <1>23, <1>24, <1>25, <1>26, <1>27,
     <1>28, NextSteps

\* The steps keep an actor to the steps of its kind.
LEMMA KindStep ==
  ASSUME TypeOK, KindInv, BuildInv, TakenInv, [Next]_vars
  PROVE  KindInv'
<1> USE DEF TypeOK, KindInv, Opening, Ends, Goto, At, diskVars, entryVars, history
<1>1. ASSUME NEW a \in Opener, Resolve(a) PROVE KindInv'
  BY <1>1, Kinds, Nones DEF Resolve, Resolved
<1>2. ASSUME NEW a \in Opener, RemoveOld(a) PROVE KindInv'
  BY <1>2, Kinds, Nones DEF RemoveOld, TakeOut
<1>3. ASSUME NEW a \in Opener, OpenStore(a) PROVE KindInv'
  BY <1>3, Kinds, Nones DEF OpenStore, Opened
<1>4. ASSUME NEW a \in Opener, OpenNew(a) PROVE KindInv'
  BY <1>4, Kinds, Nones DEF OpenNew, Opened, Unused
<1>5. ASSUME NEW a \in Opener, Insert(a) PROVE KindInv'
  BY <1>5, Kinds, Nones DEF Insert
<1>6. ASSUME NEW a \in Opener, TouchNew(a) PROVE KindInv'
  BY <1>6, Kinds, Nones DEF TouchNew, Return
<1>7. ASSUME NEW l \in Loads, Load(l) PROVE KindInv'
  BY <1>7, Kinds, Nones DEF Load
<1>8. ASSUME NEW p \in Prompts, Lookup(p) PROVE KindInv'
  BY <1>8, Kinds, Nones DEF Lookup
<1>9. ASSUME NEW p \in Prompts, Rehydrate(p) PROVE KindInv'
  BY <1>9, Kinds, Nones DEF Rehydrate
<1>10. ASSUME NEW p \in Prompts, CanRehydrate(p) PROVE KindInv'
  BY <1>10, Kinds, Nones DEF CanRehydrate, Resolved
<1>11. ASSUME NEW p \in Prompts, Touch(p) PROVE KindInv'
  BY <1>11, Kinds, Nones DEF Touch
<1>12. ASSUME NEW p \in Prompts, AwaitIdle(p) PROVE KindInv'
  BY <1>12, Kinds, Nones DEF AwaitIdle
<1>13. ASSUME NEW p \in Prompts, Submit(p) PROVE KindInv'
  BY <1>13, Kinds, Nones DEF Submit, Return
<1>14. ASSUME NEW p \in Prompts, TurnEnds(p) PROVE KindInv'
  BY <1>14, Kinds, Nones DEF TurnEnds, Subscribed
<1>15. ASSUME NEW p \in Prompts, Answer(p) PROVE KindInv'
  BY <1>15, Kinds, Nones DEF Answer, Return
<1>16. ASSUME NEW r \in Releases, Release(r) PROVE KindInv'
  BY <1>16, Kinds, Nones DEF Release, TakeOut
<1>17. ASSUME NEW r \in Releases, Forget(r) PROVE KindInv'
  BY <1>17, Kinds, Nones DEF Forget
<1>18. ASSUME NEW a \in Actor, SaveLock(a) PROVE KindInv'
  <2>1. pc[a] = "save" /\ (pc' = [pc EXCEPT ![a] = "saving"] \/ pc' = [pc EXCEPT ![a] = AfterSave(a)])
    BY <1>18 DEF SaveLock
  <2>2. a = Reaper => status[ent[a]] # "building"
    BY <2>1, Nones DEF TakenInv, Taken
  <2>3. a \in Loads => status[ent[a]] = "building"
    BY <2>1 DEF BuildInv
  <2> QED
    BY <2>1, <2>2, <2>3, AfterSaveIs, Kinds
<1>19. ASSUME NEW a \in Actor, SaveBind(a) PROVE KindInv'
  <2>1. pc[a] = "saving" /\ pc' = [pc EXCEPT ![a] = AfterSave(a)]
    BY <1>19 DEF SaveBind
  <2>2. a = Reaper => status[ent[a]] # "building"
    BY <2>1, Nones DEF TakenInv, Taken
  <2>3. a \in Loads => status[ent[a]] = "building"
    BY <2>1 DEF BuildInv
  <2> QED
    BY <2>1, <2>2, <2>3, AfterSaveIs, Kinds
<1>20. ASSUME NEW a \in Actor, CloseState(a) PROVE KindInv'
  BY <1>20, Kinds, Nones DEF CloseState
<1>21. ASSUME NEW a \in Actor, Stop(a) PROVE KindInv'
  BY <1>21, Kinds, Nones DEF Stop, AfterTeardown, Unlocked, Return
<1>22. CASE Reap
  BY <1>22, Kinds, Nones DEF Reap, TakeOut
<1>23. CASE ShutDown
  BY <1>23, Kinds, Nones DEF ShutDown, TakeOut
<1>24. CASE ReaperStopped
  BY <1>24, Kinds, Nones DEF ReaperStopped
<1>25. CASE Dies
  BY <1>25, Kinds, Nones DEF Dies
<1>26. ASSUME NEW e \in Entry, GoesIdle(e) PROVE KindInv'
  BY <1>26, Kinds, Nones DEF GoesIdle
<1>27. ASSUME NEW t \in Transcript, Hold(t) PROVE KindInv'
  BY <1>27, Kinds, Nones DEF Hold
<1>28. CASE UNCHANGED vars
  BY <1>28 DEF vars, diskVars, history
<1> QED
    BY <1>1, <1>2, <1>3, <1>4, <1>5, <1>6, <1>7, <1>8, <1>9, <1>10, <1>11, <1>12, <1>13, <1>14,
     <1>15, <1>16, <1>17, <1>18, <1>19, <1>20, <1>21, <1>22, <1>23, <1>24, <1>25, <1>26, <1>27,
     <1>28, NextSteps

\* The steps keep an actor's session, and the session's transcript, there.
LEMMA EntStep ==
  ASSUME TypeOK, KindInv, EntInv, BuildInv, TakenInv, [Next]_vars
  PROVE  EntInv'
<1> USE DEF EntInv, Goto, At, diskVars, entryVars, history
<1>1. ASSUME NEW a \in Opener, Resolve(a) PROVE EntInv'
  BY <1>1, Kinds, Nones, AfterSaveIs DEF Resolve, Resolved, TypeOK, KindInv, TakenInv, Opening,
     Ends
<1>2. ASSUME NEW a \in Opener, RemoveOld(a) PROVE EntInv'
  BY <1>2, Kinds, Nones, AfterSaveIs DEF RemoveOld, TakeOut, TypeOK, KindInv, TakenInv, Opening,
     Ends
<1>3. ASSUME NEW a \in Opener, OpenStore(a) PROVE EntInv'
  BY <1>3, Kinds, Nones, AfterSaveIs DEF OpenStore, Opened, TypeOK, KindInv, TakenInv, Opening,
     Ends
<1>4. ASSUME NEW a \in Opener, OpenNew(a) PROVE EntInv'
  BY <1>4, Kinds, Nones, AfterSaveIs DEF OpenNew, Opened, Unused, TypeOK, KindInv, TakenInv,
     Opening, Ends
<1>5. ASSUME NEW a \in Opener, Insert(a) PROVE EntInv'
  BY <1>5, Kinds, Nones, AfterSaveIs DEF Insert, TypeOK, KindInv, TakenInv, Opening, Ends
<1>6. ASSUME NEW a \in Opener, TouchNew(a) PROVE EntInv'
  BY <1>6, Kinds, Nones, AfterSaveIs DEF TouchNew, Return, TypeOK, KindInv, TakenInv, Opening,
     Ends
<1>7. ASSUME NEW l \in Loads, Load(l) PROVE EntInv'
  BY <1>7, Kinds, Nones, AfterSaveIs DEF Load, TypeOK, KindInv, TakenInv, Opening, Ends
<1>8. ASSUME NEW p \in Prompts, Lookup(p) PROVE EntInv'
  BY <1>8, Kinds, Nones, AfterSaveIs DEF Lookup, TypeOK, KindInv, TakenInv, Opening, Ends
<1>9. ASSUME NEW p \in Prompts, Rehydrate(p) PROVE EntInv'
  BY <1>9, Kinds, Nones, AfterSaveIs DEF Rehydrate, TypeOK, KindInv, TakenInv, Opening, Ends
<1>10. ASSUME NEW p \in Prompts, CanRehydrate(p) PROVE EntInv'
  BY <1>10, Kinds, Nones, AfterSaveIs DEF CanRehydrate, Resolved, TypeOK, KindInv, TakenInv,
     Opening, Ends
<1>11. ASSUME NEW p \in Prompts, Touch(p) PROVE EntInv'
  BY <1>11, Kinds, Nones, AfterSaveIs DEF Touch, TypeOK, KindInv, TakenInv, Opening, Ends
<1>12. ASSUME NEW p \in Prompts, AwaitIdle(p) PROVE EntInv'
  BY <1>12, Kinds, Nones, AfterSaveIs DEF AwaitIdle, TypeOK, KindInv, TakenInv, Opening, Ends
<1>13. ASSUME NEW p \in Prompts, Submit(p) PROVE EntInv'
  BY <1>13, Kinds, Nones, AfterSaveIs DEF Submit, Return, TypeOK, KindInv, TakenInv, Opening,
     Ends
<1>14. ASSUME NEW p \in Prompts, TurnEnds(p) PROVE EntInv'
  BY <1>14, Kinds, Nones, AfterSaveIs DEF TurnEnds, Subscribed, TypeOK, KindInv, TakenInv,
     Opening, Ends
<1>15. ASSUME NEW p \in Prompts, Answer(p) PROVE EntInv'
  BY <1>15, Kinds, Nones, AfterSaveIs DEF Answer, Return, TypeOK, KindInv, TakenInv, Opening,
     Ends
<1>16. ASSUME NEW r \in Releases, Release(r) PROVE EntInv'
  BY <1>16, Kinds, Nones, AfterSaveIs DEF Release, TakeOut, TypeOK, KindInv, TakenInv, Opening,
     Ends
<1>17. ASSUME NEW r \in Releases, Forget(r) PROVE EntInv'
  BY <1>17, Kinds, Nones, AfterSaveIs DEF Forget, TypeOK, KindInv, TakenInv, Opening, Ends
<1>18. ASSUME NEW a \in Actor, SaveLock(a) PROVE EntInv'
  BY <1>18, Kinds, Nones, AfterSaveIs DEF SaveLock, AfterSave, Closed, TypeOK, KindInv,
     TakenInv, Opening, Ends
<1>19. ASSUME NEW a \in Actor, SaveBind(a) PROVE EntInv'
  BY <1>19, Kinds, Nones, AfterSaveIs DEF SaveBind, AfterSave, TypeOK, KindInv, TakenInv,
     Opening, Ends
<1>20. ASSUME NEW a \in Actor, CloseState(a) PROVE EntInv'
  BY <1>20, Kinds, Nones, AfterSaveIs DEF CloseState, TypeOK, KindInv, TakenInv, Opening, Ends
<1>21. ASSUME NEW a \in Actor, Stop(a) PROVE EntInv'
  BY <1>21, Kinds, Nones, AfterSaveIs DEF Stop, AfterTeardown, Unlocked, Return, TypeOK,
     KindInv, TakenInv, Opening, Ends
<1>22. CASE Reap
  BY <1>22, Kinds, Nones, AfterSaveIs DEF Reap, TakeOut, TypeOK, KindInv, TakenInv, Opening,
     Ends
<1>23. CASE ShutDown
  BY <1>23, Kinds, Nones, AfterSaveIs DEF ShutDown, TakeOut, TypeOK, KindInv, TakenInv, Opening,
     Ends
<1>24. CASE ReaperStopped
  BY <1>24, Kinds, Nones, AfterSaveIs DEF ReaperStopped, TypeOK, KindInv, TakenInv, Opening,
     Ends
<1>25. CASE Dies
  BY <1>25, Kinds, Nones, AfterSaveIs DEF Dies, TypeOK, KindInv, TakenInv, Opening, Ends
<1>26. ASSUME NEW e \in Entry, GoesIdle(e) PROVE EntInv'
  BY <1>26, Kinds, Nones, AfterSaveIs DEF GoesIdle, TypeOK, KindInv, TakenInv, Opening, Ends
<1>27. ASSUME NEW t \in Transcript, Hold(t) PROVE EntInv'
  BY <1>27, Kinds, Nones, AfterSaveIs DEF Hold, TypeOK, KindInv, TakenInv, Opening, Ends
<1>28. CASE UNCHANGED vars
  BY <1>28 DEF vars, diskVars, history
<1> QED
    BY <1>1, <1>2, <1>3, <1>4, <1>5, <1>6, <1>7, <1>8, <1>9, <1>10, <1>11, <1>12, <1>13, <1>14,
     <1>15, <1>16, <1>17, <1>18, <1>19, <1>20, <1>21, <1>22, <1>23, <1>24, <1>25, <1>26, <1>27,
     <1>28, NextSteps

\* The steps keep who builds a session alone with it.
LEMMA BuildStep ==
  ASSUME TypeOK, KindInv, EntInv, BuildInv, TakenInv, [Next]_vars
  PROVE  BuildInv'
<1> USE DEF BuildInv, Goto, At, diskVars, entryVars, history
<1>1. ASSUME NEW a \in Opener, Resolve(a) PROVE BuildInv'
  BY <1>1, Kinds, Nones, AfterSaveIs DEF Resolve, Resolved, TypeOK, KindInv, EntInv, Opening,
     Ends, TakenInv, Taken
<1>2. ASSUME NEW a \in Opener, RemoveOld(a) PROVE BuildInv'
  BY <1>2, Kinds, Nones, AfterSaveIs DEF RemoveOld, TakeOut, TypeOK, KindInv, EntInv, Opening,
     Ends, TakenInv, Taken
<1>3. ASSUME NEW a \in Opener, OpenStore(a) PROVE BuildInv'
  BY <1>3, Kinds, Nones, AfterSaveIs DEF OpenStore, Opened, TypeOK, KindInv, EntInv, Opening,
     Ends, TakenInv, Taken
<1>4. ASSUME NEW a \in Opener, OpenNew(a) PROVE BuildInv'
  BY <1>4, Kinds, Nones, AfterSaveIs DEF OpenNew, Opened, Unused, TypeOK, KindInv, EntInv,
     Opening, Ends, TakenInv, Taken
<1>5. ASSUME NEW a \in Opener, Insert(a) PROVE BuildInv'
  BY <1>5, Kinds, Nones, AfterSaveIs DEF Insert, TypeOK, KindInv, EntInv, Opening, Ends,
     TakenInv, Taken
<1>6. ASSUME NEW a \in Opener, TouchNew(a) PROVE BuildInv'
  BY <1>6, Kinds, Nones, AfterSaveIs DEF TouchNew, Return, TypeOK, KindInv, EntInv, Opening,
     Ends, TakenInv, Taken
<1>7. ASSUME NEW l \in Loads, Load(l) PROVE BuildInv'
  BY <1>7, Kinds, Nones, AfterSaveIs DEF Load, TypeOK, KindInv, EntInv, Opening, Ends, TakenInv,
     Taken
<1>8. ASSUME NEW p \in Prompts, Lookup(p) PROVE BuildInv'
  BY <1>8, Kinds, Nones, AfterSaveIs DEF Lookup, TypeOK, KindInv, EntInv, Opening, Ends,
     TakenInv, Taken
<1>9. ASSUME NEW p \in Prompts, Rehydrate(p) PROVE BuildInv'
  BY <1>9, Kinds, Nones, AfterSaveIs DEF Rehydrate, TypeOK, KindInv, EntInv, Opening, Ends,
     TakenInv, Taken
<1>10. ASSUME NEW p \in Prompts, CanRehydrate(p) PROVE BuildInv'
  BY <1>10, Kinds, Nones, AfterSaveIs DEF CanRehydrate, Resolved, TypeOK, KindInv, EntInv,
     Opening, Ends, TakenInv, Taken
<1>11. ASSUME NEW p \in Prompts, Touch(p) PROVE BuildInv'
  BY <1>11, Kinds, Nones, AfterSaveIs DEF Touch, TypeOK, KindInv, EntInv, Opening, Ends,
     TakenInv, Taken
<1>12. ASSUME NEW p \in Prompts, AwaitIdle(p) PROVE BuildInv'
  BY <1>12, Kinds, Nones, AfterSaveIs DEF AwaitIdle, TypeOK, KindInv, EntInv, Opening, Ends,
     TakenInv, Taken
<1>13. ASSUME NEW p \in Prompts, Submit(p) PROVE BuildInv'
  BY <1>13, Kinds, Nones, AfterSaveIs DEF Submit, Return, TypeOK, KindInv, EntInv, Opening,
     Ends, TakenInv, Taken
<1>14. ASSUME NEW p \in Prompts, TurnEnds(p) PROVE BuildInv'
  BY <1>14, Kinds, Nones, AfterSaveIs DEF TurnEnds, Subscribed, TypeOK, KindInv, EntInv,
     Opening, Ends, TakenInv, Taken
<1>15. ASSUME NEW p \in Prompts, Answer(p) PROVE BuildInv'
  BY <1>15, Kinds, Nones, AfterSaveIs DEF Answer, Return, TypeOK, KindInv, EntInv, Opening,
     Ends, TakenInv, Taken
<1>16. ASSUME NEW r \in Releases, Release(r) PROVE BuildInv'
  BY <1>16, Kinds, Nones, AfterSaveIs DEF Release, TakeOut, TypeOK, KindInv, EntInv, Opening,
     Ends, TakenInv, Taken
<1>17. ASSUME NEW r \in Releases, Forget(r) PROVE BuildInv'
  BY <1>17, Kinds, Nones, AfterSaveIs DEF Forget, TypeOK, KindInv, EntInv, Opening, Ends,
     TakenInv, Taken
<1>18. ASSUME NEW a \in Actor, SaveLock(a) PROVE BuildInv'
  BY <1>18, Kinds, Nones, AfterSaveIs DEF SaveLock, AfterSave, Closed, TypeOK, KindInv, EntInv,
     Opening, Ends, TakenInv, Taken
<1>19. ASSUME NEW a \in Actor, SaveBind(a) PROVE BuildInv'
  BY <1>19, Kinds, Nones, AfterSaveIs DEF SaveBind, AfterSave, TypeOK, KindInv, EntInv, Opening,
     Ends, TakenInv, Taken
<1>20. ASSUME NEW a \in Actor, CloseState(a) PROVE BuildInv'
  BY <1>20, Kinds, Nones, AfterSaveIs DEF CloseState, TypeOK, KindInv, EntInv, Opening, Ends,
     TakenInv, Taken
<1>21. ASSUME NEW a \in Actor, Stop(a) PROVE BuildInv'
  BY <1>21, Kinds, Nones, AfterSaveIs DEF Stop, AfterTeardown, Unlocked, Return, TypeOK,
     KindInv, EntInv, Opening, Ends, TakenInv, Taken
<1>22. CASE Reap
  BY <1>22, Kinds, Nones, AfterSaveIs DEF Reap, TakeOut, TypeOK, KindInv, EntInv, Opening, Ends,
     TakenInv, Taken
<1>23. CASE ShutDown
  BY <1>23, Kinds, Nones, AfterSaveIs DEF ShutDown, TakeOut, TypeOK, KindInv, EntInv, Opening,
     Ends, TakenInv, Taken
<1>24. CASE ReaperStopped
  BY <1>24, Kinds, Nones, AfterSaveIs DEF ReaperStopped, TypeOK, KindInv, EntInv, Opening, Ends,
     TakenInv, Taken
<1>25. CASE Dies
  BY <1>25, Kinds, Nones, AfterSaveIs DEF Dies, TypeOK, KindInv, EntInv, Opening, Ends,
     TakenInv, Taken
<1>26. ASSUME NEW e \in Entry, GoesIdle(e) PROVE BuildInv'
  BY <1>26, Kinds, Nones, AfterSaveIs DEF GoesIdle, TypeOK, KindInv, EntInv, Opening, Ends,
     TakenInv, Taken
<1>27. ASSUME NEW t \in Transcript, Hold(t) PROVE BuildInv'
  BY <1>27, Kinds, Nones, AfterSaveIs DEF Hold, TypeOK, KindInv, EntInv, Opening, Ends,
     TakenInv, Taken
<1>28. CASE UNCHANGED vars
  BY <1>28 DEF vars, diskVars, history
<1> QED
    BY <1>1, <1>2, <1>3, <1>4, <1>5, <1>6, <1>7, <1>8, <1>9, <1>10, <1>11, <1>12, <1>13, <1>14,
     <1>15, <1>16, <1>17, <1>18, <1>19, <1>20, <1>21, <1>22, <1>23, <1>24, <1>25, <1>26, <1>27,
     <1>28, NextSteps

\* The steps leave what was taken out to one actor.
LEMMA TakenStep ==
  ASSUME TypeOK, KindInv, EntInv, BuildInv, TakenInv, SaverInv, [Next]_vars
  PROVE  TakenInv'
<1> USE DEF TakenInv, Taken, Goto, At, diskVars, entryVars, history
<1>1. ASSUME NEW a \in Opener, Resolve(a) PROVE TakenInv'
  BY <1>1, Kinds, Nones, AfterSaveIs DEF Resolve, Resolved, TypeOK, KindInv, EntInv, BuildInv,
     SaverInv, Opening, Ends
<1>2. ASSUME NEW a \in Opener, RemoveOld(a) PROVE TakenInv'
  BY <1>2, Kinds, Nones, AfterSaveIs DEF RemoveOld, TakeOut, TypeOK, KindInv, EntInv, BuildInv,
     SaverInv, Opening, Ends
<1>3. ASSUME NEW a \in Opener, OpenStore(a) PROVE TakenInv'
  BY <1>3, Kinds, Nones, AfterSaveIs DEF OpenStore, Opened, TypeOK, KindInv, EntInv, BuildInv,
     SaverInv, Opening, Ends
<1>4. ASSUME NEW a \in Opener, OpenNew(a) PROVE TakenInv'
  BY <1>4, Kinds, Nones, AfterSaveIs DEF OpenNew, Opened, Unused, TypeOK, KindInv, EntInv,
     BuildInv, SaverInv, Opening, Ends
<1>5. ASSUME NEW a \in Opener, Insert(a) PROVE TakenInv'
  BY <1>5, Kinds, Nones, AfterSaveIs DEF Insert, TypeOK, KindInv, EntInv, BuildInv, SaverInv,
     Opening, Ends
<1>6. ASSUME NEW a \in Opener, TouchNew(a) PROVE TakenInv'
  BY <1>6, Kinds, Nones, AfterSaveIs DEF TouchNew, Return, TypeOK, KindInv, EntInv, BuildInv,
     SaverInv, Opening, Ends
<1>7. ASSUME NEW l \in Loads, Load(l) PROVE TakenInv'
  BY <1>7, Kinds, Nones, AfterSaveIs DEF Load, TypeOK, KindInv, EntInv, BuildInv, SaverInv,
     Opening, Ends
<1>8. ASSUME NEW p \in Prompts, Lookup(p) PROVE TakenInv'
  BY <1>8, Kinds, Nones, AfterSaveIs DEF Lookup, TypeOK, KindInv, EntInv, BuildInv, SaverInv,
     Opening, Ends
<1>9. ASSUME NEW p \in Prompts, Rehydrate(p) PROVE TakenInv'
  BY <1>9, Kinds, Nones, AfterSaveIs DEF Rehydrate, TypeOK, KindInv, EntInv, BuildInv, SaverInv,
     Opening, Ends
<1>10. ASSUME NEW p \in Prompts, CanRehydrate(p) PROVE TakenInv'
  BY <1>10, Kinds, Nones, AfterSaveIs DEF CanRehydrate, Resolved, TypeOK, KindInv, EntInv,
     BuildInv, SaverInv, Opening, Ends
<1>11. ASSUME NEW p \in Prompts, Touch(p) PROVE TakenInv'
  BY <1>11, Kinds, Nones, AfterSaveIs DEF Touch, TypeOK, KindInv, EntInv, BuildInv, SaverInv,
     Opening, Ends
<1>12. ASSUME NEW p \in Prompts, AwaitIdle(p) PROVE TakenInv'
  BY <1>12, Kinds, Nones, AfterSaveIs DEF AwaitIdle, TypeOK, KindInv, EntInv, BuildInv,
     SaverInv, Opening, Ends
<1>13. ASSUME NEW p \in Prompts, Submit(p) PROVE TakenInv'
  BY <1>13, Kinds, Nones, AfterSaveIs DEF Submit, Return, TypeOK, KindInv, EntInv, BuildInv,
     SaverInv, Opening, Ends
<1>14. ASSUME NEW p \in Prompts, TurnEnds(p) PROVE TakenInv'
  BY <1>14, Kinds, Nones, AfterSaveIs DEF TurnEnds, Subscribed, TypeOK, KindInv, EntInv,
     BuildInv, SaverInv, Opening, Ends
<1>15. ASSUME NEW p \in Prompts, Answer(p) PROVE TakenInv'
  BY <1>15, Kinds, Nones, AfterSaveIs DEF Answer, Return, TypeOK, KindInv, EntInv, BuildInv,
     SaverInv, Opening, Ends
<1>16. ASSUME NEW r \in Releases, Release(r) PROVE TakenInv'
  BY <1>16, Kinds, Nones, AfterSaveIs DEF Release, TakeOut, TypeOK, KindInv, EntInv, BuildInv,
     SaverInv, Opening, Ends
<1>17. ASSUME NEW r \in Releases, Forget(r) PROVE TakenInv'
  BY <1>17, Kinds, Nones, AfterSaveIs DEF Forget, TypeOK, KindInv, EntInv, BuildInv, SaverInv,
     Opening, Ends
<1>18. ASSUME NEW a \in Actor, SaveLock(a) PROVE TakenInv'
  BY <1>18, Kinds, Nones, AfterSaveIs DEF SaveLock, AfterSave, Closed, TypeOK, KindInv, EntInv,
     BuildInv, SaverInv, Opening, Ends
<1>19. ASSUME NEW a \in Actor, SaveBind(a) PROVE TakenInv'
  BY <1>19, Kinds, Nones, AfterSaveIs DEF SaveBind, AfterSave, TypeOK, KindInv, EntInv,
     BuildInv, SaverInv, Opening, Ends
<1>20. ASSUME NEW a \in Actor, CloseState(a) PROVE TakenInv'
  BY <1>20, Kinds, Nones, AfterSaveIs DEF CloseState, TypeOK, KindInv, EntInv, BuildInv,
     SaverInv, Opening, Ends
<1>21. ASSUME NEW a \in Actor, Stop(a) PROVE TakenInv'
  BY <1>21, Kinds, Nones, AfterSaveIs DEF Stop, AfterTeardown, Unlocked, Return, TypeOK,
     KindInv, EntInv, BuildInv, SaverInv, Opening, Ends
<1>22. CASE Reap
  BY <1>22, Kinds, Nones, AfterSaveIs DEF Reap, TakeOut, TypeOK, KindInv, EntInv, BuildInv,
     SaverInv, Opening, Ends
<1>23. CASE ShutDown
  BY <1>23, Kinds, Nones, AfterSaveIs DEF ShutDown, TakeOut, TypeOK, KindInv, EntInv, BuildInv,
     SaverInv, Opening, Ends
<1>24. CASE ReaperStopped
  BY <1>24, Kinds, Nones, AfterSaveIs DEF ReaperStopped, TypeOK, KindInv, EntInv, BuildInv,
     SaverInv, Opening, Ends
<1>25. CASE Dies
  BY <1>25, Kinds, Nones, AfterSaveIs DEF Dies, TypeOK, KindInv, EntInv, BuildInv, SaverInv,
     Opening, Ends
<1>26. ASSUME NEW e \in Entry, GoesIdle(e) PROVE TakenInv'
  BY <1>26, Kinds, Nones, AfterSaveIs DEF GoesIdle, TypeOK, KindInv, EntInv, BuildInv, SaverInv,
     Opening, Ends
<1>27. ASSUME NEW t \in Transcript, Hold(t) PROVE TakenInv'
  BY <1>27, Kinds, Nones, AfterSaveIs DEF Hold, TypeOK, KindInv, EntInv, BuildInv, SaverInv,
     Opening, Ends
<1>28. CASE UNCHANGED vars
  BY <1>28 DEF vars, diskVars, history
<1> QED
    BY <1>1, <1>2, <1>3, <1>4, <1>5, <1>6, <1>7, <1>8, <1>9, <1>10, <1>11, <1>12, <1>13, <1>14,
     <1>15, <1>16, <1>17, <1>18, <1>19, <1>20, <1>21, <1>22, <1>23, <1>24, <1>25, <1>26, <1>27,
     <1>28, NextSteps

\* The steps let no session close under a save.
LEMMA SaverStep ==
  ASSUME TypeOK, KindInv, EntInv, BuildInv, TakenInv, SaverInv, [Next]_vars
  PROVE  SaverInv'
<1> USE DEF SaverInv, Goto, At, diskVars, entryVars, history
<1>1. ASSUME NEW a \in Opener, Resolve(a) PROVE SaverInv'
  BY <1>1, Kinds, Nones, AfterSaveIs DEF Resolve, Resolved, TypeOK, KindInv, EntInv, BuildInv,
     TakenInv, Taken, Opening, Ends
<1>2. ASSUME NEW a \in Opener, RemoveOld(a) PROVE SaverInv'
  BY <1>2, Kinds, Nones, AfterSaveIs DEF RemoveOld, TakeOut, TypeOK, KindInv, EntInv, BuildInv,
     TakenInv, Taken, Opening, Ends
<1>3. ASSUME NEW a \in Opener, OpenStore(a) PROVE SaverInv'
  BY <1>3, Kinds, Nones, AfterSaveIs DEF OpenStore, Opened, TypeOK, KindInv, EntInv, BuildInv,
     TakenInv, Taken, Opening, Ends
<1>4. ASSUME NEW a \in Opener, OpenNew(a) PROVE SaverInv'
  BY <1>4, Kinds, Nones, AfterSaveIs DEF OpenNew, Opened, Unused, TypeOK, KindInv, EntInv,
     BuildInv, TakenInv, Taken, Opening, Ends
<1>5. ASSUME NEW a \in Opener, Insert(a) PROVE SaverInv'
  BY <1>5, Kinds, Nones, AfterSaveIs DEF Insert, TypeOK, KindInv, EntInv, BuildInv, TakenInv,
     Taken, Opening, Ends
<1>6. ASSUME NEW a \in Opener, TouchNew(a) PROVE SaverInv'
  BY <1>6, Kinds, Nones, AfterSaveIs DEF TouchNew, Return, TypeOK, KindInv, EntInv, BuildInv,
     TakenInv, Taken, Opening, Ends
<1>7. ASSUME NEW l \in Loads, Load(l) PROVE SaverInv'
  BY <1>7, Kinds, Nones, AfterSaveIs DEF Load, TypeOK, KindInv, EntInv, BuildInv, TakenInv,
     Taken, Opening, Ends
<1>8. ASSUME NEW p \in Prompts, Lookup(p) PROVE SaverInv'
  BY <1>8, Kinds, Nones, AfterSaveIs DEF Lookup, TypeOK, KindInv, EntInv, BuildInv, TakenInv,
     Taken, Opening, Ends
<1>9. ASSUME NEW p \in Prompts, Rehydrate(p) PROVE SaverInv'
  BY <1>9, Kinds, Nones, AfterSaveIs DEF Rehydrate, TypeOK, KindInv, EntInv, BuildInv, TakenInv,
     Taken, Opening, Ends
<1>10. ASSUME NEW p \in Prompts, CanRehydrate(p) PROVE SaverInv'
  BY <1>10, Kinds, Nones, AfterSaveIs DEF CanRehydrate, Resolved, TypeOK, KindInv, EntInv,
     BuildInv, TakenInv, Taken, Opening, Ends
<1>11. ASSUME NEW p \in Prompts, Touch(p) PROVE SaverInv'
  BY <1>11, Kinds, Nones, AfterSaveIs DEF Touch, TypeOK, KindInv, EntInv, BuildInv, TakenInv,
     Taken, Opening, Ends
<1>12. ASSUME NEW p \in Prompts, AwaitIdle(p) PROVE SaverInv'
  BY <1>12, Kinds, Nones, AfterSaveIs DEF AwaitIdle, TypeOK, KindInv, EntInv, BuildInv,
     TakenInv, Taken, Opening, Ends
<1>13. ASSUME NEW p \in Prompts, Submit(p) PROVE SaverInv'
  BY <1>13, Kinds, Nones, AfterSaveIs DEF Submit, Return, TypeOK, KindInv, EntInv, BuildInv,
     TakenInv, Taken, Opening, Ends
<1>14. ASSUME NEW p \in Prompts, TurnEnds(p) PROVE SaverInv'
  BY <1>14, Kinds, Nones, AfterSaveIs DEF TurnEnds, Subscribed, TypeOK, KindInv, EntInv,
     BuildInv, TakenInv, Taken, Opening, Ends
<1>15. ASSUME NEW p \in Prompts, Answer(p) PROVE SaverInv'
  BY <1>15, Kinds, Nones, AfterSaveIs DEF Answer, Return, TypeOK, KindInv, EntInv, BuildInv,
     TakenInv, Taken, Opening, Ends
<1>16. ASSUME NEW r \in Releases, Release(r) PROVE SaverInv'
  BY <1>16, Kinds, Nones, AfterSaveIs DEF Release, TakeOut, TypeOK, KindInv, EntInv, BuildInv,
     TakenInv, Taken, Opening, Ends
<1>17. ASSUME NEW r \in Releases, Forget(r) PROVE SaverInv'
  BY <1>17, Kinds, Nones, AfterSaveIs DEF Forget, TypeOK, KindInv, EntInv, BuildInv, TakenInv,
     Taken, Opening, Ends
<1>18. ASSUME NEW a \in Actor, SaveLock(a) PROVE SaverInv'
  BY <1>18, Kinds, Nones, AfterSaveIs DEF SaveLock, AfterSave, Closed, TypeOK, KindInv, EntInv,
     BuildInv, TakenInv, Taken, Opening, Ends
<1>19. ASSUME NEW a \in Actor, SaveBind(a) PROVE SaverInv'
  BY <1>19, Kinds, Nones, AfterSaveIs DEF SaveBind, AfterSave, TypeOK, KindInv, EntInv,
     BuildInv, TakenInv, Taken, Opening, Ends
<1>20. ASSUME NEW a \in Actor, CloseState(a) PROVE SaverInv'
  BY <1>20, Kinds, Nones, AfterSaveIs DEF CloseState, TypeOK, KindInv, EntInv, BuildInv,
     TakenInv, Taken, Opening, Ends
<1>21. ASSUME NEW a \in Actor, Stop(a) PROVE SaverInv'
  BY <1>21, Kinds, Nones, AfterSaveIs DEF Stop, AfterTeardown, Unlocked, Return, TypeOK,
     KindInv, EntInv, BuildInv, TakenInv, Taken, Opening, Ends
<1>22. CASE Reap
  BY <1>22, Kinds, Nones, AfterSaveIs DEF Reap, TakeOut, TypeOK, KindInv, EntInv, BuildInv,
     TakenInv, Taken, Opening, Ends
<1>23. CASE ShutDown
  BY <1>23, Kinds, Nones, AfterSaveIs DEF ShutDown, TakeOut, TypeOK, KindInv, EntInv, BuildInv,
     TakenInv, Taken, Opening, Ends
<1>24. CASE ReaperStopped
  BY <1>24, Kinds, Nones, AfterSaveIs DEF ReaperStopped, TypeOK, KindInv, EntInv, BuildInv,
     TakenInv, Taken, Opening, Ends
<1>25. CASE Dies
  BY <1>25, Kinds, Nones, AfterSaveIs DEF Dies, TypeOK, KindInv, EntInv, BuildInv, TakenInv,
     Taken, Opening, Ends
<1>26. ASSUME NEW e \in Entry, GoesIdle(e) PROVE SaverInv'
  BY <1>26, Kinds, Nones, AfterSaveIs DEF GoesIdle, TypeOK, KindInv, EntInv, BuildInv, TakenInv,
     Taken, Opening, Ends
<1>27. ASSUME NEW t \in Transcript, Hold(t) PROVE SaverInv'
  BY <1>27, Kinds, Nones, AfterSaveIs DEF Hold, TypeOK, KindInv, EntInv, BuildInv, TakenInv,
     Taken, Opening, Ends
<1>28. CASE UNCHANGED vars
  BY <1>28 DEF vars, diskVars, history
<1> QED
    BY <1>1, <1>2, <1>3, <1>4, <1>5, <1>6, <1>7, <1>8, <1>9, <1>10, <1>11, <1>12, <1>13, <1>14,
     <1>15, <1>16, <1>17, <1>18, <1>19, <1>20, <1>21, <1>22, <1>23, <1>24, <1>25, <1>26, <1>27,
     <1>28, NextSteps

\* The steps leave a turn to its prompt.
LEMMA TurnStep ==
  ASSUME TypeOK, KindInv, EntInv, BuildInv, TakenInv, TurnInv, [Next]_vars
  PROVE  TurnInv'
<1> USE DEF TurnInv, Turn, Goto, At, diskVars, entryVars, history
<1>1. ASSUME NEW a \in Opener, Resolve(a) PROVE TurnInv'
  BY <1>1, Kinds, Nones, AfterSaveIs DEF Resolve, Resolved, TypeOK, KindInv, EntInv, BuildInv,
     TakenInv, Taken, Opening, Ends
<1>2. ASSUME NEW a \in Opener, RemoveOld(a) PROVE TurnInv'
  BY <1>2, Kinds, Nones, AfterSaveIs DEF RemoveOld, TakeOut, TypeOK, KindInv, EntInv, BuildInv,
     TakenInv, Taken, Opening, Ends
<1>3. ASSUME NEW a \in Opener, OpenStore(a) PROVE TurnInv'
  BY <1>3, Kinds, Nones, AfterSaveIs DEF OpenStore, Opened, TypeOK, KindInv, EntInv, BuildInv,
     TakenInv, Taken, Opening, Ends
<1>4. ASSUME NEW a \in Opener, OpenNew(a) PROVE TurnInv'
  BY <1>4, Kinds, Nones, AfterSaveIs DEF OpenNew, Opened, Unused, TypeOK, KindInv, EntInv,
     BuildInv, TakenInv, Taken, Opening, Ends
<1>5. ASSUME NEW a \in Opener, Insert(a) PROVE TurnInv'
  BY <1>5, Kinds, Nones, AfterSaveIs DEF Insert, TypeOK, KindInv, EntInv, BuildInv, TakenInv,
     Taken, Opening, Ends
<1>6. ASSUME NEW a \in Opener, TouchNew(a) PROVE TurnInv'
  BY <1>6, Kinds, Nones, AfterSaveIs DEF TouchNew, Return, TypeOK, KindInv, EntInv, BuildInv,
     TakenInv, Taken, Opening, Ends
<1>7. ASSUME NEW l \in Loads, Load(l) PROVE TurnInv'
  BY <1>7, Kinds, Nones, AfterSaveIs DEF Load, TypeOK, KindInv, EntInv, BuildInv, TakenInv,
     Taken, Opening, Ends
<1>8. ASSUME NEW p \in Prompts, Lookup(p) PROVE TurnInv'
  BY <1>8, Kinds, Nones, AfterSaveIs DEF Lookup, TypeOK, KindInv, EntInv, BuildInv, TakenInv,
     Taken, Opening, Ends
<1>9. ASSUME NEW p \in Prompts, Rehydrate(p) PROVE TurnInv'
  BY <1>9, Kinds, Nones, AfterSaveIs DEF Rehydrate, TypeOK, KindInv, EntInv, BuildInv, TakenInv,
     Taken, Opening, Ends
<1>10. ASSUME NEW p \in Prompts, CanRehydrate(p) PROVE TurnInv'
  BY <1>10, Kinds, Nones, AfterSaveIs DEF CanRehydrate, Resolved, TypeOK, KindInv, EntInv,
     BuildInv, TakenInv, Taken, Opening, Ends
<1>11. ASSUME NEW p \in Prompts, Touch(p) PROVE TurnInv'
  BY <1>11, Kinds, Nones, AfterSaveIs DEF Touch, TypeOK, KindInv, EntInv, BuildInv, TakenInv,
     Taken, Opening, Ends
<1>12. ASSUME NEW p \in Prompts, AwaitIdle(p) PROVE TurnInv'
  BY <1>12, Kinds, Nones, AfterSaveIs DEF AwaitIdle, TypeOK, KindInv, EntInv, BuildInv,
     TakenInv, Taken, Opening, Ends
<1>13. ASSUME NEW p \in Prompts, Submit(p) PROVE TurnInv'
  BY <1>13, Kinds, Nones, AfterSaveIs DEF Submit, Return, TypeOK, KindInv, EntInv, BuildInv,
     TakenInv, Taken, Opening, Ends
<1>14. ASSUME NEW p \in Prompts, TurnEnds(p) PROVE TurnInv'
  BY <1>14, Kinds, Nones, AfterSaveIs DEF TurnEnds, Subscribed, TypeOK, KindInv, EntInv,
     BuildInv, TakenInv, Taken, Opening, Ends
<1>15. ASSUME NEW p \in Prompts, Answer(p) PROVE TurnInv'
  BY <1>15, Kinds, Nones, AfterSaveIs DEF Answer, Return, TypeOK, KindInv, EntInv, BuildInv,
     TakenInv, Taken, Opening, Ends
<1>16. ASSUME NEW r \in Releases, Release(r) PROVE TurnInv'
  BY <1>16, Kinds, Nones, AfterSaveIs DEF Release, TakeOut, TypeOK, KindInv, EntInv, BuildInv,
     TakenInv, Taken, Opening, Ends
<1>17. ASSUME NEW r \in Releases, Forget(r) PROVE TurnInv'
  BY <1>17, Kinds, Nones, AfterSaveIs DEF Forget, TypeOK, KindInv, EntInv, BuildInv, TakenInv,
     Taken, Opening, Ends
<1>18. ASSUME NEW a \in Actor, SaveLock(a) PROVE TurnInv'
  BY <1>18, Kinds, Nones, AfterSaveIs DEF SaveLock, AfterSave, Closed, TypeOK, KindInv, EntInv,
     BuildInv, TakenInv, Taken, Opening, Ends
<1>19. ASSUME NEW a \in Actor, SaveBind(a) PROVE TurnInv'
  BY <1>19, Kinds, Nones, AfterSaveIs DEF SaveBind, AfterSave, TypeOK, KindInv, EntInv,
     BuildInv, TakenInv, Taken, Opening, Ends
<1>20. ASSUME NEW a \in Actor, CloseState(a) PROVE TurnInv'
  BY <1>20, Kinds, Nones, AfterSaveIs DEF CloseState, TypeOK, KindInv, EntInv, BuildInv,
     TakenInv, Taken, Opening, Ends
<1>21. ASSUME NEW a \in Actor, Stop(a) PROVE TurnInv'
  BY <1>21, Kinds, Nones, AfterSaveIs DEF Stop, AfterTeardown, Unlocked, Return, TypeOK,
     KindInv, EntInv, BuildInv, TakenInv, Taken, Opening, Ends
<1>22. CASE Reap
  BY <1>22, Kinds, Nones, AfterSaveIs DEF Reap, TakeOut, TypeOK, KindInv, EntInv, BuildInv,
     TakenInv, Taken, Opening, Ends
<1>23. CASE ShutDown
  BY <1>23, Kinds, Nones, AfterSaveIs DEF ShutDown, TakeOut, TypeOK, KindInv, EntInv, BuildInv,
     TakenInv, Taken, Opening, Ends
<1>24. CASE ReaperStopped
  BY <1>24, Kinds, Nones, AfterSaveIs DEF ReaperStopped, TypeOK, KindInv, EntInv, BuildInv,
     TakenInv, Taken, Opening, Ends
<1>25. CASE Dies
  BY <1>25, Kinds, Nones, AfterSaveIs DEF Dies, TypeOK, KindInv, EntInv, BuildInv, TakenInv,
     Taken, Opening, Ends
<1>26. ASSUME NEW e \in Entry, GoesIdle(e) PROVE TurnInv'
  BY <1>26, Kinds, Nones, AfterSaveIs DEF GoesIdle, TypeOK, KindInv, EntInv, BuildInv, TakenInv,
     Taken, Opening, Ends
<1>27. ASSUME NEW t \in Transcript, Hold(t) PROVE TurnInv'
  BY <1>27, Kinds, Nones, AfterSaveIs DEF Hold, TypeOK, KindInv, EntInv, BuildInv, TakenInv,
     Taken, Opening, Ends
<1>28. CASE UNCHANGED vars
  BY <1>28 DEF vars, diskVars, history
<1> QED
    BY <1>1, <1>2, <1>3, <1>4, <1>5, <1>6, <1>7, <1>8, <1>9, <1>10, <1>11, <1>12, <1>13, <1>14,
     <1>15, <1>16, <1>17, <1>18, <1>19, <1>20, <1>21, <1>22, <1>23, <1>24, <1>25, <1>26, <1>27,
     <1>28, NextSteps

\* The steps let one prompt at a time rehydrate the session.
LEMMA LockStep ==
  ASSUME TypeOK, KindInv, EntInv, BuildInv, TakenInv, LockInv, [Next]_vars
  PROVE  LockInv'
<1> USE DEF LockInv, Wakes, Goto, At, diskVars, entryVars, history
<1>1. ASSUME NEW a \in Opener, Resolve(a) PROVE LockInv'
  BY <1>1, Kinds, Nones, AfterSaveIs DEF Resolve, Resolved, TypeOK, KindInv, EntInv, BuildInv,
     TakenInv, Taken, Opening, Ends
<1>2. ASSUME NEW a \in Opener, RemoveOld(a) PROVE LockInv'
  BY <1>2, Kinds, Nones, AfterSaveIs DEF RemoveOld, TakeOut, TypeOK, KindInv, EntInv, BuildInv,
     TakenInv, Taken, Opening, Ends
<1>3. ASSUME NEW a \in Opener, OpenStore(a) PROVE LockInv'
  BY <1>3, Kinds, Nones, AfterSaveIs DEF OpenStore, Opened, TypeOK, KindInv, EntInv, BuildInv,
     TakenInv, Taken, Opening, Ends
<1>4. ASSUME NEW a \in Opener, OpenNew(a) PROVE LockInv'
  BY <1>4, Kinds, Nones, AfterSaveIs DEF OpenNew, Opened, Unused, TypeOK, KindInv, EntInv,
     BuildInv, TakenInv, Taken, Opening, Ends
<1>5. ASSUME NEW a \in Opener, Insert(a) PROVE LockInv'
  BY <1>5, Kinds, Nones, AfterSaveIs DEF Insert, TypeOK, KindInv, EntInv, BuildInv, TakenInv,
     Taken, Opening, Ends
<1>6. ASSUME NEW a \in Opener, TouchNew(a) PROVE LockInv'
  BY <1>6, Kinds, Nones, AfterSaveIs DEF TouchNew, Return, TypeOK, KindInv, EntInv, BuildInv,
     TakenInv, Taken, Opening, Ends
<1>7. ASSUME NEW l \in Loads, Load(l) PROVE LockInv'
  BY <1>7, Kinds, Nones, AfterSaveIs DEF Load, TypeOK, KindInv, EntInv, BuildInv, TakenInv,
     Taken, Opening, Ends
<1>8. ASSUME NEW p \in Prompts, Lookup(p) PROVE LockInv'
  BY <1>8, Kinds, Nones, AfterSaveIs DEF Lookup, TypeOK, KindInv, EntInv, BuildInv, TakenInv,
     Taken, Opening, Ends
<1>9. ASSUME NEW p \in Prompts, Rehydrate(p) PROVE LockInv'
  BY <1>9, Kinds, Nones, AfterSaveIs DEF Rehydrate, TypeOK, KindInv, EntInv, BuildInv, TakenInv,
     Taken, Opening, Ends
<1>10. ASSUME NEW p \in Prompts, CanRehydrate(p) PROVE LockInv'
  BY <1>10, Kinds, Nones, AfterSaveIs DEF CanRehydrate, Resolved, TypeOK, KindInv, EntInv,
     BuildInv, TakenInv, Taken, Opening, Ends
<1>11. ASSUME NEW p \in Prompts, Touch(p) PROVE LockInv'
  BY <1>11, Kinds, Nones, AfterSaveIs DEF Touch, TypeOK, KindInv, EntInv, BuildInv, TakenInv,
     Taken, Opening, Ends
<1>12. ASSUME NEW p \in Prompts, AwaitIdle(p) PROVE LockInv'
  BY <1>12, Kinds, Nones, AfterSaveIs DEF AwaitIdle, TypeOK, KindInv, EntInv, BuildInv,
     TakenInv, Taken, Opening, Ends
<1>13. ASSUME NEW p \in Prompts, Submit(p) PROVE LockInv'
  BY <1>13, Kinds, Nones, AfterSaveIs DEF Submit, Return, TypeOK, KindInv, EntInv, BuildInv,
     TakenInv, Taken, Opening, Ends
<1>14. ASSUME NEW p \in Prompts, TurnEnds(p) PROVE LockInv'
  BY <1>14, Kinds, Nones, AfterSaveIs DEF TurnEnds, Subscribed, TypeOK, KindInv, EntInv,
     BuildInv, TakenInv, Taken, Opening, Ends
<1>15. ASSUME NEW p \in Prompts, Answer(p) PROVE LockInv'
  BY <1>15, Kinds, Nones, AfterSaveIs DEF Answer, Return, TypeOK, KindInv, EntInv, BuildInv,
     TakenInv, Taken, Opening, Ends
<1>16. ASSUME NEW r \in Releases, Release(r) PROVE LockInv'
  BY <1>16, Kinds, Nones, AfterSaveIs DEF Release, TakeOut, TypeOK, KindInv, EntInv, BuildInv,
     TakenInv, Taken, Opening, Ends
<1>17. ASSUME NEW r \in Releases, Forget(r) PROVE LockInv'
  BY <1>17, Kinds, Nones, AfterSaveIs DEF Forget, TypeOK, KindInv, EntInv, BuildInv, TakenInv,
     Taken, Opening, Ends
<1>18. ASSUME NEW a \in Actor, SaveLock(a) PROVE LockInv'
  BY <1>18, Kinds, Nones, AfterSaveIs DEF SaveLock, AfterSave, Closed, TypeOK, KindInv, EntInv,
     BuildInv, TakenInv, Taken, Opening, Ends
<1>19. ASSUME NEW a \in Actor, SaveBind(a) PROVE LockInv'
  BY <1>19, Kinds, Nones, AfterSaveIs DEF SaveBind, AfterSave, TypeOK, KindInv, EntInv,
     BuildInv, TakenInv, Taken, Opening, Ends
<1>20. ASSUME NEW a \in Actor, CloseState(a) PROVE LockInv'
  BY <1>20, Kinds, Nones, AfterSaveIs DEF CloseState, TypeOK, KindInv, EntInv, BuildInv,
     TakenInv, Taken, Opening, Ends
<1>21. ASSUME NEW a \in Actor, Stop(a) PROVE LockInv'
  BY <1>21, Kinds, Nones, AfterSaveIs DEF Stop, AfterTeardown, Unlocked, Return, TypeOK,
     KindInv, EntInv, BuildInv, TakenInv, Taken, Opening, Ends
<1>22. CASE Reap
  BY <1>22, Kinds, Nones, AfterSaveIs DEF Reap, TakeOut, TypeOK, KindInv, EntInv, BuildInv,
     TakenInv, Taken, Opening, Ends
<1>23. CASE ShutDown
  BY <1>23, Kinds, Nones, AfterSaveIs DEF ShutDown, TakeOut, TypeOK, KindInv, EntInv, BuildInv,
     TakenInv, Taken, Opening, Ends
<1>24. CASE ReaperStopped
  BY <1>24, Kinds, Nones, AfterSaveIs DEF ReaperStopped, TypeOK, KindInv, EntInv, BuildInv,
     TakenInv, Taken, Opening, Ends
<1>25. CASE Dies
  BY <1>25, Kinds, Nones, AfterSaveIs DEF Dies, TypeOK, KindInv, EntInv, BuildInv, TakenInv,
     Taken, Opening, Ends
<1>26. ASSUME NEW e \in Entry, GoesIdle(e) PROVE LockInv'
  BY <1>26, Kinds, Nones, AfterSaveIs DEF GoesIdle, TypeOK, KindInv, EntInv, BuildInv, TakenInv,
     Taken, Opening, Ends
<1>27. ASSUME NEW t \in Transcript, Hold(t) PROVE LockInv'
  BY <1>27, Kinds, Nones, AfterSaveIs DEF Hold, TypeOK, KindInv, EntInv, BuildInv, TakenInv,
     Taken, Opening, Ends
<1>28. CASE UNCHANGED vars
  BY <1>28 DEF vars, diskVars, history
<1> QED
    BY <1>1, <1>2, <1>3, <1>4, <1>5, <1>6, <1>7, <1>8, <1>9, <1>10, <1>11, <1>12, <1>13, <1>14,
     <1>15, <1>16, <1>17, <1>18, <1>19, <1>20, <1>21, <1>22, <1>23, <1>24, <1>25, <1>26, <1>27,
     <1>28, NextSteps

-----------------------------------------------------------------------------
(* The steps while nobody has raced. *)

\* Of who opens the session and who tears it down there is one at a time.
LEMMA OneAtATime ==
  ASSUME TypeOK, KindInv, LockInv, EmptyInv, ~ Racing, NEW a \in Opener, Busy(a), IsOpening(a)
  PROVE  /\ \A l \in Loads : l # a => ~ Busy(l)
         /\ a \in Loads => \A b \in Request : b # a => ~ Busy(b)
         /\ \A r \in Releases : ~ Busy(r)
         /\ pc[Reaper] = "idle" /\ pc[Closer] = "idle"
         /\ \A b \in Actor : Taken(b) => b = a /\ a \in Loads
<1>1. a \in Request /\ a \notin Releases
  BY Kinds
<1>2. a \in Loads => \A b \in Request : b # a => ~ Busy(b)
  BY <1>1 DEF Racing
<1>3. \A l \in Loads : l # a => ~ Busy(l)
  BY <1>1, Kinds DEF Racing
<1>4. \A r \in Releases : ~ Busy(r)
  BY <1>1, Kinds DEF Racing
<1>5. pc[Reaper] = "idle"
  BY <1>1 DEF Racing
<1>6. pc[Closer] = "idle"
  BY <1>1 DEF Racing
<1>7. \A b \in Actor : Taken(b) => b = a /\ a \in Loads
  BY <1>3, <1>4, <1>5, <1>6, Kinds DEF Taken, EmptyInv, Busy, Ends
<1> QED
  BY <1>2, <1>3, <1>4, <1>5, <1>6, <1>7

\* The steps keep a session that hears its agent known.
LEMMA KnownStep ==
  ASSUME TypeOK, KindInv, EntInv, BuildInv, TakenInv, SaverInv, LockInv, EmptyInv, ~ Racing,
         KnownInv, [Next]_vars
  PROVE  KnownInv'
<1> USE DEF KnownInv, Live, Taken, Goto, At, diskVars, entryVars, history
<1>1. ASSUME NEW a \in Opener, Resolve(a) PROVE KnownInv'
  BY <1>1, Kinds, Nones, AfterSaveIs DEF Resolve, Resolved, TypeOK, KindInv, EntInv, BuildInv,
     TakenInv, Opening, Ends
<1>2. ASSUME NEW a \in Opener, RemoveOld(a) PROVE KnownInv'
  BY <1>2, Kinds, Nones, AfterSaveIs DEF RemoveOld, TakeOut, TypeOK, KindInv, EntInv, BuildInv,
     TakenInv, Opening, Ends
<1>3. ASSUME NEW a \in Opener, OpenStore(a) PROVE KnownInv'
  BY <1>3, Kinds, Nones, AfterSaveIs DEF OpenStore, Opened, TypeOK, KindInv, EntInv, BuildInv,
     TakenInv, Opening, Ends
<1>4. ASSUME NEW a \in Opener, OpenNew(a) PROVE KnownInv'
  BY <1>4, Kinds, Nones, AfterSaveIs DEF OpenNew, Opened, Unused, TypeOK, KindInv, EntInv,
     BuildInv, TakenInv, Opening, Ends
<1>5. ASSUME NEW a \in Opener, Insert(a) PROVE KnownInv'
  <2>1. table = None /\ pc[a] = "insert" /\ ent[a] \in Entry
    BY <1>5, Kinds DEF Insert, EmptyInv, Wakes, Building, TypeOK, EntInv
  <2>2. /\ table' = ent[a] /\ UNCHANGED ent
        /\ \A e \in Entry \ {ent[a]} : status'[e] = status[e]
        /\ \A b \in Actor \ {a} : pc'[b] = pc[b]
    BY <1>5, <2>1, Kinds DEF Insert, TypeOK
  <2>3. \A b \in Actor : ent[b] # None /\ ent[b] # ent[a] => b # a
    OBVIOUS
  <2> QED
    BY <2>1, <2>2, <2>3, Kinds, Nones
<1>6. ASSUME NEW a \in Opener, TouchNew(a) PROVE KnownInv'
  BY <1>6, Kinds, Nones, AfterSaveIs DEF TouchNew, Return, TypeOK, KindInv, EntInv, BuildInv,
     TakenInv, Opening, Ends
<1>7. ASSUME NEW l \in Loads, Load(l) PROVE KnownInv'
  BY <1>7, Kinds, Nones, AfterSaveIs DEF Load, TypeOK, KindInv, EntInv, BuildInv, TakenInv,
     Opening, Ends
<1>8. ASSUME NEW p \in Prompts, Lookup(p) PROVE KnownInv'
  BY <1>8, Kinds, Nones, AfterSaveIs DEF Lookup, TypeOK, KindInv, EntInv, BuildInv, TakenInv,
     Opening, Ends
<1>9. ASSUME NEW p \in Prompts, Rehydrate(p) PROVE KnownInv'
  BY <1>9, Kinds, Nones, AfterSaveIs DEF Rehydrate, TypeOK, KindInv, EntInv, BuildInv, TakenInv,
     Opening, Ends
<1>10. ASSUME NEW p \in Prompts, CanRehydrate(p) PROVE KnownInv'
  BY <1>10, Kinds, Nones, AfterSaveIs DEF CanRehydrate, Resolved, TypeOK, KindInv, EntInv,
     BuildInv, TakenInv, Opening, Ends
<1>11. ASSUME NEW p \in Prompts, Touch(p) PROVE KnownInv'
  BY <1>11, Kinds, Nones, AfterSaveIs DEF Touch, TypeOK, KindInv, EntInv, BuildInv, TakenInv,
     Opening, Ends
<1>12. ASSUME NEW p \in Prompts, AwaitIdle(p) PROVE KnownInv'
  BY <1>12, Kinds, Nones, AfterSaveIs DEF AwaitIdle, TypeOK, KindInv, EntInv, BuildInv,
     TakenInv, Opening, Ends
<1>13. ASSUME NEW p \in Prompts, Submit(p) PROVE KnownInv'
  BY <1>13, Kinds, Nones, AfterSaveIs DEF Submit, Return, TypeOK, KindInv, EntInv, BuildInv,
     TakenInv, Opening, Ends
<1>14. ASSUME NEW p \in Prompts, TurnEnds(p) PROVE KnownInv'
  BY <1>14, Kinds, Nones, AfterSaveIs DEF TurnEnds, Subscribed, TypeOK, KindInv, EntInv,
     BuildInv, TakenInv, Opening, Ends
<1>15. ASSUME NEW p \in Prompts, Answer(p) PROVE KnownInv'
  BY <1>15, Kinds, Nones, AfterSaveIs DEF Answer, Return, TypeOK, KindInv, EntInv, BuildInv,
     TakenInv, Opening, Ends
<1>16. ASSUME NEW r \in Releases, Release(r) PROVE KnownInv'
  BY <1>16, Kinds, Nones, AfterSaveIs DEF Release, TakeOut, TypeOK, KindInv, EntInv, BuildInv,
     TakenInv, Opening, Ends
<1>17. ASSUME NEW r \in Releases, Forget(r) PROVE KnownInv'
  BY <1>17, Kinds, Nones, AfterSaveIs DEF Forget, TypeOK, KindInv, EntInv, BuildInv, TakenInv,
     Opening, Ends
<1>18. ASSUME NEW a \in Actor, SaveLock(a) PROVE KnownInv'
  BY <1>18, Kinds, Nones, AfterSaveIs DEF SaveLock, AfterSave, Closed, TypeOK, KindInv, EntInv,
     BuildInv, TakenInv, Opening, Ends
<1>19. ASSUME NEW a \in Actor, SaveBind(a) PROVE KnownInv'
  BY <1>19, Kinds, Nones, AfterSaveIs DEF SaveBind, AfterSave, TypeOK, KindInv, EntInv,
     BuildInv, TakenInv, Opening, Ends
<1>20. ASSUME NEW a \in Actor, CloseState(a) PROVE KnownInv'
  BY <1>20, Kinds, Nones, AfterSaveIs DEF CloseState, TypeOK, KindInv, EntInv, BuildInv,
     TakenInv, Opening, Ends
<1>21. ASSUME NEW a \in Actor, Stop(a) PROVE KnownInv'
  BY <1>21, Kinds, Nones, AfterSaveIs DEF Stop, AfterTeardown, Unlocked, Return, TypeOK,
     KindInv, EntInv, BuildInv, TakenInv, Opening, Ends
<1>22. CASE Reap
  BY <1>22, Kinds, Nones, AfterSaveIs DEF Reap, TakeOut, TypeOK, KindInv, EntInv, BuildInv,
     TakenInv, Opening, Ends
<1>23. CASE ShutDown
  BY <1>23, Kinds, Nones, AfterSaveIs DEF ShutDown, TakeOut, TypeOK, KindInv, EntInv, BuildInv,
     TakenInv, Opening, Ends
<1>24. CASE ReaperStopped
  BY <1>24, Kinds, Nones, AfterSaveIs DEF ReaperStopped, TypeOK, KindInv, EntInv, BuildInv,
     TakenInv, Opening, Ends
<1>25. CASE Dies
  BY <1>25, Kinds, Nones, AfterSaveIs DEF Dies, TypeOK, KindInv, EntInv, BuildInv, TakenInv,
     Opening, Ends
<1>26. ASSUME NEW e \in Entry, GoesIdle(e) PROVE KnownInv'
  BY <1>26, Kinds, Nones, AfterSaveIs DEF GoesIdle, TypeOK, KindInv, EntInv, BuildInv, TakenInv,
     Opening, Ends
<1>27. ASSUME NEW t \in Transcript, Hold(t) PROVE KnownInv'
  BY <1>27, Kinds, Nones, AfterSaveIs DEF Hold, TypeOK, KindInv, EntInv, BuildInv, TakenInv,
     Opening, Ends
<1>28. CASE UNCHANGED vars
  BY <1>28 DEF vars, diskVars, history
<1> QED
    BY <1>1, <1>2, <1>3, <1>4, <1>5, <1>6, <1>7, <1>8, <1>9, <1>10, <1>11, <1>12, <1>13, <1>14,
     <1>15, <1>16, <1>17, <1>18, <1>19, <1>20, <1>21, <1>22, <1>23, <1>24, <1>25, <1>26, <1>27,
     <1>28, NextSteps

\* The steps keep the table empty for who opens or releases the session.
LEMMA EmptyStep ==
  ASSUME TypeOK, KindInv, EntInv, BuildInv, TakenInv, LockInv, EmptyInv, ~ Racing, ~ Racing',
         [Next]_vars
  PROVE  EmptyInv'
<1> USE DEF EmptyInv, Wakes, Building, Goto, At, diskVars, entryVars, history
<1>1. ASSUME NEW a \in Opener, Resolve(a) PROVE EmptyInv'
  BY <1>1, Kinds, Nones, AfterSaveIs DEF Resolve, Resolved, TypeOK, KindInv, EntInv, BuildInv,
     TakenInv, LockInv, Opening, Ends
<1>2. ASSUME NEW a \in Opener, RemoveOld(a) PROVE EmptyInv'
  BY <1>2, Kinds, Nones, AfterSaveIs DEF RemoveOld, TakeOut, TypeOK, KindInv, EntInv, BuildInv,
     TakenInv, LockInv, Opening, Ends
<1>3. ASSUME NEW a \in Opener, OpenStore(a) PROVE EmptyInv'
  BY <1>3, Kinds, Nones, AfterSaveIs DEF OpenStore, Opened, TypeOK, KindInv, EntInv, BuildInv,
     TakenInv, LockInv, Opening, Ends
<1>4. ASSUME NEW a \in Opener, OpenNew(a) PROVE EmptyInv'
  BY <1>4, Kinds, Nones, AfterSaveIs DEF OpenNew, Opened, Unused, TypeOK, KindInv, EntInv,
     BuildInv, TakenInv, LockInv, Opening, Ends
<1>5. ASSUME NEW a \in Opener, Insert(a) PROVE EmptyInv'
  <2>1. pc[a] = "insert" /\ status[ent[a]] = "building"
    BY <1>5 DEF Insert, BuildInv
  <2>2. Busy(a) /\ IsOpening(a)
    BY <2>1 DEF Busy, IsOpening, Opening, Ends
  <2>3. pc' = [pc EXCEPT ![a] = "touchNew"] /\ UNCHANGED ent
    BY <1>5 DEF Insert
  <2>4. \A b \in Actor \ {a} : pc'[b] = pc[b] /\ (ent[b] # None => status'[ent[b]] = status[ent[b]])
    BY <1>5, <2>1, Kinds DEF Insert, TypeOK, BuildInv
  <2>5. \A b \in Loads \cup Releases : b # a => ~ Busy(b)
    BY <2>2, OneAtATime
  <2>6. \A p \in Prompts : p # a => ~ Wakes(p)
    <3>1. CASE a \in Prompts
      BY <2>1, <3>1 DEF LockInv, Wakes
    <3>2. CASE a \in Loads
      BY <2>2, <3>2, OneAtATime, Kinds DEF Wakes, Busy, Ends
    <3> QED
      BY <3>1, <3>2, Kinds
  <2>7. \A p \in Prompts : p # a => ~ Wakes(p)'
    BY <2>3, <2>4, <2>6, Kinds DEF EntInv
  <2>8. \A b \in Loads \cup Releases : b # a => pc'[b] \in Ends \cup {"idle"}
    BY <2>4, <2>5, Kinds DEF Busy
  <2>9. pc'[a] = "touchNew"
    BY <2>3, Kinds DEF TypeOK
  <2> QED
    BY <2>7, <2>8, <2>9, <2>4, Kinds DEF Ends
<1>6. ASSUME NEW a \in Opener, TouchNew(a) PROVE EmptyInv'
  BY <1>6, Kinds, Nones, AfterSaveIs DEF TouchNew, Return, TypeOK, KindInv, EntInv, BuildInv,
     TakenInv, LockInv, Opening, Ends
<1>7. ASSUME NEW l \in Loads, Load(l) PROVE EmptyInv'
  BY <1>7, Kinds, Nones, AfterSaveIs DEF Load, TypeOK, KindInv, EntInv, BuildInv, TakenInv,
     LockInv, Opening, Ends
<1>8. ASSUME NEW p \in Prompts, Lookup(p) PROVE EmptyInv'
  BY <1>8, Kinds, Nones, AfterSaveIs DEF Lookup, TypeOK, KindInv, EntInv, BuildInv, TakenInv,
     LockInv, Opening, Ends
<1>9. ASSUME NEW p \in Prompts, Rehydrate(p) PROVE EmptyInv'
  BY <1>9, Kinds, Nones, AfterSaveIs DEF Rehydrate, TypeOK, KindInv, EntInv, BuildInv, TakenInv,
     LockInv, Opening, Ends
<1>10. ASSUME NEW p \in Prompts, CanRehydrate(p) PROVE EmptyInv'
  BY <1>10, Kinds, Nones, AfterSaveIs DEF CanRehydrate, Resolved, TypeOK, KindInv, EntInv,
     BuildInv, TakenInv, LockInv, Opening, Ends
<1>11. ASSUME NEW p \in Prompts, Touch(p) PROVE EmptyInv'
  BY <1>11, Kinds, Nones, AfterSaveIs DEF Touch, TypeOK, KindInv, EntInv, BuildInv, TakenInv,
     LockInv, Opening, Ends
<1>12. ASSUME NEW p \in Prompts, AwaitIdle(p) PROVE EmptyInv'
  BY <1>12, Kinds, Nones, AfterSaveIs DEF AwaitIdle, TypeOK, KindInv, EntInv, BuildInv,
     TakenInv, LockInv, Opening, Ends
<1>13. ASSUME NEW p \in Prompts, Submit(p) PROVE EmptyInv'
  BY <1>13, Kinds, Nones, AfterSaveIs DEF Submit, Return, TypeOK, KindInv, EntInv, BuildInv,
     TakenInv, LockInv, Opening, Ends
<1>14. ASSUME NEW p \in Prompts, TurnEnds(p) PROVE EmptyInv'
  BY <1>14, Kinds, Nones, AfterSaveIs DEF TurnEnds, Subscribed, TypeOK, KindInv, EntInv,
     BuildInv, TakenInv, LockInv, Opening, Ends
<1>15. ASSUME NEW p \in Prompts, Answer(p) PROVE EmptyInv'
  BY <1>15, Kinds, Nones, AfterSaveIs DEF Answer, Return, TypeOK, KindInv, EntInv, BuildInv,
     TakenInv, LockInv, Opening, Ends
<1>16. ASSUME NEW r \in Releases, Release(r) PROVE EmptyInv'
  BY <1>16, Kinds, Nones, AfterSaveIs DEF Release, TakeOut, TypeOK, KindInv, EntInv, BuildInv,
     TakenInv, LockInv, Opening, Ends
<1>17. ASSUME NEW r \in Releases, Forget(r) PROVE EmptyInv'
  BY <1>17, Kinds, Nones, AfterSaveIs DEF Forget, TypeOK, KindInv, EntInv, BuildInv, TakenInv,
     LockInv, Opening, Ends
<1>18. ASSUME NEW a \in Actor, SaveLock(a) PROVE EmptyInv'
  BY <1>18, Kinds, Nones, AfterSaveIs DEF SaveLock, AfterSave, Closed, TypeOK, KindInv, EntInv,
     BuildInv, TakenInv, LockInv, Opening, Ends
<1>19. ASSUME NEW a \in Actor, SaveBind(a) PROVE EmptyInv'
  BY <1>19, Kinds, Nones, AfterSaveIs DEF SaveBind, AfterSave, TypeOK, KindInv, EntInv,
     BuildInv, TakenInv, LockInv, Opening, Ends
<1>20. ASSUME NEW a \in Actor, CloseState(a) PROVE EmptyInv'
  BY <1>20, Kinds, Nones, AfterSaveIs DEF CloseState, TypeOK, KindInv, EntInv, BuildInv,
     TakenInv, LockInv, Opening, Ends
<1>21. ASSUME NEW a \in Actor, Stop(a) PROVE EmptyInv'
  BY <1>21, Kinds, Nones, AfterSaveIs DEF Stop, AfterTeardown, Unlocked, Return, TypeOK,
     KindInv, EntInv, BuildInv, TakenInv, LockInv, Opening, Ends
<1>22. CASE Reap
  BY <1>22, Kinds, Nones, AfterSaveIs DEF Reap, TakeOut, TypeOK, KindInv, EntInv, BuildInv,
     TakenInv, LockInv, Opening, Ends
<1>23. CASE ShutDown
  BY <1>23, Kinds, Nones, AfterSaveIs DEF ShutDown, TakeOut, TypeOK, KindInv, EntInv, BuildInv,
     TakenInv, LockInv, Opening, Ends
<1>24. CASE ReaperStopped
  BY <1>24, Kinds, Nones, AfterSaveIs DEF ReaperStopped, TypeOK, KindInv, EntInv, BuildInv,
     TakenInv, LockInv, Opening, Ends
<1>25. CASE Dies
  BY <1>25, Kinds, Nones, AfterSaveIs DEF Dies, TypeOK, KindInv, EntInv, BuildInv, TakenInv,
     LockInv, Opening, Ends
<1>26. ASSUME NEW e \in Entry, GoesIdle(e) PROVE EmptyInv'
  BY <1>26, Kinds, Nones, AfterSaveIs DEF GoesIdle, TypeOK, KindInv, EntInv, BuildInv, TakenInv,
     LockInv, Opening, Ends
<1>27. ASSUME NEW t \in Transcript, Hold(t) PROVE EmptyInv'
  BY <1>27, Kinds, Nones, AfterSaveIs DEF Hold, TypeOK, KindInv, EntInv, BuildInv, TakenInv,
     LockInv, Opening, Ends
<1>28. CASE UNCHANGED vars
  BY <1>28 DEF vars, diskVars, history
<1> QED
    BY <1>1, <1>2, <1>3, <1>4, <1>5, <1>6, <1>7, <1>8, <1>9, <1>10, <1>11, <1>12, <1>13, <1>14,
     <1>15, <1>16, <1>17, <1>18, <1>19, <1>20, <1>21, <1>22, <1>23, <1>24, <1>25, <1>26, <1>27,
     <1>28, NextSteps

\* The steps leave a prompt whose turn is not cut a session that hears it.
LEMMA HeardStep ==
  ASSUME TypeOK, KindInv, EntInv, BuildInv, TakenInv, TurnInv, EmptyInv, ~ Racing, ~ Racing',
         HeardInv, [Next]_vars
  PROVE  HeardInv'
<1> USE DEF HeardInv, Goto, At, diskVars, entryVars, history
<1>1. ASSUME NEW a \in Opener, Resolve(a) PROVE HeardInv'
  BY <1>1, Kinds, Nones, AfterSaveIs DEF Resolve, Resolved, TypeOK, KindInv, EntInv, BuildInv,
     TakenInv, Taken, TurnInv, Turn, Opening, Ends
<1>2. ASSUME NEW a \in Opener, RemoveOld(a) PROVE HeardInv'
  BY <1>2, Kinds, Nones, AfterSaveIs DEF RemoveOld, TakeOut, TypeOK, KindInv, EntInv, BuildInv,
     TakenInv, Taken, TurnInv, Turn, Opening, Ends
<1>3. ASSUME NEW a \in Opener, OpenStore(a) PROVE HeardInv'
  BY <1>3, Kinds, Nones, AfterSaveIs DEF OpenStore, Opened, TypeOK, KindInv, EntInv, BuildInv,
     TakenInv, Taken, TurnInv, Turn, Opening, Ends
<1>4. ASSUME NEW a \in Opener, OpenNew(a) PROVE HeardInv'
  BY <1>4, Kinds, Nones, AfterSaveIs DEF OpenNew, Opened, Unused, TypeOK, KindInv, EntInv,
     BuildInv, TakenInv, Taken, TurnInv, Turn, Opening, Ends
<1>5. ASSUME NEW a \in Opener, Insert(a) PROVE HeardInv'
  BY <1>5, Kinds, Nones, AfterSaveIs DEF Insert, TypeOK, KindInv, EntInv, BuildInv, TakenInv,
     Taken, TurnInv, Turn, Opening, Ends
<1>6. ASSUME NEW a \in Opener, TouchNew(a) PROVE HeardInv'
  BY <1>6, Kinds, Nones, AfterSaveIs DEF TouchNew, Return, TypeOK, KindInv, EntInv, BuildInv,
     TakenInv, Taken, TurnInv, Turn, Opening, Ends
<1>7. ASSUME NEW l \in Loads, Load(l) PROVE HeardInv'
  BY <1>7, Kinds, Nones, AfterSaveIs DEF Load, TypeOK, KindInv, EntInv, BuildInv, TakenInv,
     Taken, TurnInv, Turn, Opening, Ends
<1>8. ASSUME NEW p \in Prompts, Lookup(p) PROVE HeardInv'
  BY <1>8, Kinds, Nones, AfterSaveIs DEF Lookup, TypeOK, KindInv, EntInv, BuildInv, TakenInv,
     Taken, TurnInv, Turn, Opening, Ends
<1>9. ASSUME NEW p \in Prompts, Rehydrate(p) PROVE HeardInv'
  BY <1>9, Kinds, Nones, AfterSaveIs DEF Rehydrate, TypeOK, KindInv, EntInv, BuildInv, TakenInv,
     Taken, TurnInv, Turn, Opening, Ends
<1>10. ASSUME NEW p \in Prompts, CanRehydrate(p) PROVE HeardInv'
  BY <1>10, Kinds, Nones, AfterSaveIs DEF CanRehydrate, Resolved, TypeOK, KindInv, EntInv,
     BuildInv, TakenInv, Taken, TurnInv, Turn, Opening, Ends
<1>11. ASSUME NEW p \in Prompts, Touch(p) PROVE HeardInv'
  <2>1. pc[p] = "touch" /\ pc' = [pc EXCEPT ![p] = "wait"] /\ UNCHANGED <<ent, status, cut>>
    BY <1>11 DEF Touch
  <2>2. ent[p] = table /\ table # None
    BY <2>1, Kinds DEF Racing, EntInv
  <2>3. status[ent[p]] = "open"
    BY <2>2 DEF TakenInv
  <2>4. \A q \in Prompts \ {p} : pc'[q] = pc[q]
    BY <2>1, Kinds DEF TypeOK
  <2>5. pc'[p] = "wait"
    BY <2>1, Kinds DEF TypeOK
  <2>6. Taken(Reaper)' => Taken(Reaper)
    BY <2>1, Kinds DEF Taken, TypeOK
  <2>7. Taken(Reaper) => ent[Reaper] # table
    BY Kinds DEF TakenInv
  <2> QED
    BY <2>1, <2>2, <2>3, <2>4, <2>5, <2>6, <2>7
<1>12. ASSUME NEW p \in Prompts, AwaitIdle(p) PROVE HeardInv'
  BY <1>12, Kinds, Nones, AfterSaveIs DEF AwaitIdle, TypeOK, KindInv, EntInv, BuildInv,
     TakenInv, Taken, TurnInv, Turn, Opening, Ends
<1>13. ASSUME NEW p \in Prompts, Submit(p) PROVE HeardInv'
  BY <1>13, Kinds, Nones, AfterSaveIs DEF Submit, Return, TypeOK, KindInv, EntInv, BuildInv,
     TakenInv, Taken, TurnInv, Turn, Opening, Ends
<1>14. ASSUME NEW p \in Prompts, TurnEnds(p) PROVE HeardInv'
  BY <1>14, Kinds, Nones, AfterSaveIs DEF TurnEnds, Subscribed, TypeOK, KindInv, EntInv,
     BuildInv, TakenInv, Taken, TurnInv, Turn, Opening, Ends
<1>15. ASSUME NEW p \in Prompts, Answer(p) PROVE HeardInv'
  BY <1>15, Kinds, Nones, AfterSaveIs DEF Answer, Return, TypeOK, KindInv, EntInv, BuildInv,
     TakenInv, Taken, TurnInv, Turn, Opening, Ends
<1>16. ASSUME NEW r \in Releases, Release(r) PROVE HeardInv'
  BY <1>16, Kinds, Nones, AfterSaveIs DEF Release, TakeOut, TypeOK, KindInv, EntInv, BuildInv,
     TakenInv, Taken, TurnInv, Turn, Opening, Ends
<1>17. ASSUME NEW r \in Releases, Forget(r) PROVE HeardInv'
  BY <1>17, Kinds, Nones, AfterSaveIs DEF Forget, TypeOK, KindInv, EntInv, BuildInv, TakenInv,
     Taken, TurnInv, Turn, Opening, Ends
<1>18. ASSUME NEW a \in Actor, SaveLock(a) PROVE HeardInv'
  BY <1>18, Kinds, Nones, AfterSaveIs DEF SaveLock, AfterSave, Closed, TypeOK, KindInv, EntInv,
     BuildInv, TakenInv, Taken, TurnInv, Turn, Opening, Ends
<1>19. ASSUME NEW a \in Actor, SaveBind(a) PROVE HeardInv'
  BY <1>19, Kinds, Nones, AfterSaveIs DEF SaveBind, AfterSave, TypeOK, KindInv, EntInv,
     BuildInv, TakenInv, Taken, TurnInv, Turn, Opening, Ends
<1>20. ASSUME NEW a \in Actor, CloseState(a) PROVE HeardInv'
  BY <1>20, Kinds, Nones, AfterSaveIs DEF CloseState, TypeOK, KindInv, EntInv, BuildInv,
     TakenInv, Taken, TurnInv, Turn, Opening, Ends
<1>21. ASSUME NEW a \in Actor, Stop(a) PROVE HeardInv'
  <2>1. /\ pc[a] = "stop" /\ ent[a] \in Entry /\ status[ent[a]] = "closing" /\ a \notin Prompts
        /\ Taken(a)
    BY <1>21 DEF Stop, TypeOK, EntInv, TakenInv, Taken, EmptyInv
  <2>2. \A p \in Prompts : pc'[p] = pc[p] /\ ent'[p] = ent[p]
    BY <1>21, <2>1, Kinds DEF Stop, TypeOK, Return, AfterTeardown
  <2>3. \A e \in Entry \ {ent[a]} : status'[e] = status[e]
    BY <1>21, <2>1 DEF Stop, TypeOK
  <2>4. cut \subseteq cut'
    BY <1>21 DEF Stop
  <2>5. ASSUME NEW p \in Prompts \ cut', ent[p] = ent[a],
               pc[p] \in {"wait", "submit", "run", "save", "saving", "answer"}
        PROVE  FALSE
    <3>1. Busy(p) /\ p \in Request /\ pc[p] \notin Ends
      BY <2>5, Kinds DEF Busy, Ends
    <3>2. a # Closer /\ a \notin Loads
      BY <2>1, <3>1, Kinds DEF Racing, Busy, Ends
    <3>3. a \notin Releases /\ run[ent[a]] # p
      BY <1>21, <2>5, <3>1 DEF Stop
    <3>4. a = Reaper
      BY <2>1, <3>2, <3>3, Kinds
    <3>5. pc[p] \in {"save", "saving", "answer"}
      BY <2>1, <2>5, <3>4 DEF HeardInv
    <3>6. Turn(p)
      BY <2>1, <2>5, <3>5 DEF Turn
    <3> QED
      BY <2>5, <3>3, <3>6 DEF TurnInv
  <2>6. ASSUME NEW p \in Prompts \ cut',
               pc'[p] \in {"wait", "submit", "run", "save", "saving", "answer"}
        PROVE  status'[ent'[p]] \notin {"free", "closed"}
    <3>1. ent[p] # ent[a] /\ p \notin cut /\ ent[p] \in Entry
      BY <2>2, <2>4, <2>5, <2>6, Kinds DEF TypeOK, EntInv
    <3> QED
      BY <2>2, <2>3, <2>6, <3>1 DEF HeardInv
  <2>7. Taken(Reaper)' => Taken(Reaper) /\ ent'[Reaper] = ent[Reaper]
    BY <1>21, <2>1, Kinds DEF Stop, Taken, TypeOK, Return, AfterTeardown
  <2> QED
    BY <2>2, <2>6, <2>7 DEF HeardInv
<1>22. CASE Reap
  BY <1>22, Kinds, Nones, AfterSaveIs DEF Reap, TakeOut, TypeOK, KindInv, EntInv, BuildInv,
     TakenInv, Taken, TurnInv, Turn, Opening, Ends
<1>23. CASE ShutDown
  BY <1>23, Kinds, Nones, AfterSaveIs DEF ShutDown, TakeOut, TypeOK, KindInv, EntInv, BuildInv,
     TakenInv, Taken, TurnInv, Turn, Opening, Ends
<1>24. CASE ReaperStopped
  BY <1>24, Kinds, Nones, AfterSaveIs DEF ReaperStopped, TypeOK, KindInv, EntInv, BuildInv,
     TakenInv, Taken, TurnInv, Turn, Opening, Ends
<1>25. CASE Dies
  BY <1>25, Kinds, Nones, AfterSaveIs DEF Dies, TypeOK, KindInv, EntInv, BuildInv, TakenInv,
     Taken, TurnInv, Turn, Opening, Ends
<1>26. ASSUME NEW e \in Entry, GoesIdle(e) PROVE HeardInv'
  BY <1>26, Kinds, Nones, AfterSaveIs DEF GoesIdle, TypeOK, KindInv, EntInv, BuildInv, TakenInv,
     Taken, TurnInv, Turn, Opening, Ends
<1>27. ASSUME NEW t \in Transcript, Hold(t) PROVE HeardInv'
  BY <1>27, Kinds, Nones, AfterSaveIs DEF Hold, TypeOK, KindInv, EntInv, BuildInv, TakenInv,
     Taken, TurnInv, Turn, Opening, Ends
<1>28. CASE UNCHANGED vars
  BY <1>28 DEF vars, diskVars, history, Taken
<1> QED
    BY <1>1, <1>2, <1>3, <1>4, <1>5, <1>6, <1>7, <1>8, <1>9, <1>10, <1>11, <1>12, <1>13, <1>14,
     <1>15, <1>16, <1>17, <1>18, <1>19, <1>20, <1>21, <1>22, <1>23, <1>24, <1>25, <1>26, <1>27,
     <1>28, NextSteps

\* The steps leave the turn that is answered in its transcript.
LEMMA WrittenStep ==
  ASSUME TypeOK, KindInv, EntInv, BuildInv, TakenInv, TurnInv, HeardInv, WrittenInv,
         [Next]_vars
  PROVE  WrittenInv'
<1> USE DEF WrittenInv, Turn, Goto, At, diskVars, entryVars, history
<1>1. ASSUME NEW a \in Opener, Resolve(a) PROVE WrittenInv'
  BY <1>1, Kinds, Nones, AfterSaveIs DEF Resolve, Resolved, TypeOK, KindInv, EntInv, BuildInv,
     TakenInv, Taken, TurnInv, HeardInv, Opening, Ends
<1>2. ASSUME NEW a \in Opener, RemoveOld(a) PROVE WrittenInv'
  BY <1>2, Kinds, Nones, AfterSaveIs DEF RemoveOld, TakeOut, TypeOK, KindInv, EntInv, BuildInv,
     TakenInv, Taken, TurnInv, HeardInv, Opening, Ends
<1>3. ASSUME NEW a \in Opener, OpenStore(a) PROVE WrittenInv'
  BY <1>3, Kinds, Nones, AfterSaveIs DEF OpenStore, Opened, TypeOK, KindInv, EntInv, BuildInv,
     TakenInv, Taken, TurnInv, HeardInv, Opening, Ends
<1>4. ASSUME NEW a \in Opener, OpenNew(a) PROVE WrittenInv'
  BY <1>4, Kinds, Nones, AfterSaveIs DEF OpenNew, Opened, Unused, TypeOK, KindInv, EntInv,
     BuildInv, TakenInv, Taken, TurnInv, HeardInv, Opening, Ends
<1>5. ASSUME NEW a \in Opener, Insert(a) PROVE WrittenInv'
  BY <1>5, Kinds, Nones, AfterSaveIs DEF Insert, TypeOK, KindInv, EntInv, BuildInv, TakenInv,
     Taken, TurnInv, HeardInv, Opening, Ends
<1>6. ASSUME NEW a \in Opener, TouchNew(a) PROVE WrittenInv'
  BY <1>6, Kinds, Nones, AfterSaveIs DEF TouchNew, Return, TypeOK, KindInv, EntInv, BuildInv,
     TakenInv, Taken, TurnInv, HeardInv, Opening, Ends
<1>7. ASSUME NEW l \in Loads, Load(l) PROVE WrittenInv'
  BY <1>7, Kinds, Nones, AfterSaveIs DEF Load, TypeOK, KindInv, EntInv, BuildInv, TakenInv,
     Taken, TurnInv, HeardInv, Opening, Ends
<1>8. ASSUME NEW p \in Prompts, Lookup(p) PROVE WrittenInv'
  BY <1>8, Kinds, Nones, AfterSaveIs DEF Lookup, TypeOK, KindInv, EntInv, BuildInv, TakenInv,
     Taken, TurnInv, HeardInv, Opening, Ends
<1>9. ASSUME NEW p \in Prompts, Rehydrate(p) PROVE WrittenInv'
  BY <1>9, Kinds, Nones, AfterSaveIs DEF Rehydrate, TypeOK, KindInv, EntInv, BuildInv, TakenInv,
     Taken, TurnInv, HeardInv, Opening, Ends
<1>10. ASSUME NEW p \in Prompts, CanRehydrate(p) PROVE WrittenInv'
  BY <1>10, Kinds, Nones, AfterSaveIs DEF CanRehydrate, Resolved, TypeOK, KindInv, EntInv,
     BuildInv, TakenInv, Taken, TurnInv, HeardInv, Opening, Ends
<1>11. ASSUME NEW p \in Prompts, Touch(p) PROVE WrittenInv'
  BY <1>11, Kinds, Nones, AfterSaveIs DEF Touch, TypeOK, KindInv, EntInv, BuildInv, TakenInv,
     Taken, TurnInv, HeardInv, Opening, Ends
<1>12. ASSUME NEW p \in Prompts, AwaitIdle(p) PROVE WrittenInv'
  BY <1>12, Kinds, Nones, AfterSaveIs DEF AwaitIdle, TypeOK, KindInv, EntInv, BuildInv,
     TakenInv, Taken, TurnInv, HeardInv, Opening, Ends
<1>13. ASSUME NEW p \in Prompts, Submit(p) PROVE WrittenInv'
  BY <1>13, Kinds, Nones, AfterSaveIs DEF Submit, Return, TypeOK, KindInv, EntInv, BuildInv,
     TakenInv, Taken, TurnInv, HeardInv, Opening, Ends
<1>14. ASSUME NEW p \in Prompts, TurnEnds(p) PROVE WrittenInv'
  BY <1>14, Kinds, Nones, AfterSaveIs DEF TurnEnds, Subscribed, TypeOK, KindInv, EntInv,
     BuildInv, TakenInv, Taken, TurnInv, HeardInv, Opening, Ends
<1>15. ASSUME NEW p \in Prompts, Answer(p) PROVE WrittenInv'
  BY <1>15, Kinds, Nones, AfterSaveIs DEF Answer, Return, TypeOK, KindInv, EntInv, BuildInv,
     TakenInv, Taken, TurnInv, HeardInv, Opening, Ends
<1>16. ASSUME NEW r \in Releases, Release(r) PROVE WrittenInv'
  BY <1>16, Kinds, Nones, AfterSaveIs DEF Release, TakeOut, TypeOK, KindInv, EntInv, BuildInv,
     TakenInv, Taken, TurnInv, HeardInv, Opening, Ends
<1>17. ASSUME NEW r \in Releases, Forget(r) PROVE WrittenInv'
  BY <1>17, Kinds, Nones, AfterSaveIs DEF Forget, TypeOK, KindInv, EntInv, BuildInv, TakenInv,
     Taken, TurnInv, HeardInv, Opening, Ends
<1>18. ASSUME NEW a \in Actor, SaveLock(a) PROVE WrittenInv'
  BY <1>18, Kinds, Nones, AfterSaveIs DEF SaveLock, AfterSave, Closed, TypeOK, KindInv, EntInv,
     BuildInv, TakenInv, Taken, TurnInv, HeardInv, Opening, Ends
<1>19. ASSUME NEW a \in Actor, SaveBind(a) PROVE WrittenInv'
  BY <1>19, Kinds, Nones, AfterSaveIs DEF SaveBind, AfterSave, TypeOK, KindInv, EntInv,
     BuildInv, TakenInv, Taken, TurnInv, HeardInv, Opening, Ends
<1>20. ASSUME NEW a \in Actor, CloseState(a) PROVE WrittenInv'
  BY <1>20, Kinds, Nones, AfterSaveIs DEF CloseState, TypeOK, KindInv, EntInv, BuildInv,
     TakenInv, Taken, TurnInv, HeardInv, Opening, Ends
<1>21. ASSUME NEW a \in Actor, Stop(a) PROVE WrittenInv'
  BY <1>21, Kinds, Nones, AfterSaveIs DEF Stop, AfterTeardown, Unlocked, Return, TypeOK,
     KindInv, EntInv, BuildInv, TakenInv, Taken, TurnInv, HeardInv, Opening, Ends
<1>22. CASE Reap
  BY <1>22, Kinds, Nones, AfterSaveIs DEF Reap, TakeOut, TypeOK, KindInv, EntInv, BuildInv,
     TakenInv, Taken, TurnInv, HeardInv, Opening, Ends
<1>23. CASE ShutDown
  BY <1>23, Kinds, Nones, AfterSaveIs DEF ShutDown, TakeOut, TypeOK, KindInv, EntInv, BuildInv,
     TakenInv, Taken, TurnInv, HeardInv, Opening, Ends
<1>24. CASE ReaperStopped
  BY <1>24, Kinds, Nones, AfterSaveIs DEF ReaperStopped, TypeOK, KindInv, EntInv, BuildInv,
     TakenInv, Taken, TurnInv, HeardInv, Opening, Ends
<1>25. CASE Dies
  BY <1>25, Kinds, Nones, AfterSaveIs DEF Dies, TypeOK, KindInv, EntInv, BuildInv, TakenInv,
     Taken, TurnInv, HeardInv, Opening, Ends
<1>26. ASSUME NEW e \in Entry, GoesIdle(e) PROVE WrittenInv'
  BY <1>26, Kinds, Nones, AfterSaveIs DEF GoesIdle, TypeOK, KindInv, EntInv, BuildInv, TakenInv,
     Taken, TurnInv, HeardInv, Opening, Ends
<1>27. ASSUME NEW t \in Transcript, Hold(t) PROVE WrittenInv'
  BY <1>27, Kinds, Nones, AfterSaveIs DEF Hold, TypeOK, KindInv, EntInv, BuildInv, TakenInv,
     Taken, TurnInv, HeardInv, Opening, Ends
<1>28. CASE UNCHANGED vars
  BY <1>28 DEF vars, diskVars, history
<1> QED
    BY <1>1, <1>2, <1>3, <1>4, <1>5, <1>6, <1>7, <1>8, <1>9, <1>10, <1>11, <1>12, <1>13, <1>14,
     <1>15, <1>16, <1>17, <1>18, <1>19, <1>20, <1>21, <1>22, <1>23, <1>24, <1>25, <1>26, <1>27,
     <1>28, NextSteps

\* The steps keep the handle, and who opens, at what was answered.
LEMMA HandleStep ==
  ASSUME TypeOK, KindInv, EntInv, BuildInv, TakenInv, SaverInv, TurnInv, LockInv,
         KnownInv, EmptyInv, HeardInv, WrittenInv, ~ Racing, HandleInv, [Next]_vars
  PROVE  HandleInv'
<1> USE DEF HandleInv, Live, Building, TurnsIn, Goto, At, diskVars, entryVars, history
<1>1. ASSUME NEW a \in Opener, Resolve(a) PROVE HandleInv'
  BY <1>1, Kinds, Nones, AfterSaveIs DEF Resolve, Resolved, TypeOK, KindInv, EntInv, BuildInv,
     TakenInv, Taken, Opening, Ends
<1>2. ASSUME NEW a \in Opener, RemoveOld(a) PROVE HandleInv'
  BY <1>2, Kinds, Nones, AfterSaveIs DEF RemoveOld, TakeOut, TypeOK, KindInv, EntInv, BuildInv,
     TakenInv, Taken, Opening, Ends
<1>3. ASSUME NEW a \in Opener, OpenStore(a) PROVE HandleInv'
  BY <1>3, Kinds, Nones, AfterSaveIs DEF OpenStore, Opened, TypeOK, KindInv, EntInv, BuildInv,
     TakenInv, Taken, Opening, Ends
<1>4. ASSUME NEW a \in Opener, OpenNew(a) PROVE HandleInv'
  BY <1>4, Kinds, Nones, AfterSaveIs DEF OpenNew, Opened, Unused, TypeOK, KindInv, EntInv,
     BuildInv, TakenInv, Taken, Opening, Ends
<1>5. ASSUME NEW a \in Opener, Insert(a) PROVE HandleInv'
  BY <1>5, Kinds, Nones, AfterSaveIs DEF Insert, TypeOK, KindInv, EntInv, BuildInv, TakenInv,
     Taken, Opening, Ends
<1>6. ASSUME NEW a \in Opener, TouchNew(a) PROVE HandleInv'
  BY <1>6, Kinds, Nones, AfterSaveIs DEF TouchNew, Return, TypeOK, KindInv, EntInv, BuildInv,
     TakenInv, Taken, Opening, Ends
<1>7. ASSUME NEW l \in Loads, Load(l) PROVE HandleInv'
  BY <1>7, Kinds, Nones, AfterSaveIs DEF Load, TypeOK, KindInv, EntInv, BuildInv, TakenInv,
     Taken, Opening, Ends
<1>8. ASSUME NEW p \in Prompts, Lookup(p) PROVE HandleInv'
  BY <1>8, Kinds, Nones, AfterSaveIs DEF Lookup, TypeOK, KindInv, EntInv, BuildInv, TakenInv,
     Taken, Opening, Ends
<1>9. ASSUME NEW p \in Prompts, Rehydrate(p) PROVE HandleInv'
  BY <1>9, Kinds, Nones, AfterSaveIs DEF Rehydrate, TypeOK, KindInv, EntInv, BuildInv, TakenInv,
     Taken, Opening, Ends
<1>10. ASSUME NEW p \in Prompts, CanRehydrate(p) PROVE HandleInv'
  BY <1>10, Kinds, Nones, AfterSaveIs DEF CanRehydrate, Resolved, TypeOK, KindInv, EntInv,
     BuildInv, TakenInv, Taken, Opening, Ends
<1>11. ASSUME NEW p \in Prompts, Touch(p) PROVE HandleInv'
  BY <1>11, Kinds, Nones, AfterSaveIs DEF Touch, TypeOK, KindInv, EntInv, BuildInv, TakenInv,
     Taken, Opening, Ends
<1>12. ASSUME NEW p \in Prompts, AwaitIdle(p) PROVE HandleInv'
  BY <1>12, Kinds, Nones, AfterSaveIs DEF AwaitIdle, TypeOK, KindInv, EntInv, BuildInv,
     TakenInv, Taken, Opening, Ends
<1>13. ASSUME NEW p \in Prompts, Submit(p) PROVE HandleInv'
  BY <1>13, Kinds, Nones, AfterSaveIs DEF Submit, Return, TypeOK, KindInv, EntInv, BuildInv,
     TakenInv, Taken, Opening, Ends
<1>14. ASSUME NEW p \in Prompts, TurnEnds(p) PROVE HandleInv'
  BY <1>14, Kinds, Nones, AfterSaveIs DEF TurnEnds, Subscribed, TypeOK, KindInv, EntInv,
     BuildInv, TakenInv, Taken, Opening, Ends
<1>15. ASSUME NEW p \in Prompts, Answer(p) PROVE HandleInv'
  <2>1. /\ pc[p] = "answer" /\ ent[p] \in Entry /\ p \in Actor
        /\ kept' = IF p \in cut THEN kept ELSE kept \cup {p}
        /\ pc' = [pc EXCEPT ![p] = "answered"] /\ ent' = [ent EXCEPT ![p] = None]
        /\ UNCHANGED <<handle, turns, status, file, path>>
    BY <1>15, Kinds DEF Answer, Return, TypeOK, EntInv
  <2>2. \A a \in Opener : pc'[a] # "answered" => a # p /\ pc'[a] = pc[a] /\ ent'[a] = ent[a]
    BY <2>1, Kinds DEF TypeOK
  <2>3. CASE p \in cut
    BY <2>1, <2>2, <2>3
  <2>4. CASE p \notin cut
    <3>1. Live(ent[p])
      <4>1. status[ent[p]] \notin {"free", "closed"}
        BY <2>1, <2>4 DEF HeardInv
      <4>2. status[ent[p]] # "building"
        BY <2>1, Nones DEF BuildInv
      <4> QED
        BY <2>1, <4>1, <4>2 DEF TypeOK
    <3>2. p \in TurnsIn(handle)
      BY <2>1, <2>4, <3>1, Nones DEF WrittenInv, Turn, EntInv
    <3>3. \A a \in Opener :
            pc[a] \notin {"remove", "close", "stop", "open"} /\ ~ Building(a)
      <4> SUFFICES ASSUME NEW a \in Opener,
                          pc[a] \in {"remove", "close", "stop", "open"} \/ Building(a)
                   PROVE  FALSE
        OBVIOUS
      <4>1. Busy(a) /\ IsOpening(a)
        BY DEF Busy, IsOpening, Opening, Ends
      <4>2. Busy(p) /\ p \in Request /\ a # p
        BY <2>1, Kinds DEF Busy, Ends
      <4>3. a \in Prompts
        BY <4>1, <4>2, OneAtATime, Kinds
      <4>4. table = None
        BY <4>3, Kinds DEF EmptyInv, Wakes
      <4>5. \A b \in Actor : ~ Taken(b)
        BY <4>1, <4>3, OneAtATime, Kinds
      <4> QED
        BY <2>1, <3>1, <4>4, <4>5, Nones DEF KnownInv
    <3>4. \A a \in Opener : ~ Building(a)'
      BY <2>1, <2>2, <3>3
    <3>5. \A a \in Opener : pc'[a] \notin {"remove", "close", "stop", "open"}
      BY <2>1, <2>2, <3>3
    <3>6. /\ \A e \in Entry : Live(e)' => handle' = file'[e]
          /\ \A a \in Opener : pc'[a] = "insert" => handle' = file'[ent'[a]]
      BY <2>1, <3>4
    <3>7. kept' \subseteq TurnsIn(handle)'
      BY <2>1, <3>2
    <3> QED
      BY <3>4, <3>5, <3>6, <3>7
  <2> QED
    BY <2>3, <2>4
<1>16. ASSUME NEW r \in Releases, Release(r) PROVE HandleInv'
  BY <1>16, Kinds, Nones, AfterSaveIs DEF Release, TakeOut, TypeOK, KindInv, EntInv, BuildInv,
     TakenInv, Taken, Opening, Ends
<1>17. ASSUME NEW r \in Releases, Forget(r) PROVE HandleInv'
  <2>1. pc[r] = "forget" /\ kept' = {} /\ UNCHANGED <<ent, path, table, file, status, turns>>
    BY <1>17 DEF Forget
  <2>2. Busy(r) /\ r \in Request
    BY <2>1, Kinds DEF Busy, Ends
  <2>3. table = None
    BY <2>1 DEF EmptyInv
  <2>4. \A b \in Actor : ~ Taken(b)
    BY <2>1, <2>2, Kinds DEF Racing, Taken, EmptyInv, Busy, Ends
  <2>5. \A e \in Entry : ~ Live(e)
    BY <2>3, <2>4, Nones DEF KnownInv
  <2>6. \A a \in Opener : pc[a] # "insert"
    BY <2>2, Kinds DEF Racing, Busy, IsOpening, Opening, Ends
  <2>7. \A a \in Opener : pc'[a] = pc[a]
    BY <1>17, Kinds DEF Forget, TypeOK
  <2> QED
    BY <2>1, <2>5, <2>6, <2>7
<1>18. ASSUME NEW a \in Actor, SaveLock(a) PROVE HandleInv'
  BY <1>18, Kinds, Nones, AfterSaveIs DEF SaveLock, AfterSave, Closed, TypeOK, KindInv, EntInv,
     BuildInv, TakenInv, Taken, Opening, Ends
<1>19. ASSUME NEW a \in Actor, SaveBind(a) PROVE HandleInv'
  <2>1. /\ pc[a] = "saving" /\ ent[a] \in Entry /\ handle' = file[ent[a]]
        /\ pc' = [pc EXCEPT ![a] = AfterSave(a)]
        /\ UNCHANGED <<kept, ent, path, table, file, status, turns>>
    BY <1>19 DEF SaveBind, TypeOK, EntInv
  <2>2. \A b \in Actor \ {a} : pc'[b] = pc[b]
    BY <2>1, Kinds DEF TypeOK
  <2>3. pc'[a] = AfterSave(a)
    BY <2>1, Kinds DEF TypeOK
  <2>4. \A b \in Opener : Building(b)' => Building(b)
    BY <2>1, <2>2, <2>3, AfterSaveIs, Kinds
  <2>5. \A b \in Opener : pc'[b] \in {"remove", "close", "stop", "open"} =>
                            pc[b] \in {"remove", "close", "stop", "open"}
    BY <2>2, <2>3, AfterSaveIs, Kinds
  <2>6. CASE status[ent[a]] = "open"
    <3>1. handle' = handle
      BY <2>1, <2>6
    <3>2. pc'[a] # "insert"
      BY <2>3, <2>6, AfterSaveIs
    <3> QED
      BY <2>1, <2>2, <2>4, <2>5, <3>1, <3>2, Kinds
  <2>7. CASE status[ent[a]] = "building"
    <3>1. a \in Opener /\ Building(a)
      BY <2>1, <2>7, Nones DEF BuildInv
    <3>2. Busy(a) /\ IsOpening(a)
      BY <2>1, <2>7 DEF Busy, IsOpening, Opening, Ends
    <3>3. table = None /\ \A b \in Actor : ~ Taken(b)
      BY <2>1, <3>1, <3>2, OneAtATime, Kinds DEF EmptyInv, Wakes, Taken
    <3>4. \A e \in Entry : ~ Live(e)
      BY <3>3, Nones DEF KnownInv
    <3>5. \A b \in Opener : b # a => ~ Building(b)
      <4>1. CASE a \in Loads
        BY <3>2, <4>1, OneAtATime, Kinds DEF Busy, Ends
      <4>2. CASE a \in Prompts
        <5>1. \A l \in Loads : ~ Building(l)
          BY <3>2, <4>2, OneAtATime, Kinds DEF Busy, Ends
        <5>2. \A b \in Prompts : Building(b) => lock = b
          BY DEF LockInv, Wakes
        <5> QED
          BY <3>1, <4>2, <5>1, <5>2, Kinds
      <4> QED
        BY <3>1, <4>1, <4>2, Kinds
    <3>6. file[ent[a]] # None
      BY <2>1, <2>7 DEF EntInv
    <3>7. kept \subseteq TurnsIn(file[ent[a]])
      BY <3>1
    <3>8. /\ \A e \in Entry : Live(e)' => handle' = file'[e]
          /\ kept' \subseteq TurnsIn(handle)'
      BY <2>1, <3>4, <3>7
    <3>9. \A b \in Opener : pc'[b] = "insert" => handle' = file'[ent'[b]]
      BY <2>1, <2>4, <3>5
    <3>10. \A b \in Opener : Building(b)' => kept' \subseteq TurnsIn(file[ent[b]])'
      BY <2>1, <2>4, <3>5, <3>7
    <3>11. \A b \in Opener : pc'[b] \in {"remove", "close", "stop", "open"} =>
                               kept' \subseteq TurnsIn(path[b])'
      BY <2>1, <2>5
    <3> QED
      BY <3>8, <3>9, <3>10, <3>11
  <2> QED
    BY <2>1, <2>6, <2>7 DEF SaverInv
<1>20. ASSUME NEW a \in Actor, CloseState(a) PROVE HandleInv'
  BY <1>20, Kinds, Nones, AfterSaveIs DEF CloseState, TypeOK, KindInv, EntInv, BuildInv,
     TakenInv, Taken, Opening, Ends
<1>21. ASSUME NEW a \in Actor, Stop(a) PROVE HandleInv'
  BY <1>21, Kinds, Nones, AfterSaveIs DEF Stop, AfterTeardown, Unlocked, Return, TypeOK,
     KindInv, EntInv, BuildInv, TakenInv, Taken, Opening, Ends
<1>22. CASE Reap
  BY <1>22, Kinds, Nones, AfterSaveIs DEF Reap, TakeOut, TypeOK, KindInv, EntInv, BuildInv,
     TakenInv, Taken, Opening, Ends
<1>23. CASE ShutDown
  BY <1>23, Kinds, Nones, AfterSaveIs DEF ShutDown, TakeOut, TypeOK, KindInv, EntInv, BuildInv,
     TakenInv, Taken, Opening, Ends
<1>24. CASE ReaperStopped
  BY <1>24, Kinds, Nones, AfterSaveIs DEF ReaperStopped, TypeOK, KindInv, EntInv, BuildInv,
     TakenInv, Taken, Opening, Ends
<1>25. CASE Dies
  BY <1>25, Kinds, Nones, AfterSaveIs DEF Dies, TypeOK, KindInv, EntInv, BuildInv, TakenInv,
     Taken, Opening, Ends
<1>26. ASSUME NEW e \in Entry, GoesIdle(e) PROVE HandleInv'
  BY <1>26, Kinds, Nones, AfterSaveIs DEF GoesIdle, TypeOK, KindInv, EntInv, BuildInv, TakenInv,
     Taken, Opening, Ends
<1>27. ASSUME NEW t \in Transcript, Hold(t) PROVE HandleInv'
  BY <1>27, Kinds, Nones, AfterSaveIs DEF Hold, TypeOK, KindInv, EntInv, BuildInv, TakenInv,
     Taken, Opening, Ends
<1>28. CASE UNCHANGED vars
  BY <1>28 DEF vars, diskVars, history, Live, Building, TurnsIn
<1> QED
    BY <1>1, <1>2, <1>3, <1>4, <1>5, <1>6, <1>7, <1>8, <1>9, <1>10, <1>11, <1>12, <1>13, <1>14,
     <1>15, <1>16, <1>17, <1>18, <1>19, <1>20, <1>21, <1>22, <1>23, <1>24, <1>25, <1>26, <1>27,
     <1>28, NextSteps

-----------------------------------------------------------------------------
(* The invariant. *)

LEMMA Initially ==
  ASSUME Init
  PROVE  IInv
<1> USE Kinds, Nones DEF Init
<1>1. TypeOK /\ KindInv
  <2>1. TypeOK
    <3>1. crashes \in 0 .. MaxCrashes
      BY AcpAssumption
    <3>2. /\ pc \in [Actor -> Steps \cup Opening \cup Ends] /\ ent \in [Actor -> Entry \cup {None}]
          /\ path \in [Actor -> Transcript \cup {None}]
      BY DEF Steps
    <3>3. /\ turns \in [Transcript -> SUBSET Prompts] /\ onDisk \in SUBSET Transcript
          /\ holder \in [Transcript -> Entry \cup {Outsider, None}]
      OBVIOUS
    <3>4. /\ status \in [Entry -> {"free", "building", "open", "closing", "closed"}]
          /\ file \in [Entry -> Transcript \cup {None}]
          /\ run \in [Entry -> Prompts \cup {None}] /\ saver \in [Entry -> Actor \cup {None}]
      OBVIOUS
    <3> QED
      BY <3>1, <3>2, <3>3, <3>4 DEF TypeOK
  <2>2. KindInv
    BY DEF KindInv
  <2> QED
    BY <2>1, <2>2
<1>2. /\ EntInv /\ BuildInv /\ TakenInv /\ SaverInv /\ TurnInv /\ LockInv
  BY DEF EntInv, BuildInv, TakenInv, Taken, SaverInv, TurnInv, Turn, LockInv, Wakes
<1>3. ~ Racing
  BY DEF Racing, Busy
<1>4. KnownInv /\ EmptyInv /\ HeardInv /\ WrittenInv
  BY DEF KnownInv, Live, EmptyInv, Wakes, Building, HeardInv, WrittenInv, Turn
<1>5. HandleInv
  BY DEF HandleInv, Live, Building, TurnsIn
<1> QED
  BY <1>1, <1>2, <1>3, <1>4, <1>5 DEF IInv, BaseInv, CalmInv

LEMMA Inductive ==
  ASSUME IInv, [Next]_vars
  PROVE  IInv'
<1>1. TypeOK'
  <2>1. raced' \in BOOLEAN
    BY Zenon, NextSteps DEF IInv, BaseInv, TypeOK, vars, Next
  <2> QED
    BY <2>1, TypeStep DEF IInv, BaseInv
<1>2. KindInv' /\ EntInv' /\ BuildInv' /\ TakenInv' /\ SaverInv' /\ TurnInv' /\ LockInv'
  BY KindStep, EntStep, BuildStep, TakenStep, SaverStep, TurnStep, LockStep DEF IInv, BaseInv
<1>3. ASSUME ~ raced'
      PROVE  CalmInv'
  <2>1. CASE UNCHANGED vars
    <3>1. ~ raced /\ CalmInv
      BY <1>3, <2>1 DEF vars, IInv
    <3>2. Racing' = Racing
      BY <2>1 DEF vars, diskVars, entryVars, Racing, Busy, IsOpening
    <3> QED
      BY <3>1, <3>2, KnownStep, EmptyStep, HeardStep, WrittenStep, HandleStep
         DEF IInv, BaseInv, CalmInv
  <2>2. CASE Next
    <3>1. ~ raced /\ ~ Racing'
      BY <1>3, <2>2 DEF Next
    <3>2. CalmInv
      BY <3>1 DEF IInv
    <3> QED
      BY <3>1, <3>2, KnownStep, EmptyStep, HeardStep, WrittenStep, HandleStep
         DEF IInv, BaseInv, CalmInv
  <2> QED
    BY <2>1, <2>2
<1> QED
  BY <1>1, <1>2, <1>3 DEF IInv, BaseInv

\* The sessions of a server keep the inductive invariant, whoever races.
THEOREM Invariant == Spec => []IInv
<1>1. Init => IInv
  BY Initially
<1>2. IInv /\ [Next]_vars => IInv'
  BY Inductive
<1> QED
  BY <1>1, <1>2, PTL DEF Spec

\* removeSession, reapIdle and Run tear a session down once: no two of them the
\* same one, and no open session is left to nobody while no client has raced.
THEOREM OneTearsDown == Spec => []TornDownOnce
<1>1. IInv => TornDownOnce
  <2> SUFFICES ASSUME IInv PROVE TornDownOnce
    OBVIOUS
  <2>1. TakenOnce
    BY DEF IInv, BaseInv, TakenInv, Taken, TakenOnce
  <2>2. ASSUME ~ raced, NEW e \in Entry, Leaked(e)
        PROVE  FALSE
    <3>1. PICK a \in Actor : Taken(a) /\ ent[a] = e
      BY <2>2 DEF IInv, CalmInv, KnownInv, Live, Leaked
    <3>2. a \in Prompts => pc[a] \in {"close", "stop"}
      BY <3>1, Kinds DEF Taken
    <3>3. pc[a] \in {"save", "saving", "wait", "close", "stop"}
      BY <3>1 DEF Taken
    <3> QED
      BY <2>2, <3>1, <3>2, <3>3 DEF Leaked
  <2> QED
    BY <2>1, <2>2 DEF IInv, BaseInv, TornDownOnce, NoneLeaked
<1> QED
  BY <1>1, Invariant, PTL

\* rehydrateForPrompt looks again under its lock: while no client has raced, a
\* prompt tears down no session that another one woke.
THEOREM ReusesTheFirst == Spec => []RehydrateReplacesNothing
<1>1. IInv => RehydrateReplacesNothing
  BY DEF IInv, CalmInv, EmptyInv, RehydrateReplacesNothing
<1> QED
  BY <1>1, Invariant, PTL

\* openSession, SaveState, reapIdle and the store's forks: while no client has
\* raced, the turn of every prompt that was answered is in the transcript that
\* the session has, or that the next prompt will wake it with.
THEOREM AnsweredIsKept == Spec => []TurnsKept
<1>1. IInv => TurnsKept
  <2> SUFFICES ASSUME IInv, ~ raced PROVE kept \subseteq TurnsIn(Current)
    BY DEF TurnsKept
  <2>1. kept \subseteq TurnsIn(handle)
    BY DEF IInv, CalmInv, HandleInv
  <2>2. CASE table # None
    <3>1. table \in Entry /\ Live(table)
      BY <2>2 DEF IInv, BaseInv, TypeOK, TakenInv, Live
    <3>2. handle = Current
      BY <2>2, <3>1 DEF IInv, CalmInv, HandleInv, Current
    <3> QED
      BY <2>1, <3>2
  <2>3. CASE table = None
    <3>1. CASE handle \in onDisk
      BY <2>1, <2>3, <3>1 DEF Current, Resolved
    <3>2. CASE handle \notin onDisk
      <4>1. TurnsIn(handle) = {}
        BY <3>2 DEF TurnsIn, IInv, BaseInv, TypeOK, EntInv
      <4> QED
        BY <2>1, <4>1
    <3> QED
      BY <3>1, <3>2
  <2> QED
    BY <2>2, <2>3
<1> QED
  BY <1>1, Invariant, PTL

\* closeState under saveMu: while no client has raced, only a session that is
\* being opened binds a handle that was forgotten.
THEOREM LateSaveRevivesNothing == Spec => NoRevival
<1>1. IInv /\ [Next]_vars => (~ raced' => ~ Revived)
  <2> SUFFICES ASSUME IInv, [Next]_vars, ~ raced', Revived
               PROVE  FALSE
    OBVIOUS
  <2>1. handle = None /\ handle' # None
    BY DEF Revived
  <2>2. Next
    BY <2>1 DEF vars, diskVars
  <2>3. ~ raced
    BY <2>2 DEF Next
  <2>4. PICK a \in Actor : SaveBind(a)
    <3>1. handle' # handle
      BY <2>1
    <3> QED
      BY <2>1, <2>2, <3>1, NextSteps, Kinds DEF diskVars, Resolve, RemoveOld, OpenStore,
         OpenNew, Opened,
         Insert, TouchNew, Load, Lookup, Rehydrate, CanRehydrate, Touch, AwaitIdle, Submit,
         TurnEnds, Answer, Release, Forget, SaveLock, CloseState, Stop, Reap, ShutDown,
         ReaperStopped, Dies, GoesIdle, Hold
  <2>5. pc[a] = "saving" /\ ent[a] \in Entry
    BY <2>4 DEF SaveBind, At, IInv, BaseInv, TypeOK, EntInv
  <2>6. status[ent[a]] \in {"building", "open"}
    BY <2>5 DEF IInv, BaseInv, SaverInv
  <2>7. CASE status[ent[a]] = "building"
    BY <2>5, <2>7, Nones DEF IInv, BaseInv, BuildInv, Revived
  <2>8. CASE status[ent[a]] = "open"
    <3>1. handle = file[ent[a]]
      BY <2>3, <2>5, <2>8 DEF IInv, CalmInv, HandleInv, Live
    <3>2. handle' = file[ent[a]]
      BY <2>4 DEF SaveBind
    <3> QED
      BY <2>1, <3>1, <3>2
  <2> QED
    BY <2>6, <2>7, <2>8
<1> QED
  BY <1>1, Invariant, PTL DEF Spec, NoRevival

=============================================================================

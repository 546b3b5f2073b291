-------------------------- MODULE McpManagerProofs --------------------------
(***************************************************************************)
(* Proofs that McpManager strands no session and no loop, installs nothing *)
(* once it is closed, dials with the configuration the server has, and     *)
(* keeps the agent's tools those of the installed session, for any number  *)
(* of sessions, channels, loops, callers and configurations.               *)
(***************************************************************************)
EXTENDS McpManager, TLAPS

-----------------------------------------------------------------------------
(* The inductive invariant. *)

Opener == Dialer \ Loop              \* Start's goroutine, Reload and LoginServer
Opening == {"dial", "install", "closeReady", "startLoop"}
Starting == Opening \cup {"started", "failed"}

\* Which steps a goroutine of each kind can be at.
KindInv ==
  /\ pc[Starter] \in Starting \cup {"idle", "tell", "fail", "drop", "tellFailed"}
  /\ \A l \in Loop : pc[l] \in {"none", "top", "look", "wait", "ended", "tellEnd", "tellStale",
                                "tell", "retry", "redial", "dial", "install", "failed",
                                "closeReady"}
  /\ \A r \in Reloader : pc[r] \in Starting \cup {"idle", "clear", "close", "update", "tell"}
  /\ \A p \in Login : pc[p] \in Starting \cup {"idle", "login"}
  /\ \A t \in Lister : pc[t] \in {"idle", "check", "list", "store", "tell"}
  /\ \A k \in Caller : pc[k] \in {"idle", "slow", "waiting"}
  /\ pc[Closer] \in {"idle", "snapshot", "close", "join", "ended"}

\* What a goroutine holds at a step: a session, a channel to close.
HoldInv ==
  /\ \A g \in Dialer : pc[g] \in {"install", "wait", "ended", "clear"} => mine[g] # None
  /\ \A r \in Reloader : pc[r] = "close" => mine[r] # None
  /\ \A g \in Dialer \cup {Closer} :
       mine[g] # None => pc[g] \in {"install", "wait", "ended", "clear", "close", "drop"}
  /\ \A g \in Dialer : pc[g] = "closeReady" => chan[g] # None
  /\ \A l \in Loop : pc[l] = "ended" => conn[mine[l]] = "closed"

\* What the entry of a closed manager, or of no server, has not.
EntryInv ==
  /\ done <=> pc[Closer] # "idle"
  /\ ~ Configured => entry.session = None /\ entry.loop = None /\ ~ entry.connecting

\* Somebody has news for the agent; a login that fails has none.
Settled(g) == Told(g) \/ (g \in Login /\ pc[g] \in {"dial", "install", "failed"})
NewsInv ==
  ~ done /\ ~ panicked /\ (\A g \in Goroutine : Settled(g)) => advertised = Offered

BaseInv ==
  TypeOK /\ KindInv /\ HoldInv /\ EntryInv /\ NothingInstalledAfterClose /\ ToolsOfTheSession
  /\ NewsInv

\* reloadMu and the entry's connecting keep those who open the server apart.
ApartInv ==
  /\ \A r \in Reloader : pc[r] # "idle" <=> reloadMu = r
  /\ \A p \in Login : pc[p] \notin {"idle", "login"} <=> reloadMu = p
  /\ entry.connecting <=> pc[Starter] \in Starting
  /\ pc[Starter] \in Starting => reloadMu = None
  /\ pc[Starter] # "idle" => \A r \in Reloader : pc[r] = "idle"

\* Who opens the server finds no loop, and no session where its own will be.
ClearInv ==
  /\ \A g \in Opener :
       pc[g] \in Opening \cup {"clear", "close", "update"} => entry.loop = None
  /\ \A g \in Opener :
       pc[g] \in {"close", "update", "dial", "install"} => entry.session = None
  /\ \A r \in Reloader : pc[r] = "clear" => entry.session \in {None, mine[r]}

\* The loop that was not told to stop has the entry to itself.
LoopInv ==
  /\ LoopIsKnown
  /\ \A l \in Loop \ cancelled :
       /\ pc[l] \in {"wait", "ended"} => entry.session \in {None, mine[l]}
       /\ pc[l] \in {"tellEnd", "tellStale", "retry", "redial", "dial", "install", "failed"} =>
            entry.session = None

OwnInv == ApartInv /\ ClearInv /\ LoopInv /\ NoSessionStranded

\* No configuration is read for a login that Reload could change meanwhile.
Steady == Login = {} \/ Reloader = {}

\* Who may still install a session has dialled with the entry's configuration.
ConfigInv ==
  /\ \A g \in Dialer \ cancelled :
       /\ pc[g] = "dial" => cfg[g] = entry.config
       /\ pc[g] = "install" => dialled[mine[g]] = entry.config
  /\ \A p \in Login : pc[p] = "login" => cfg[p] = entry.config
  /\ SessionHasItsConfig

IInv ==
  /\ BaseInv
  /\ Patient => OwnInv
  /\ Patient /\ Steady => ConfigInv

-----------------------------------------------------------------------------
(* The goroutines and their steps. *)

\* A goroutine is of one kind, and none is None.
LEMMA Kinds ==
  /\ Starter \in Opener /\ Reloader \subseteq Opener /\ Login \subseteq Opener
  /\ Opener \subseteq Dialer /\ Loop \subseteq Dialer /\ Opener \cap Loop = {}
  /\ Opener = {Starter} \cup Reloader \cup Login
  /\ Starter \notin Reloader \cup Login \cup Lister \cup Caller /\ Reloader \cap Login = {}
  /\ Closer \notin Dialer \cup Lister \cup Caller /\ Closer # Starter
  /\ Lister \cap (Dialer \cup Caller) = {} /\ Caller \cap Dialer = {}
  /\ Dialer \subseteq Goroutine /\ Lister \subseteq Goroutine /\ Caller \subseteq Goroutine
  /\ Starter \in Goroutine /\ Closer \in Goroutine
  /\ Goroutine = Dialer \cup {Closer} \cup Lister \cup Caller
BY McpAssumption DEF Opener, Dialer, Goroutine

LEMMA Nones ==
  None \notin Config \cup Session \cup Loop \cup Chan \cup Goroutine
BY McpAssumption

\* The steps, each with the goroutines that can take it.
LEMMA Steps ==
  ASSUME KindInv, Next
  PROVE
         \/ \E g \in Dialer : DialOk(g) \/ DialFails(g) \/ InstallSession(g) \/ CloseReady(g)
         \/ \E g \in Opener : StartLoop(g)
         \/ StartOver \/ StartFails \/ StartDrops \/ StartTells
         \/ \E l \in Loop : LoopChecks(l) \/ LoopLooks(l) \/ SessionEnds(l)
                            \/ HandleSessionEnd(l) \/ LoopTells(l) \/ Retry(l) \/ RetryFailed(l)
         \/ \E r \in Reloader : BeginReload(r) \/ ReloadClears(r) \/ ReloadCloses(r)
                                \/ ReloadUpdates(r) \/ ReloadStarted(r) \/ ReloadTells(r)
         \/ \E p \in Login : BeginLogin(p) \/ FinishLogin(p) \/ LoginEnds(p)
         \/ \E t \in Lister : ToolsChange(t) \/ ListerChecks(t) \/ ListerLists(t)
                              \/ ListerStores(t) \/ ListerTells(t)
         \/ \E k \in Caller : CallSlow(k) \/ CallSnapshots(k) \/ CallWakes(k) \/ CallTimesOut(k)
         \/ BeginClose \/ CloseSnapshots \/ CloseCloses \/ CloseJoins \/ SessionDies
<1>1. \A g \in Goroutine : InstallSession(g) \/ CloseReady(g) => g \in Dialer
  BY Kinds DEF KindInv, InstallSession, CloseReady
<1>2. \A g \in Goroutine : StartLoop(g) => g \in Opener
  <2>1. \A g \in Loop \cup Lister \cup Caller \cup {Closer} : pc[g] # "startLoop"
    BY DEF KindInv
  <2> QED
    BY <2>1, Kinds DEF StartLoop, Goroutine, Dialer
<1>3. CASE \E g \in Goroutine : Run(g)
  BY <1>1, <1>2, <1>3, Kinds DEF Run
<1>4. CASE \E g \in Dialer : Answers(g)
  BY <1>4 DEF Answers
<1>5. CASE Begin
  BY <1>5 DEF Begin
<1> QED
  BY <1>3, <1>4, <1>5 DEF Next

\* A new entry is an entry.
LEMMA NewTyped ==
  ASSUME NEW c \in Config \cup {None}, NEW h \in Chan
  PROVE  NewEntry(c, h) \in EntryType
BY DEF NewEntry, EntryType

\* The steps keep the types.
LEMMA TypeStep ==
  ASSUME KindInv, HoldInv, TypeOK, [Next]_vars
  PROVE  TypeOK'
<1> USE DEF TypeOK, EntryType, PC, Goto, CloseConn, LetGo, GiveUp, CallReturns, entryVars,
   liveVars, localVars, outVars
<1>1. ASSUME NEW g \in Dialer, DialOk(g) PROVE TypeOK'
  BY <1>1, Kinds, Nones DEF DialOk, Unused
<1>2. ASSUME NEW g \in Dialer, DialFails(g) PROVE TypeOK'
  BY <1>2, Kinds, Nones DEF DialFails
<1>3. ASSUME NEW g \in Dialer, InstallSession(g) PROVE TypeOK'
  <2>1. g \in Goroutine
    BY Kinds
  <2>2. mine' \in [Goroutine -> Session \cup {None}] /\ saw' \in [Goroutine -> BOOLEAN]
    BY <1>3, <2>1 DEF InstallSession
  <2>3. CASE Installed(g)
    <3>1. PICK h \in Chan :
            /\ OpenReady(h)
            /\ entry' = [entry EXCEPT !.session = mine[g], !.tools = mine[g],
                                      !.fresh = saw[g], !.err = FALSE, !.ready = h]
            /\ chan' = [chan EXCEPT ![g] = h]
      BY <2>3 DEF Installed
    <3>2. entry' \in EntryType
      <4>1. mine[g] \in Session \cup {None} /\ saw[g] \in BOOLEAN
        BY <2>1
      <4> QED
        BY <3>1, <4>1
    <3>3. shut' \subseteq Chan /\ chan' \in [Goroutine -> Chan \cup {None}]
      BY <2>1, <3>1 DEF OpenReady
    <3>4. pc' \in [Goroutine -> PC] /\ UNCHANGED conn
      BY <2>1, <2>3 DEF Installed
    <3> QED
      BY <1>3, <2>2, <3>2, <3>3, <3>4 DEF InstallSession
  <2>4. CASE Refused(g)
    <3>1. pc' = [pc EXCEPT ![g] = "retry"] \/ pc' = [pc EXCEPT ![g] = "failed"]
      BY <2>4 DEF Refused
    <3>2. pc' \in [Goroutine -> PC]
      BY <2>1, <3>1
    <3>3. conn' \in [Session -> {"live", "dead", "closed"}] /\ UNCHANGED <<entry, shut, chan>>
      BY <2>1, <2>4 DEF Refused
    <3> QED
      BY <1>3, <2>2, <3>2, <3>3 DEF InstallSession
  <2> QED
    BY <1>3, <2>3, <2>4 DEF InstallSession
<1>4. ASSUME NEW g \in Dialer, CloseReady(g) PROVE TypeOK'
  BY <1>4, Kinds, Nones DEF CloseReady, HoldInv
<1>5. ASSUME NEW g \in Opener, StartLoop(g) PROVE TypeOK'
  BY <1>5, Kinds, Nones DEF StartLoop, Running, Configured
<1>6. CASE StartOver
  <2>1. Starter \in Goroutine
    BY Kinds
  <2>2. entry' \in EntryType
    BY <1>6, <2>1 DEF StartOver, Configured
  <2>3. pc' \in [Goroutine -> PC]
    BY <1>6, <2>1 DEF StartOver, Configured
  <2> QED
    BY <1>6, <2>1, <2>2, <2>3 DEF StartOver, Configured
<1>7. CASE StartFails
  <2>1. Starter \in Goroutine
    BY Kinds
  <2>2. entry' \in EntryType
    <3>1. \/ entry' = [entry EXCEPT !.err = TRUE]
          \/ entry' = [entry EXCEPT !.err = TRUE, !.session = None, !.tools = None]
          \/ entry' = entry
      BY <1>7 DEF StartFails
    <3>2. CASE entry' = [entry EXCEPT !.err = TRUE]
      BY <3>2
    <3>3. CASE entry' = [entry EXCEPT !.err = TRUE, !.session = None, !.tools = None]
      BY <3>3
    <3>4. CASE entry' = entry
      BY <3>4
    <3> QED
      BY <3>1, <3>2, <3>3, <3>4
  <2>3. pc' \in [Goroutine -> PC]
    BY <1>7, <2>1 DEF StartFails, Configured
  <2>4. mine' \in [Goroutine -> Session \cup {None}]
    BY <1>7, <2>1 DEF StartFails, Configured
  <2> QED
    BY <1>7, <2>1, <2>2, <2>3, <2>4 DEF StartFails, Configured
<1>8. CASE StartDrops
  BY <1>8, Kinds, Nones DEF StartDrops
<1>9. CASE StartTells
  BY <1>9, Kinds, Nones DEF StartTells, Advertise, Offered, Configured
<1>10. ASSUME NEW l \in Loop, LoopChecks(l) PROVE TypeOK'
  BY <1>10, Kinds, Nones DEF LoopChecks, Retired, LoopExits, Configured
<1>11. ASSUME NEW l \in Loop, LoopLooks(l) PROVE TypeOK'
  BY <1>11, Kinds, Nones DEF LoopLooks
<1>12. ASSUME NEW l \in Loop, SessionEnds(l) PROVE TypeOK'
  <2>1. l \in Goroutine
    BY Kinds
  <2>2. conn' \in [Session -> {"live", "dead", "closed"}]
    BY <1>12, <2>1 DEF SessionEnds
  <2>3. pc' \in [Goroutine -> PC]
    BY <1>12, <2>1 DEF SessionEnds
  <2> QED
    BY <1>12, <2>1, <2>2, <2>3 DEF SessionEnds
<1>13. ASSUME NEW l \in Loop, HandleSessionEnd(l) PROVE TypeOK'
  <2>1. l \in Goroutine
    BY Kinds
  <2>2. entry' \in EntryType /\ shut' \subseteq Chan
    BY <1>13, <2>1 DEF HandleSessionEnd, Configured
  <2>3. pc' \in [Goroutine -> PC]
    BY <1>13, <2>1 DEF HandleSessionEnd, Configured
  <2>4. mine' \in [Goroutine -> Session \cup {None}]
    BY <1>13, <2>1 DEF HandleSessionEnd, Configured
  <2> QED
    BY <1>13, <2>1, <2>2, <2>3, <2>4 DEF HandleSessionEnd, Configured
<1>14. ASSUME NEW l \in Loop, LoopTells(l) PROVE TypeOK'
  BY <1>14, Kinds, Nones DEF LoopTells, Advertise, Offered, Configured
<1>15. ASSUME NEW l \in Loop, Retry(l) PROVE TypeOK'
  BY <1>15, Kinds, Nones DEF Retry
<1>16. ASSUME NEW l \in Loop, RetryFailed(l) PROVE TypeOK'
  BY <1>16, Kinds, Nones DEF RetryFailed, Configured
<1>17. ASSUME NEW r \in Reloader, BeginReload(r) PROVE TypeOK'
  BY <1>17, Kinds, Nones DEF BeginReload, Running, Configured
<1>18. ASSUME NEW r \in Reloader, ReloadClears(r) PROVE TypeOK'
  <2>1. r \in Goroutine
    BY Kinds
  <2>2. entry' \in EntryType
    <3>1. CASE UNCHANGED entry
      BY <3>1
    <3>2. ASSUME NEW h \in Chan,
                 entry' = [entry EXCEPT !.session = None, !.tools = None, !.err = FALSE, !.ready = h]
          PROVE  entry' \in EntryType
      BY <3>2
    <3> QED
      BY <1>18, <3>1, <3>2 DEF ReloadClears
  <2>3. shut' \subseteq Chan
    BY <1>18, <2>1 DEF ReloadClears, Configured, OpenReady
  <2>4. pc' \in [Goroutine -> PC]
    BY <1>18, <2>1 DEF ReloadClears, Configured, OpenReady
  <2> QED
    BY <1>18, <2>1, <2>2, <2>3, <2>4 DEF ReloadClears, Configured, OpenReady
<1>19. ASSUME NEW r \in Reloader, ReloadCloses(r) PROVE TypeOK'
  <2>1. r \in Goroutine
    BY Kinds
  <2>2. conn' \in [Session -> {"live", "dead", "closed"}]
    BY <1>19, <2>1 DEF ReloadCloses
  <2>3. pc' \in [Goroutine -> PC]
    BY <1>19, <2>1 DEF ReloadCloses
  <2>4. mine' \in [Goroutine -> Session \cup {None}]
    BY <1>19, <2>1 DEF ReloadCloses
  <2> QED
    BY <1>19, <2>1, <2>2, <2>3, <2>4 DEF ReloadCloses
<1>20. ASSUME NEW r \in Reloader, ReloadUpdates(r) PROVE TypeOK'
  <2>1. r \in Goroutine
    BY Kinds
  <2>2. entry' \in EntryType
    <3>1. cfg[r] \in Config \cup {None}
      BY <2>1
    <3>2. CASE entry' = [entry EXCEPT !.config = cfg[r]]
      BY <3>1, <3>2
    <3>3. ASSUME NEW h \in Chan, NEW c \in Config \cup {None}, entry' = NewEntry(c, h)
          PROVE  entry' \in EntryType
      BY <3>3, NewTyped
    <3>4. entry.ready \in Chan
      OBVIOUS
    <3> QED
      BY <1>20, <3>1, <3>2, <3>3, <3>4 DEF ReloadUpdates
  <2>3. shut' \subseteq Chan
    BY <1>20, <2>1 DEF ReloadUpdates, NewEntry, Configured
  <2>4. pc' \in [Goroutine -> PC]
    BY <1>20, <2>1 DEF ReloadUpdates, NewEntry, Configured
  <2> QED
    BY <1>20, <2>1, <2>2, <2>3, <2>4 DEF ReloadUpdates, NewEntry, Configured
<1>21. ASSUME NEW r \in Reloader, ReloadStarted(r) PROVE TypeOK'
  BY <1>21, Kinds, Nones DEF ReloadStarted, Configured
<1>22. ASSUME NEW r \in Reloader, ReloadTells(r) PROVE TypeOK'
  BY <1>22, Kinds, Nones DEF ReloadTells, Advertise, Offered, Configured
<1>23. ASSUME NEW p \in Login, BeginLogin(p) PROVE TypeOK'
  BY <1>23, Kinds, Nones DEF BeginLogin, Configured
<1>24. ASSUME NEW p \in Login, FinishLogin(p) PROVE TypeOK'
  BY <1>24, Kinds, Nones DEF FinishLogin
<1>25. ASSUME NEW p \in Login, LoginEnds(p) PROVE TypeOK'
  BY <1>25, Kinds, Nones DEF LoginEnds, Advertise, Offered, Configured
<1>26. ASSUME NEW t \in Lister, ToolsChange(t) PROVE TypeOK'
  <2>1. t \in Goroutine
    BY Kinds
  <2>2. entry' \in EntryType
    BY <1>26, <2>1 DEF ToolsChange
  <2>3. pc' \in [Goroutine -> PC]
    BY <1>26, <2>1 DEF ToolsChange
  <2>4. mine' \in [Goroutine -> Session \cup {None}]
    BY <1>26, <2>1 DEF ToolsChange
  <2>5. saw' \in [Goroutine -> BOOLEAN]
    BY <1>26, <2>1 DEF ToolsChange
  <2> QED
    BY <1>26, <2>1, <2>2, <2>3, <2>4, <2>5 DEF ToolsChange
<1>27. ASSUME NEW t \in Lister, ListerChecks(t) PROVE TypeOK'
  <2>1. t \in Goroutine
    BY Kinds
  <2>2. mine' \in [Goroutine -> Session \cup {None}]
    BY <1>27, <2>1 DEF ListerChecks
  <2>3. pc' \in [Goroutine -> PC]
    BY <1>27, <2>1 DEF ListerChecks
  <2>4. saw' \in [Goroutine -> BOOLEAN]
    BY <1>27, <2>1 DEF ListerChecks
  <2> QED
    BY <1>27, <2>1, <2>2, <2>3, <2>4 DEF ListerChecks
<1>28. ASSUME NEW t \in Lister, ListerLists(t) PROVE TypeOK'
  <2>1. t \in Goroutine
    BY Kinds
  <2>2. mine' \in [Goroutine -> Session \cup {None}]
    BY <1>28, <2>1 DEF ListerLists
  <2>3. pc' \in [Goroutine -> PC]
    BY <1>28, <2>1 DEF ListerLists
  <2>4. saw' \in [Goroutine -> BOOLEAN]
    BY <1>28, <2>1 DEF ListerLists
  <2> QED
    BY <1>28, <2>1, <2>2, <2>3, <2>4 DEF ListerLists
<1>29. ASSUME NEW t \in Lister, ListerStores(t) PROVE TypeOK'
  BY <1>29, Kinds, Nones DEF ListerStores, Configured
<1>30. ASSUME NEW t \in Lister, ListerTells(t) PROVE TypeOK'
  BY <1>30, Kinds, Nones DEF ListerTells, Advertise, Offered, Configured
<1>31. ASSUME NEW k \in Caller, CallSlow(k) PROVE TypeOK'
  BY <1>31, Kinds, Nones DEF CallSlow
<1>32. ASSUME NEW k \in Caller, CallSnapshots(k) PROVE TypeOK'
  BY <1>32, Kinds, Nones DEF CallSnapshots, Configured
<1>33. ASSUME NEW k \in Caller, CallWakes(k) PROVE TypeOK'
  BY <1>33, Kinds, Nones DEF CallWakes
<1>34. ASSUME NEW k \in Caller, CallTimesOut(k) PROVE TypeOK'
  BY <1>34, Kinds, Nones DEF CallTimesOut
<1>35. CASE BeginClose
  BY <1>35, Kinds, Nones DEF BeginClose
<1>36. CASE CloseSnapshots
  <2>1. Closer \in Goroutine
    BY Kinds
  <2>2. entry' \in EntryType /\ shut' \subseteq Chan
    BY <1>36, <2>1 DEF CloseSnapshots, Running, Configured
  <2>3. pc' \in [Goroutine -> PC]
    BY <1>36, <2>1 DEF CloseSnapshots, Running, Configured
  <2>4. mine' \in [Goroutine -> Session \cup {None}]
    BY <1>36, <2>1 DEF CloseSnapshots, Running, Configured
  <2>5. cancelled' \subseteq Loop
    BY <1>36, <2>1 DEF CloseSnapshots, Running, Configured
  <2> QED
    BY <1>36, <2>1, <2>2, <2>3, <2>4, <2>5 DEF CloseSnapshots, Running, Configured
<1>37. CASE CloseCloses
  BY <1>37, Kinds, Nones DEF CloseCloses
<1>38. CASE CloseJoins
  BY <1>38, Kinds, Nones DEF CloseJoins
<1>39. CASE SessionDies
  BY <1>39, Kinds, Nones DEF SessionDies
<1>40. CASE UNCHANGED vars
  BY <1>40 DEF vars
<1> QED
    BY <1>1, <1>2, <1>3, <1>4, <1>5, <1>6, <1>7, <1>8, <1>9, <1>10, <1>11, <1>12, <1>13, <1>14,
     <1>15, <1>16, <1>17, <1>18, <1>19, <1>20, <1>21, <1>22, <1>23, <1>24, <1>25, <1>26, <1>27,
     <1>28, <1>29, <1>30, <1>31, <1>32, <1>33, <1>34, <1>35, <1>36, <1>37, <1>38, <1>39, <1>40,
     Steps

-----------------------------------------------------------------------------
(* What the steps with the most to them come to. *)

\* What the others look at in an entry.
Kept(e, f) == e.config = f.config /\ e.loop = f.loop /\ e.connecting = f.connecting

\* installSession: the session is the entry's, or it is closed.
LEMMA Installing ==
  ASSUME TypeOK, NEW g \in Goroutine, InstallSession(g)
  PROVE  /\ pc[g] = "install" /\ mine' = [mine EXCEPT ![g] = None]
         /\ UNCHANGED <<dialled, done, cancelled, panicked, reloadMu, cfg, advertised>>
         /\ \/ /\ Configured /\ ~ done /\ g \notin cancelled
               /\ pc' = [pc EXCEPT ![g] = "closeReady"]
               /\ chan'[g] \in Chan /\ \A k \in Goroutine \ {g} : chan'[k] = chan[k]
               /\ Kept(entry', entry)
               /\ entry'.session = mine[g] /\ entry'.tools = mine[g]
               /\ UNCHANGED conn
            \/ /\ pc' = [pc EXCEPT ![g] = IF g \in Loop THEN "retry" ELSE "failed"]
               /\ conn' = [conn EXCEPT ![mine[g]] = "closed"]
               /\ UNCHANGED <<entry, chan>>
<1>1. CASE Refused(g)
  BY <1>1 DEF InstallSession, Refused, Goto, CloseConn, LetGo, outVars
<1>2. CASE Installed(g) /\ Configured /\ ~ done /\ g \notin cancelled
  <2>1. PICK h \in Chan :
          /\ entry' = [entry EXCEPT !.session = mine[g], !.tools = mine[g],
                                    !.fresh = saw[g], !.err = FALSE, !.ready = h]
          /\ chan' = [chan EXCEPT ![g] = h]
    BY <1>2 DEF Installed
  <2>2. Kept(entry', entry) /\ entry'.session = mine[g] /\ entry'.tools = mine[g]
    BY <2>1 DEF Kept, TypeOK, EntryType
  <2>3. chan'[g] \in Chan /\ \A k \in Goroutine \ {g} : chan'[k] = chan[k]
    BY <2>1 DEF TypeOK
  <2> QED
    BY <1>2, <2>2, <2>3 DEF InstallSession, Installed, Goto, LetGo, outVars
<1> QED
  BY <1>1, <1>2 DEF InstallSession

\* handleSessionEnd: the entry has the session no more.
LEMMA Ending ==
  ASSUME TypeOK, NEW l \in Loop, HandleSessionEnd(l)
  PROVE  /\ pc[l] = "ended" /\ mine' = [mine EXCEPT ![l] = None]
         /\ pc' = [pc EXCEPT ![l] = "tellEnd"] \/ pc' = [pc EXCEPT ![l] = "tellStale"]
         /\ UNCHANGED <<dialled, done, conn, cancelled, panicked, reloadMu, chan, cfg, advertised>>
         /\ Kept(entry', entry)
         /\ \/ (entry.session # mine[l] \/ ~ Configured) /\ UNCHANGED entry
            \/ entry.session = mine[l] /\ entry'.session = None /\ entry'.tools = None
<1>1. CASE Configured /\ entry.session = mine[l]
  <2>1. PICK h \in Chan, bad \in BOOLEAN :
          entry' = [entry EXCEPT !.session = None, !.tools = None, !.ready = h, !.err = bad]
    BY <1>1 DEF HandleSessionEnd
  <2>2. Kept(entry', entry) /\ entry'.session = None /\ entry'.tools = None
    BY <2>1 DEF Kept, TypeOK, EntryType
  <2> QED
    BY <1>1, <2>2 DEF HandleSessionEnd, Goto, LetGo, outVars
<1>2. CASE ~ (Configured /\ entry.session = mine[l])
  BY <1>2 DEF HandleSessionEnd, Goto, LetGo, outVars, Kept
<1> QED
  BY <1>1, <1>2

\* Start's error path takes the session that there is.
LEMMA Failing ==
  ASSUME TypeOK, StartFails
  PROVE  /\ pc[Starter] = "fail" /\ pc' = [pc EXCEPT ![Starter] = "drop"]
         /\ UNCHANGED <<dialled, done, conn, cancelled, panicked, reloadMu, chan, cfg, advertised>>
         /\ Kept(entry', entry)
         /\ \/ ~ Configured /\ UNCHANGED <<entry, mine>>
            \/ entry'.session = None /\ mine' = [mine EXCEPT ![Starter] = entry.session]
<1>1. CASE ~ Configured
  BY <1>1 DEF StartFails, Goto, Kept, liveVars, outVars
<1>2. CASE Configured /\ entry.session = None
  <2>1. entry' = [entry EXCEPT !.err = TRUE]
    BY <1>2 DEF StartFails
  <2>2. Kept(entry', entry) /\ entry'.session = None
    BY <1>2, <2>1 DEF Kept, TypeOK, EntryType
  <2> QED
    BY <1>2, <2>2 DEF StartFails, Goto, liveVars, outVars
<1>3. CASE Configured /\ entry.session # None
  <2>1. entry' = [entry EXCEPT !.err = TRUE, !.session = None, !.tools = None]
    BY <1>3 DEF StartFails
  <2>2. Kept(entry', entry) /\ entry'.session = None
    BY <2>1 DEF Kept, TypeOK, EntryType
  <2> QED
    BY <1>3, <2>2 DEF StartFails, Goto, liveVars, outVars
<1> QED
  BY <1>1, <1>2, <1>3

\* Reload's "Clear state before closing".
LEMMA Clearing ==
  ASSUME TypeOK, NEW r \in Reloader, ReloadClears(r)
  PROVE  /\ pc[r] = "clear" /\ pc' = [pc EXCEPT ![r] = "close"]
         /\ UNCHANGED <<dialled, done, conn, cancelled, panicked, reloadMu, mine, chan, cfg,
                        advertised>>
         /\ Kept(entry', entry)
         /\ (~ Configured /\ UNCHANGED entry) \/ entry'.session = None
<1>1. CASE ~ Configured
  BY <1>1 DEF ReloadClears, Goto, Kept, localVars, outVars
<1>2. CASE Configured
  <2>1. PICK h \in Chan :
          entry' = [entry EXCEPT !.session = None, !.tools = None, !.err = FALSE, !.ready = h]
    BY <1>2 DEF ReloadClears
  <2>2. Kept(entry', entry) /\ entry'.session = None
    BY <2>1 DEF Kept, TypeOK, EntryType
  <2> QED
    BY <2>2 DEF ReloadClears, Goto, localVars, outVars
<1> QED
  BY <1>1, <1>2

\* Close takes the loop and the session out of the entry.
LEMMA Snapshot ==
  ASSUME TypeOK, CloseSnapshots
  PROVE  /\ pc[Closer] = "snapshot" /\ pc' = [pc EXCEPT ![Closer] = "close"]
         /\ UNCHANGED <<dialled, done, conn, panicked, reloadMu, chan, cfg, advertised>>
         /\ entry'.config = entry.config /\ entry'.connecting = entry.connecting
         /\ \/ ~ Configured /\ UNCHANGED <<entry, cancelled, mine>>
            \/ /\ entry'.session = None /\ entry'.loop = None
               /\ cancelled' = cancelled \cup Running(entry.loop)
               /\ mine' = [mine EXCEPT ![Closer] = entry.session]
<1>1. CASE ~ Configured
  BY <1>1 DEF CloseSnapshots, Goto, outVars
<1>2. CASE Configured
  <2>1. entry' = [entry EXCEPT !.loop = None, !.session = None]
    BY <1>2 DEF CloseSnapshots
  <2>2. /\ entry'.config = entry.config /\ entry'.connecting = entry.connecting
        /\ entry'.session = None /\ entry'.loop = None
    BY <2>1 DEF TypeOK, EntryType
  <2> QED
    BY <1>2, <2>2 DEF CloseSnapshots, Goto, outVars
<1> QED
  BY <1>1, <1>2

\* Reload's decision: the server's loop is cancelled, or left alone.
LEMMA Deciding ==
  ASSUME TypeOK, NEW r \in Reloader, BeginReload(r)
  PROVE  /\ pc[r] = "idle" /\ reloadMu = None /\ reloadMu' = r
         /\ Patient => pc[Starter] = "idle"
         /\ UNCHANGED <<dialled, done, conn, panicked, chan, advertised>>
         /\ \A g \in Goroutine \ {r} : cfg'[g] = cfg[g]
         /\ entry'.config = entry.config /\ entry'.connecting = entry.connecting
         /\ entry'.session = entry.session
         /\ \/ /\ entry'.loop = None
               /\ cancelled' = cancelled \cup Running(entry.loop)
               /\ mine' = [mine EXCEPT ![r] = entry.session]
               /\ pc' = [pc EXCEPT ![r] = IF entry.session = None THEN "update" ELSE "clear"]
            \/ ~ Configured /\ UNCHANGED <<entry, cancelled, mine>>
               /\ pc' = [pc EXCEPT ![r] = "update"]
            \/ UNCHANGED <<entry, cancelled, mine>> /\ pc' = [pc EXCEPT ![r] = "tell"]
<1>1. PICK c \in Config \cup {None} :
        LET healthy == entry.connecting \/ (entry.session # None /\ ~entry.err) IN
        /\ cfg' = [cfg EXCEPT ![r] = c]
        /\ IF Configured /\ ~(c = entry.config /\ healthy)
             THEN /\ entry' = [entry EXCEPT !.loop = None]
                  /\ cancelled' = cancelled \cup Running(entry.loop)
                  /\ mine' = [mine EXCEPT ![r] = entry.session]
                  /\ Goto(r, IF entry.session = None THEN "update" ELSE "clear")
             ELSE /\ Goto(r, IF Configured THEN "tell" ELSE "update")
                  /\ UNCHANGED <<entry, cancelled, mine>>
  BY DEF BeginReload
<1>2. \A g \in Goroutine \ {r} : cfg'[g] = cfg[g]
  BY <1>1 DEF TypeOK
<1>3. CASE pc'[r] = "tell" \/ ~ Configured
  BY <1>1, <1>2, <1>3, Kinds DEF BeginReload, Goto, outVars, TypeOK
<1>4. CASE pc'[r] # "tell" /\ Configured
  <2>1. entry' = [entry EXCEPT !.loop = None]
    BY <1>1, <1>4, Kinds DEF Goto, TypeOK
  <2>2. /\ entry'.config = entry.config /\ entry'.connecting = entry.connecting
        /\ entry'.session = entry.session /\ entry'.loop = None
    BY <2>1 DEF TypeOK, EntryType
  <2> QED
    BY <1>1, <1>2, <1>4, <2>2, Kinds DEF BeginReload, Goto, outVars, TypeOK
<1> QED
  BY <1>1, <1>3, <1>4

\* Reload deletes the entry, makes it, or gives it its configuration.
LEMMA Updating ==
  ASSUME TypeOK, NEW r \in Reloader, ReloadUpdates(r)
  PROVE  /\ pc[r] = "update"
         /\ pc' = [pc EXCEPT ![r] = IF cfg[r] \in Disabled \cup {None} THEN "tell" ELSE "dial"]
         /\ UNCHANGED <<dialled, done, conn, cancelled, panicked, reloadMu, mine, chan, cfg,
                        advertised>>
         /\ entry'.config = cfg[r]
         /\ \/ entry'.session = None
            \/ entry'.session = entry.session /\ entry'.loop = entry.loop
<1>1. CASE entry' = [entry EXCEPT !.config = cfg[r]]
  <2>1. /\ entry'.config = cfg[r]
        /\ entry'.session = entry.session /\ entry'.loop = entry.loop
    BY <1>1 DEF TypeOK, EntryType
  <2> QED
    BY <2>1 DEF ReloadUpdates, Goto, localVars, outVars
<1>2. CASE \E h \in Chan : entry' = NewEntry(cfg[r], h)
  <2>1. entry'.config = cfg[r] /\ entry'.session = None
    BY <1>2 DEF NewEntry
  <2> QED
    BY <2>1 DEF ReloadUpdates, Goto, localVars, outVars
<1>3. entry.ready \in Chan
  BY DEF TypeOK, EntryType
<1> QED
  BY <1>1, <1>2, <1>3 DEF ReloadUpdates

\* The steps keep a goroutine to the steps of its kind.
LEMMA KindStep ==
  ASSUME TypeOK, KindInv, [Next]_vars
  PROVE  KindInv'
<1> USE DEF TypeOK, KindInv, Starting, Opening, Goto, CloseConn, LetGo, GiveUp, CallReturns,
   entryVars, liveVars, localVars, outVars
<1>1. ASSUME NEW g \in Dialer, DialOk(g) PROVE KindInv'
  BY <1>1, Kinds DEF DialOk, Unused
<1>2. ASSUME NEW g \in Dialer, DialFails(g) PROVE KindInv'
  BY <1>2, Kinds DEF DialFails
<1>3. ASSUME NEW g \in Dialer, InstallSession(g) PROVE KindInv'
  <2>1. g \in Goroutine
    BY Kinds
  <2> QED
    BY <1>3, <2>1, Installing, Kinds, Nones
<1>4. ASSUME NEW g \in Dialer, CloseReady(g) PROVE KindInv'
  BY <1>4, Kinds DEF CloseReady
<1>5. ASSUME NEW g \in Opener, StartLoop(g) PROVE KindInv'
  BY <1>5, Kinds DEF StartLoop, Running, Configured
<1>6. CASE StartOver
  BY <1>6, Kinds DEF StartOver, Configured
<1>7. CASE StartFails
  BY <1>7, Kinds DEF StartFails, Configured
<1>8. CASE StartDrops
  BY <1>8, Kinds DEF StartDrops
<1>9. CASE StartTells
  BY <1>9, Kinds DEF StartTells, Advertise, Offered, Configured
<1>10. ASSUME NEW l \in Loop, LoopChecks(l) PROVE KindInv'
  BY <1>10, Kinds DEF LoopChecks, Retired, LoopExits, Configured
<1>11. ASSUME NEW l \in Loop, LoopLooks(l) PROVE KindInv'
  BY <1>11, Kinds DEF LoopLooks
<1>12. ASSUME NEW l \in Loop, SessionEnds(l) PROVE KindInv'
  BY <1>12, Kinds DEF SessionEnds
<1>13. ASSUME NEW l \in Loop, HandleSessionEnd(l) PROVE KindInv'
  BY <1>13, Ending, Kinds, Nones
<1>14. ASSUME NEW l \in Loop, LoopTells(l) PROVE KindInv'
  BY <1>14, Kinds DEF LoopTells, Advertise, Offered, Configured
<1>15. ASSUME NEW l \in Loop, Retry(l) PROVE KindInv'
  BY <1>15, Kinds DEF Retry
<1>16. ASSUME NEW l \in Loop, RetryFailed(l) PROVE KindInv'
  BY <1>16, Kinds DEF RetryFailed, Configured
<1>17. ASSUME NEW r \in Reloader, BeginReload(r) PROVE KindInv'
  BY <1>17, Kinds DEF BeginReload, Running, Configured
<1>18. ASSUME NEW r \in Reloader, ReloadClears(r) PROVE KindInv'
  BY <1>18, Kinds DEF ReloadClears, Configured
<1>19. ASSUME NEW r \in Reloader, ReloadCloses(r) PROVE KindInv'
  BY <1>19, Kinds DEF ReloadCloses
<1>20. ASSUME NEW r \in Reloader, ReloadUpdates(r) PROVE KindInv'
  BY <1>20, Kinds DEF ReloadUpdates, NewEntry, Configured
<1>21. ASSUME NEW r \in Reloader, ReloadStarted(r) PROVE KindInv'
  BY <1>21, Kinds DEF ReloadStarted, Configured
<1>22. ASSUME NEW r \in Reloader, ReloadTells(r) PROVE KindInv'
  BY <1>22, Kinds DEF ReloadTells, Advertise, Offered, Configured
<1>23. ASSUME NEW p \in Login, BeginLogin(p) PROVE KindInv'
  BY <1>23, Kinds DEF BeginLogin, Configured
<1>24. ASSUME NEW p \in Login, FinishLogin(p) PROVE KindInv'
  BY <1>24, Kinds DEF FinishLogin
<1>25. ASSUME NEW p \in Login, LoginEnds(p) PROVE KindInv'
  BY <1>25, Kinds DEF LoginEnds, Advertise, Offered, Configured
<1>26. ASSUME NEW t \in Lister, ToolsChange(t) PROVE KindInv'
  BY <1>26, Kinds DEF ToolsChange
<1>27. ASSUME NEW t \in Lister, ListerChecks(t) \/ ListerLists(t) \/ ListerStores(t) \/ ListerTells(t)
      PROVE  KindInv'
  BY <1>27, Kinds DEF ListerChecks, ListerLists, ListerStores, ListerTells, Configured,
     Advertise, Offered
<1>28. ASSUME NEW k \in Caller, CallSlow(k) \/ CallSnapshots(k) \/ CallWakes(k) \/ CallTimesOut(k)
      PROVE  KindInv'
  BY <1>28, Kinds DEF CallSlow, CallSnapshots, CallWakes, CallTimesOut, Configured
<1>29. CASE BeginClose
  BY <1>29, Kinds DEF BeginClose
<1>30. CASE CloseSnapshots
  BY <1>30, Kinds DEF CloseSnapshots, Running, Configured
<1>31. CASE CloseCloses
  BY <1>31, Kinds DEF CloseCloses
<1>32. CASE CloseJoins
  BY <1>32, Kinds DEF CloseJoins
<1>33. CASE SessionDies
  BY <1>33, Kinds DEF SessionDies
<1>34. CASE UNCHANGED vars
  BY <1>34 DEF vars
<1> QED
    BY <1>1, <1>2, <1>3, <1>4, <1>5, <1>6, <1>7, <1>8, <1>9, <1>10, <1>11, <1>12, <1>13, <1>14,
     <1>15, <1>16, <1>17, <1>18, <1>19, <1>20, <1>21, <1>22, <1>23, <1>24, <1>25, <1>26, <1>27,
     <1>28, <1>29, <1>30, <1>31, <1>32, <1>33, <1>34, Steps

\* The steps keep what a goroutine holds.
LEMMA HoldStep ==
  ASSUME TypeOK, KindInv, HoldInv, [Next]_vars
  PROVE  HoldInv'
<1> USE DEF TypeOK, HoldInv, Goto, CloseConn, LetGo, GiveUp, CallReturns, entryVars, liveVars,
   localVars, outVars
<1>1. ASSUME NEW g \in Dialer, DialOk(g) PROVE HoldInv'
  BY <1>1, Kinds, Nones DEF DialOk, Unused
<1>2. ASSUME NEW g \in Dialer, DialFails(g) PROVE HoldInv'
  BY <1>2, Kinds, Nones DEF DialFails
<1>3. ASSUME NEW g \in Dialer, InstallSession(g) PROVE HoldInv'
  <2>1. g \in Goroutine
    BY Kinds
  <2> QED
    BY <1>3, <2>1, Installing, Kinds, Nones
<1>4. ASSUME NEW g \in Dialer, CloseReady(g) PROVE HoldInv'
  BY <1>4, Kinds, Nones DEF CloseReady
<1>5. ASSUME NEW g \in Opener, StartLoop(g) PROVE HoldInv'
  BY <1>5, Kinds, Nones DEF StartLoop, Running, Configured
<1>6. CASE StartOver
  BY <1>6, Kinds, Nones DEF StartOver, Configured
<1>7. CASE StartFails
  BY <1>7, Kinds, Nones DEF StartFails, Configured
<1>8. CASE StartDrops
  BY <1>8, Kinds, Nones DEF StartDrops
<1>9. CASE StartTells
  BY <1>9, Kinds, Nones DEF StartTells, Advertise, Offered, Configured
<1>10. ASSUME NEW l \in Loop, LoopChecks(l) PROVE HoldInv'
  BY <1>10, Kinds, Nones DEF LoopChecks, Retired, LoopExits, Configured
<1>11. ASSUME NEW l \in Loop, LoopLooks(l) PROVE HoldInv'
  BY <1>11, Kinds, Nones DEF LoopLooks
<1>12. ASSUME NEW l \in Loop, SessionEnds(l) PROVE HoldInv'
  BY <1>12, Kinds, Nones DEF SessionEnds
<1>13. ASSUME NEW l \in Loop, HandleSessionEnd(l) PROVE HoldInv'
  BY <1>13, Ending, Kinds, Nones
<1>14. ASSUME NEW l \in Loop, LoopTells(l) PROVE HoldInv'
  BY <1>14, Kinds, Nones DEF LoopTells, Advertise, Offered, Configured
<1>15. ASSUME NEW l \in Loop, Retry(l) PROVE HoldInv'
  BY <1>15, Kinds, Nones DEF Retry
<1>16. ASSUME NEW l \in Loop, RetryFailed(l) PROVE HoldInv'
  BY <1>16, Kinds, Nones DEF RetryFailed, Configured
<1>17. ASSUME NEW r \in Reloader, BeginReload(r) PROVE HoldInv'
  BY <1>17, Kinds, Nones DEF BeginReload, Running, Configured
<1>18. ASSUME NEW r \in Reloader, ReloadClears(r) PROVE HoldInv'
  BY <1>18, Kinds, Nones DEF ReloadClears, Configured
<1>19. ASSUME NEW r \in Reloader, ReloadCloses(r) PROVE HoldInv'
  BY <1>19, Kinds, Nones DEF ReloadCloses
<1>20. ASSUME NEW r \in Reloader, ReloadUpdates(r) PROVE HoldInv'
  BY <1>20, Kinds, Nones DEF ReloadUpdates, NewEntry, Configured
<1>21. ASSUME NEW r \in Reloader, ReloadStarted(r) PROVE HoldInv'
  BY <1>21, Kinds, Nones DEF ReloadStarted, Configured
<1>22. ASSUME NEW r \in Reloader, ReloadTells(r) PROVE HoldInv'
  BY <1>22, Kinds, Nones DEF ReloadTells, Advertise, Offered, Configured
<1>23. ASSUME NEW p \in Login, BeginLogin(p) PROVE HoldInv'
  BY <1>23, Kinds, Nones DEF BeginLogin, Configured
<1>24. ASSUME NEW p \in Login, FinishLogin(p) PROVE HoldInv'
  BY <1>24, Kinds, Nones DEF FinishLogin
<1>25. ASSUME NEW p \in Login, LoginEnds(p) PROVE HoldInv'
  BY <1>25, Kinds, Nones DEF LoginEnds, Advertise, Offered, Configured
<1>26. ASSUME NEW t \in Lister, ToolsChange(t) PROVE HoldInv'
  BY <1>26, Kinds, Nones DEF ToolsChange
<1>27. ASSUME NEW t \in Lister, ListerChecks(t) \/ ListerLists(t) \/ ListerStores(t) \/ ListerTells(t)
      PROVE  HoldInv'
  BY <1>27, Kinds, Nones DEF ListerChecks, ListerLists, ListerStores, ListerTells, Configured,
     Advertise, Offered
<1>28. ASSUME NEW k \in Caller, CallSlow(k) \/ CallSnapshots(k) \/ CallWakes(k) \/ CallTimesOut(k)
      PROVE  HoldInv'
  BY <1>28, Kinds, Nones DEF CallSlow, CallSnapshots, CallWakes, CallTimesOut, Configured
<1>29. CASE BeginClose
  BY <1>29, Kinds, Nones DEF BeginClose
<1>30. CASE CloseSnapshots
  BY <1>30, Kinds, Nones DEF CloseSnapshots, Running, Configured
<1>31. CASE CloseCloses
  BY <1>31, Kinds, Nones DEF CloseCloses
<1>32. CASE CloseJoins
  BY <1>32, Kinds, Nones DEF CloseJoins
<1>33. CASE SessionDies
  BY <1>33, Kinds, Nones DEF SessionDies
<1>34. CASE UNCHANGED vars
  BY <1>34 DEF vars
<1> QED
    BY <1>1, <1>2, <1>3, <1>4, <1>5, <1>6, <1>7, <1>8, <1>9, <1>10, <1>11, <1>12, <1>13, <1>14,
     <1>15, <1>16, <1>17, <1>18, <1>19, <1>20, <1>21, <1>22, <1>23, <1>24, <1>25, <1>26, <1>27,
     <1>28, <1>29, <1>30, <1>31, <1>32, <1>33, <1>34, Steps

-----------------------------------------------------------------------------
(* The entry, and what the agent is told of it. *)

\* The steps keep the entry of no server, and of a closed manager, empty.
LEMMA EntryStep ==
  ASSUME TypeOK, KindInv, EntryInv, NothingInstalledAfterClose, [Next]_vars
  PROVE  EntryInv' /\ NothingInstalledAfterClose'
<1> USE DEF EntryInv, NothingInstalledAfterClose, Configured, Goto, CloseConn, LetGo, GiveUp,
   CallReturns, entryVars, liveVars, localVars, outVars
<1>1. ASSUME NEW g \in Dialer, DialOk(g) PROVE EntryInv' /\ NothingInstalledAfterClose'
  BY <1>1, Kinds, Nones DEF DialOk, Unused, TypeOK, EntryType
<1>2. ASSUME NEW g \in Dialer, DialFails(g) PROVE EntryInv' /\ NothingInstalledAfterClose'
  BY <1>2, Kinds, Nones DEF DialFails, TypeOK, EntryType
<1>3. ASSUME NEW g \in Dialer, InstallSession(g) PROVE EntryInv' /\ NothingInstalledAfterClose'
  <2>1. g \in Goroutine
    BY Kinds
  <2> QED
    BY <1>3, <2>1, Installing, Kinds, Nones DEF Kept, TypeOK, EntryType
<1>4. ASSUME NEW g \in Dialer, CloseReady(g) PROVE EntryInv' /\ NothingInstalledAfterClose'
  BY <1>4, Kinds, Nones DEF CloseReady, TypeOK, EntryType
<1>5. ASSUME NEW g \in Opener, StartLoop(g) PROVE EntryInv' /\ NothingInstalledAfterClose'
  BY <1>5, Kinds, Nones DEF StartLoop, Running, TypeOK, EntryType
<1>6. CASE StartOver
  BY <1>6, Kinds, Nones DEF StartOver, TypeOK, EntryType
<1>7. CASE StartFails
  BY <1>7, Failing, Kinds, Nones DEF Kept, TypeOK, EntryType
<1>8. CASE StartDrops
  BY <1>8, Kinds, Nones DEF StartDrops, TypeOK, EntryType
<1>9. CASE StartTells
  BY <1>9, Kinds, Nones DEF StartTells, Advertise, Offered, TypeOK, EntryType
<1>10. ASSUME NEW l \in Loop, LoopChecks(l) PROVE EntryInv' /\ NothingInstalledAfterClose'
  BY <1>10, Kinds, Nones DEF LoopChecks, Retired, LoopExits, TypeOK, EntryType
<1>11. ASSUME NEW l \in Loop, LoopLooks(l) PROVE EntryInv' /\ NothingInstalledAfterClose'
  BY <1>11, Kinds, Nones DEF LoopLooks, TypeOK, EntryType
<1>12. ASSUME NEW l \in Loop, SessionEnds(l) PROVE EntryInv' /\ NothingInstalledAfterClose'
  BY <1>12, Kinds, Nones DEF SessionEnds, TypeOK, EntryType
<1>13. ASSUME NEW l \in Loop, HandleSessionEnd(l) PROVE EntryInv' /\ NothingInstalledAfterClose'
  BY <1>13, Ending, Kinds, Nones DEF Kept, TypeOK, EntryType
<1>14. ASSUME NEW l \in Loop, LoopTells(l) PROVE EntryInv' /\ NothingInstalledAfterClose'
  BY <1>14, Kinds, Nones DEF LoopTells, Advertise, Offered, TypeOK, EntryType
<1>15. ASSUME NEW l \in Loop, Retry(l) PROVE EntryInv' /\ NothingInstalledAfterClose'
  BY <1>15, Kinds, Nones DEF Retry, TypeOK, EntryType
<1>16. ASSUME NEW l \in Loop, RetryFailed(l) PROVE EntryInv' /\ NothingInstalledAfterClose'
  BY <1>16, Kinds, Nones DEF RetryFailed, TypeOK, EntryType
<1>17. ASSUME NEW r \in Reloader, BeginReload(r) PROVE EntryInv' /\ NothingInstalledAfterClose'
  BY <1>17, Kinds, Nones DEF BeginReload, Running, TypeOK, EntryType
<1>18. ASSUME NEW r \in Reloader, ReloadClears(r) PROVE EntryInv' /\ NothingInstalledAfterClose'
  BY <1>18, Clearing, Kinds, Nones DEF Kept, TypeOK, EntryType
<1>19. ASSUME NEW r \in Reloader, ReloadCloses(r) PROVE EntryInv' /\ NothingInstalledAfterClose'
  BY <1>19, Kinds, Nones DEF ReloadCloses, TypeOK, EntryType
<1>20. ASSUME NEW r \in Reloader, ReloadUpdates(r) PROVE EntryInv' /\ NothingInstalledAfterClose'
  BY <1>20, Kinds, Nones DEF ReloadUpdates, NewEntry, TypeOK, EntryType
<1>21. ASSUME NEW r \in Reloader, ReloadStarted(r) PROVE EntryInv' /\ NothingInstalledAfterClose'
  BY <1>21, Kinds, Nones DEF ReloadStarted, TypeOK, EntryType
<1>22. ASSUME NEW r \in Reloader, ReloadTells(r) PROVE EntryInv' /\ NothingInstalledAfterClose'
  BY <1>22, Kinds, Nones DEF ReloadTells, Advertise, Offered, TypeOK, EntryType
<1>23. ASSUME NEW p \in Login, BeginLogin(p) PROVE EntryInv' /\ NothingInstalledAfterClose'
  BY <1>23, Kinds, Nones DEF BeginLogin, TypeOK, EntryType
<1>24. ASSUME NEW p \in Login, FinishLogin(p) PROVE EntryInv' /\ NothingInstalledAfterClose'
  BY <1>24, Kinds, Nones DEF FinishLogin, TypeOK, EntryType
<1>25. ASSUME NEW p \in Login, LoginEnds(p) PROVE EntryInv' /\ NothingInstalledAfterClose'
  BY <1>25, Kinds, Nones DEF LoginEnds, Advertise, Offered, TypeOK, EntryType
<1>26. ASSUME NEW t \in Lister, ToolsChange(t) PROVE EntryInv' /\ NothingInstalledAfterClose'
  BY <1>26, Kinds, Nones DEF ToolsChange, TypeOK, EntryType
<1>27. ASSUME NEW t \in Lister, ListerChecks(t) \/ ListerLists(t) \/ ListerTells(t)
      PROVE  EntryInv' /\ NothingInstalledAfterClose'
  BY <1>27, Kinds, Nones DEF ListerChecks, ListerLists, ListerTells, Advertise, Offered, TypeOK,
     EntryType
<1>28. ASSUME NEW t \in Lister, ListerStores(t) PROVE EntryInv' /\ NothingInstalledAfterClose'
  BY <1>28, Kinds, Nones DEF ListerStores, TypeOK, EntryType
<1>29. ASSUME NEW k \in Caller, CallSlow(k) \/ CallSnapshots(k) \/ CallWakes(k) \/ CallTimesOut(k)
      PROVE  EntryInv' /\ NothingInstalledAfterClose'
  BY <1>29, Kinds, Nones DEF CallSlow, CallSnapshots, CallWakes, CallTimesOut, TypeOK, EntryType
<1>30. CASE BeginClose
  BY <1>30, Kinds, Nones DEF BeginClose, TypeOK, EntryType
<1>31. CASE CloseSnapshots
  BY <1>31, Snapshot, Kinds, Nones DEF Kept, TypeOK, EntryType
<1>32. CASE CloseCloses
  BY <1>32, Kinds, Nones DEF CloseCloses, TypeOK, EntryType
<1>33. CASE CloseJoins
  BY <1>33, Kinds, Nones DEF CloseJoins, TypeOK, EntryType
<1>34. CASE SessionDies
  BY <1>34, Kinds, Nones DEF SessionDies, TypeOK, EntryType
<1>35. CASE UNCHANGED vars
  BY <1>35 DEF vars
<1> QED
    BY <1>1, <1>2, <1>3, <1>4, <1>5, <1>6, <1>7, <1>8, <1>9, <1>10, <1>11, <1>12, <1>13, <1>14,
     <1>15, <1>16, <1>17, <1>18, <1>19, <1>20, <1>21, <1>22, <1>23, <1>24, <1>25, <1>26, <1>27,
     <1>28, <1>29, <1>30, <1>31, <1>32, <1>33, <1>34, <1>35, Steps

\* The steps keep the entry's tools those of its session.
LEMMA ToolsStep ==
  ASSUME TypeOK, KindInv, ToolsOfTheSession, [Next]_vars
  PROVE  ToolsOfTheSession'
<1> USE DEF ToolsOfTheSession, Configured, Goto, CloseConn, LetGo, GiveUp, CallReturns,
   entryVars, liveVars, localVars, outVars
<1>1. ASSUME NEW g \in Dialer, DialOk(g) PROVE ToolsOfTheSession'
  BY <1>1, Kinds, Nones DEF DialOk, Unused, TypeOK, EntryType
<1>2. ASSUME NEW g \in Dialer, DialFails(g) PROVE ToolsOfTheSession'
  BY <1>2, Kinds, Nones DEF DialFails, TypeOK, EntryType
<1>3. ASSUME NEW g \in Dialer, InstallSession(g) PROVE ToolsOfTheSession'
  <2>1. g \in Goroutine
    BY Kinds
  <2> QED
    BY <1>3, <2>1, Installing, Kinds, Nones DEF Kept
<1>4. ASSUME NEW g \in Dialer, CloseReady(g) PROVE ToolsOfTheSession'
  BY <1>4, Kinds, Nones DEF CloseReady, TypeOK, EntryType
<1>5. ASSUME NEW g \in Opener, StartLoop(g) PROVE ToolsOfTheSession'
  BY <1>5, Kinds, Nones DEF StartLoop, Running, TypeOK, EntryType
<1>6. CASE StartOver
  BY <1>6, Kinds, Nones DEF StartOver, TypeOK, EntryType
<1>7. CASE StartFails
  BY <1>7, Failing, Kinds, Nones DEF Kept
<1>8. CASE StartDrops
  BY <1>8, Kinds, Nones DEF StartDrops, TypeOK, EntryType
<1>9. CASE StartTells
  BY <1>9, Kinds, Nones DEF StartTells, Advertise, Offered, TypeOK, EntryType
<1>10. ASSUME NEW l \in Loop, LoopChecks(l) PROVE ToolsOfTheSession'
  BY <1>10, Kinds, Nones DEF LoopChecks, Retired, LoopExits, TypeOK, EntryType
<1>11. ASSUME NEW l \in Loop, LoopLooks(l) PROVE ToolsOfTheSession'
  BY <1>11, Kinds, Nones DEF LoopLooks, TypeOK, EntryType
<1>12. ASSUME NEW l \in Loop, SessionEnds(l) PROVE ToolsOfTheSession'
  BY <1>12, Kinds, Nones DEF SessionEnds, TypeOK, EntryType
<1>13. ASSUME NEW l \in Loop, HandleSessionEnd(l) PROVE ToolsOfTheSession'
  BY <1>13, Ending, Kinds, Nones DEF Kept
<1>14. ASSUME NEW l \in Loop, LoopTells(l) PROVE ToolsOfTheSession'
  BY <1>14, Kinds, Nones DEF LoopTells, Advertise, Offered, TypeOK, EntryType
<1>15. ASSUME NEW l \in Loop, Retry(l) PROVE ToolsOfTheSession'
  BY <1>15, Kinds, Nones DEF Retry, TypeOK, EntryType
<1>16. ASSUME NEW l \in Loop, RetryFailed(l) PROVE ToolsOfTheSession'
  BY <1>16, Kinds, Nones DEF RetryFailed, TypeOK, EntryType
<1>17. ASSUME NEW r \in Reloader, BeginReload(r) PROVE ToolsOfTheSession'
  BY <1>17, Kinds, Nones DEF BeginReload, Running, TypeOK, EntryType
<1>18. ASSUME NEW r \in Reloader, ReloadClears(r) PROVE ToolsOfTheSession'
  BY <1>18, Clearing, Kinds, Nones DEF Kept
<1>19. ASSUME NEW r \in Reloader, ReloadCloses(r) PROVE ToolsOfTheSession'
  BY <1>19, Kinds, Nones DEF ReloadCloses, TypeOK, EntryType
<1>20. ASSUME NEW r \in Reloader, ReloadUpdates(r) PROVE ToolsOfTheSession'
  BY <1>20, Kinds, Nones DEF ReloadUpdates, NewEntry, TypeOK, EntryType
<1>21. ASSUME NEW r \in Reloader, ReloadStarted(r) PROVE ToolsOfTheSession'
  BY <1>21, Kinds, Nones DEF ReloadStarted, TypeOK, EntryType
<1>22. ASSUME NEW r \in Reloader, ReloadTells(r) PROVE ToolsOfTheSession'
  BY <1>22, Kinds, Nones DEF ReloadTells, Advertise, Offered, TypeOK, EntryType
<1>23. ASSUME NEW p \in Login, BeginLogin(p) PROVE ToolsOfTheSession'
  BY <1>23, Kinds, Nones DEF BeginLogin, TypeOK, EntryType
<1>24. ASSUME NEW p \in Login, FinishLogin(p) PROVE ToolsOfTheSession'
  BY <1>24, Kinds, Nones DEF FinishLogin, TypeOK, EntryType
<1>25. ASSUME NEW p \in Login, LoginEnds(p) PROVE ToolsOfTheSession'
  BY <1>25, Kinds, Nones DEF LoginEnds, Advertise, Offered, TypeOK, EntryType
<1>26. ASSUME NEW t \in Lister, ToolsChange(t) PROVE ToolsOfTheSession'
  BY <1>26, Kinds, Nones DEF ToolsChange, TypeOK, EntryType
<1>27. ASSUME NEW t \in Lister, ListerChecks(t) \/ ListerLists(t) \/ ListerTells(t)
      PROVE  ToolsOfTheSession'
  BY <1>27, Kinds, Nones DEF ListerChecks, ListerLists, ListerTells, Advertise, Offered, TypeOK,
     EntryType
<1>28. ASSUME NEW t \in Lister, ListerStores(t) PROVE ToolsOfTheSession'
  BY <1>28, Kinds, Nones DEF ListerStores, TypeOK, EntryType
<1>29. ASSUME NEW k \in Caller, CallSlow(k) \/ CallSnapshots(k) \/ CallWakes(k) \/ CallTimesOut(k)
      PROVE  ToolsOfTheSession'
  BY <1>29, Kinds, Nones DEF CallSlow, CallSnapshots, CallWakes, CallTimesOut, TypeOK, EntryType
<1>30. CASE BeginClose
  BY <1>30, Kinds, Nones DEF BeginClose, TypeOK, EntryType
<1>31. CASE CloseSnapshots
  BY <1>31, Snapshot, Kinds, Nones DEF Kept
<1>32. CASE CloseCloses
  BY <1>32, Kinds, Nones DEF CloseCloses, TypeOK, EntryType
<1>33. CASE CloseJoins
  BY <1>33, Kinds, Nones DEF CloseJoins, TypeOK, EntryType
<1>34. CASE SessionDies
  BY <1>34, Kinds, Nones DEF SessionDies, TypeOK, EntryType
<1>35. CASE UNCHANGED vars
  BY <1>35 DEF vars
<1> QED
    BY <1>1, <1>2, <1>3, <1>4, <1>5, <1>6, <1>7, <1>8, <1>9, <1>10, <1>11, <1>12, <1>13, <1>14,
     <1>15, <1>16, <1>17, <1>18, <1>19, <1>20, <1>21, <1>22, <1>23, <1>24, <1>25, <1>26, <1>27,
     <1>28, <1>29, <1>30, <1>31, <1>32, <1>33, <1>34, <1>35, Steps

\* The steps leave nobody with news the agent has not, and nobody to bring it.
LEMMA NewsStep ==
  ASSUME TypeOK, KindInv, EntryInv, NewsInv, [Next]_vars
  PROVE  NewsInv'
<1> USE DEF NewsInv, Settled, Told, Offered, Configured, Goto, CloseConn, LetGo, GiveUp,
   CallReturns, entryVars, liveVars, localVars, outVars
<1>1. ASSUME NEW g \in Dialer, DialOk(g) PROVE NewsInv'
  BY <1>1, Kinds, Nones DEF DialOk, Unused, TypeOK, EntryType, KindInv, Starting, Opening
<1>2. ASSUME NEW g \in Dialer, DialFails(g) PROVE NewsInv'
  BY <1>2, Kinds, Nones DEF DialFails, TypeOK, EntryType, KindInv, Starting, Opening
<1>3. ASSUME NEW g \in Dialer, InstallSession(g) PROVE NewsInv'
  <2>1. g \in Goroutine
    BY Kinds
  <2> QED
    BY <1>3, <2>1, Installing, Kinds, Nones DEF Kept, TypeOK, EntryType, KindInv, Starting,
       Opening
<1>4. ASSUME NEW g \in Dialer, CloseReady(g) PROVE NewsInv'
  BY <1>4, Kinds, Nones DEF CloseReady, TypeOK, EntryType, KindInv, Starting, Opening
<1>5. ASSUME NEW g \in Opener, StartLoop(g) PROVE NewsInv'
  BY <1>5, Kinds, Nones DEF StartLoop, Running, TypeOK, EntryType, KindInv, Starting, Opening
<1>6. CASE StartOver
  BY <1>6, Kinds, Nones DEF StartOver, TypeOK, EntryType, KindInv, Starting, Opening
<1>7. CASE StartFails
  BY <1>7, Failing, Kinds, Nones DEF Kept, TypeOK, EntryType, KindInv, Starting, Opening
<1>8. CASE StartDrops
  BY <1>8, Kinds, Nones DEF StartDrops, TypeOK, EntryType, KindInv, Starting, Opening
<1>9. CASE StartTells
  BY <1>9, Kinds, Nones DEF StartTells, Advertise, TypeOK, EntryType, KindInv, Starting, Opening
<1>10. ASSUME NEW l \in Loop, LoopChecks(l) PROVE NewsInv'
  BY <1>10, Kinds, Nones DEF LoopChecks, Retired, LoopExits, TypeOK, EntryType, KindInv,
     Starting, Opening
<1>11. ASSUME NEW l \in Loop, LoopLooks(l) PROVE NewsInv'
  BY <1>11, Kinds, Nones DEF LoopLooks, TypeOK, EntryType, KindInv, Starting, Opening
<1>12. ASSUME NEW l \in Loop, SessionEnds(l) PROVE NewsInv'
  BY <1>12, Kinds, Nones DEF SessionEnds, TypeOK, EntryType, KindInv, Starting, Opening
<1>13. ASSUME NEW l \in Loop, HandleSessionEnd(l) PROVE NewsInv'
  BY <1>13, Ending, Kinds, Nones DEF Kept, TypeOK, EntryType, KindInv, Starting, Opening
<1>14. ASSUME NEW l \in Loop, LoopTells(l) PROVE NewsInv'
  BY <1>14, Kinds, Nones DEF LoopTells, Advertise, TypeOK, EntryType, KindInv, Starting, Opening
<1>15. ASSUME NEW l \in Loop, Retry(l) PROVE NewsInv'
  BY <1>15, Kinds, Nones DEF Retry, TypeOK, EntryType, KindInv, Starting, Opening
<1>16. ASSUME NEW l \in Loop, RetryFailed(l) PROVE NewsInv'
  BY <1>16, Kinds, Nones DEF RetryFailed, TypeOK, EntryType, KindInv, Starting, Opening
<1>17. ASSUME NEW r \in Reloader, BeginReload(r) PROVE NewsInv'
  BY <1>17, Kinds, Nones DEF BeginReload, Running, TypeOK, EntryType, KindInv, Starting, Opening
<1>18. ASSUME NEW r \in Reloader, ReloadClears(r) PROVE NewsInv'
  BY <1>18, Clearing, Kinds, Nones DEF Kept, TypeOK, EntryType, KindInv, Starting, Opening
<1>19. ASSUME NEW r \in Reloader, ReloadCloses(r) PROVE NewsInv'
  BY <1>19, Kinds, Nones DEF ReloadCloses, TypeOK, EntryType, KindInv, Starting, Opening
<1>20. ASSUME NEW r \in Reloader, ReloadUpdates(r) PROVE NewsInv'
  BY <1>20, Kinds, Nones DEF ReloadUpdates, NewEntry, TypeOK, EntryType, KindInv, Starting,
     Opening
<1>21. ASSUME NEW r \in Reloader, ReloadStarted(r) PROVE NewsInv'
  BY <1>21, Kinds, Nones DEF ReloadStarted, TypeOK, EntryType, KindInv, Starting, Opening
<1>22. ASSUME NEW r \in Reloader, ReloadTells(r) PROVE NewsInv'
  BY <1>22, Kinds, Nones DEF ReloadTells, Advertise, TypeOK, EntryType, KindInv, Starting,
     Opening
<1>23. ASSUME NEW p \in Login, BeginLogin(p) PROVE NewsInv'
  BY <1>23, Kinds, Nones DEF BeginLogin, TypeOK, EntryType, KindInv, Starting, Opening
<1>24. ASSUME NEW p \in Login, FinishLogin(p) PROVE NewsInv'
  BY <1>24, Kinds, Nones DEF FinishLogin, TypeOK, EntryType, KindInv, Starting, Opening
<1>25. ASSUME NEW p \in Login, LoginEnds(p) PROVE NewsInv'
  BY <1>25, Kinds, Nones DEF LoginEnds, Advertise, TypeOK, EntryType, KindInv, Starting, Opening
<1>26. ASSUME NEW t \in Lister, ToolsChange(t) PROVE NewsInv'
  BY <1>26, Kinds, Nones DEF ToolsChange, TypeOK, EntryType, KindInv, Starting, Opening
<1>27. ASSUME NEW t \in Lister, ListerChecks(t) \/ ListerLists(t) PROVE NewsInv'
  BY <1>27, Kinds, Nones DEF ListerChecks, ListerLists, TypeOK, EntryType, KindInv, Starting,
     Opening
<1>28. ASSUME NEW t \in Lister, ListerStores(t) PROVE NewsInv'
  BY <1>28, Kinds, Nones DEF ListerStores, TypeOK, EntryType, KindInv, Starting, Opening
<1>29. ASSUME NEW t \in Lister, ListerTells(t) PROVE NewsInv'
  BY <1>29, Kinds, Nones DEF ListerTells, Advertise, TypeOK, EntryType, KindInv, Starting,
     Opening
<1>30. ASSUME NEW k \in Caller, CallSlow(k) \/ CallSnapshots(k) \/ CallWakes(k) \/ CallTimesOut(k)
      PROVE  NewsInv'
  BY <1>30, Kinds, Nones DEF CallSlow, CallSnapshots, CallWakes, CallTimesOut, TypeOK,
     EntryType, KindInv, Starting, Opening
<1>31. CASE BeginClose
  BY <1>31, Kinds, Nones DEF BeginClose, TypeOK, EntryType, KindInv, Starting, Opening
<1>32. CASE CloseSnapshots
  BY <1>32, Snapshot, Kinds, Nones DEF Kept, TypeOK, EntryType, KindInv, Starting, Opening
<1>33. CASE CloseCloses
  BY <1>33, Kinds, Nones DEF CloseCloses, TypeOK, EntryType, KindInv, Starting, Opening
<1>34. CASE CloseJoins
  BY <1>34, Kinds, Nones DEF CloseJoins, TypeOK, EntryType, KindInv, Starting, Opening
<1>35. CASE SessionDies
  BY <1>35, Kinds, Nones DEF SessionDies, TypeOK, EntryType, KindInv, Starting, Opening
<1>36. CASE UNCHANGED vars
  BY <1>36 DEF vars
<1> QED
    BY <1>1, <1>2, <1>3, <1>4, <1>5, <1>6, <1>7, <1>8, <1>9, <1>10, <1>11, <1>12, <1>13, <1>14,
     <1>15, <1>16, <1>17, <1>18, <1>19, <1>20, <1>21, <1>22, <1>23, <1>24, <1>25, <1>26, <1>27,
     <1>28, <1>29, <1>30, <1>31, <1>32, <1>33, <1>34, <1>35, <1>36, Steps

-----------------------------------------------------------------------------
(* Who has the entry to himself, if Reload waits for Start's dial. *)

\* The steps keep apart who opens the server.
LEMMA ApartStep ==
  ASSUME Patient, TypeOK, KindInv, EntryInv, ApartInv, [Next]_vars
  PROVE  ApartInv'
<1> USE DEF ApartInv, Starting, Opening, Configured, Goto, CloseConn, LetGo, GiveUp,
   CallReturns, entryVars, liveVars, localVars, outVars
<1>1. ASSUME NEW g \in Dialer, DialOk(g) PROVE ApartInv'
  BY <1>1, Kinds, Nones DEF DialOk, Unused, TypeOK, EntryType, KindInv, EntryInv
<1>2. ASSUME NEW g \in Dialer, DialFails(g) PROVE ApartInv'
  BY <1>2, Kinds, Nones DEF DialFails, TypeOK, EntryType, KindInv, EntryInv
<1>3. ASSUME NEW g \in Dialer, InstallSession(g) PROVE ApartInv'
  <2>1. g \in Goroutine
    BY Kinds
  <2> QED
    BY <1>3, <2>1, Installing, Kinds, Nones DEF Kept, TypeOK, EntryType, KindInv, EntryInv
<1>4. ASSUME NEW g \in Dialer, CloseReady(g) PROVE ApartInv'
  BY <1>4, Kinds, Nones DEF CloseReady, TypeOK, EntryType, KindInv, EntryInv
<1>5. ASSUME NEW g \in Opener, StartLoop(g) PROVE ApartInv'
  BY <1>5, Kinds, Nones DEF StartLoop, Running, TypeOK, EntryType, KindInv, EntryInv
<1>6. CASE StartOver
  BY <1>6, Kinds, Nones DEF StartOver, TypeOK, EntryType, KindInv, EntryInv
<1>7. CASE StartFails
  BY <1>7, Failing, Kinds, Nones DEF Kept, TypeOK, EntryType, KindInv, EntryInv
<1>8. CASE StartDrops
  BY <1>8, Kinds, Nones DEF StartDrops, TypeOK, EntryType, KindInv, EntryInv
<1>9. CASE StartTells
  BY <1>9, Kinds, Nones DEF StartTells, Advertise, Offered, TypeOK, EntryType, KindInv, EntryInv
<1>10. ASSUME NEW l \in Loop, LoopChecks(l) \/ LoopLooks(l) \/ SessionEnds(l) \/ LoopTells(l) \/ Retry(l) \/ RetryFailed(l)
      PROVE  ApartInv'
  BY <1>10, Kinds, Nones DEF LoopChecks, LoopLooks, SessionEnds, LoopTells, Retry, RetryFailed,
     Retired, LoopExits, Advertise, Offered, TypeOK, EntryType, KindInv, EntryInv
<1>11. ASSUME NEW l \in Loop, HandleSessionEnd(l) PROVE ApartInv'
  BY <1>11, Ending, Kinds, Nones DEF Kept, TypeOK, EntryType, KindInv, EntryInv
<1>12. ASSUME NEW r \in Reloader, BeginReload(r) PROVE ApartInv'
  BY <1>12, Kinds, Nones DEF BeginReload, Running, TypeOK, EntryType, KindInv, EntryInv
<1>13. ASSUME NEW r \in Reloader, ReloadClears(r) PROVE ApartInv'
  BY <1>13, Clearing, Kinds, Nones DEF Kept, TypeOK, EntryType, KindInv, EntryInv
<1>14. ASSUME NEW r \in Reloader, ReloadCloses(r) PROVE ApartInv'
  BY <1>14, Kinds, Nones DEF ReloadCloses, TypeOK, EntryType, KindInv, EntryInv
<1>15. ASSUME NEW r \in Reloader, ReloadUpdates(r) PROVE ApartInv'
  BY <1>15, Kinds, Nones DEF ReloadUpdates, NewEntry, TypeOK, EntryType, KindInv, EntryInv
<1>16. ASSUME NEW r \in Reloader, ReloadStarted(r) PROVE ApartInv'
  BY <1>16, Kinds, Nones DEF ReloadStarted, TypeOK, EntryType, KindInv, EntryInv
<1>17. ASSUME NEW r \in Reloader, ReloadTells(r) PROVE ApartInv'
  BY <1>17, Kinds, Nones DEF ReloadTells, Advertise, Offered, TypeOK, EntryType, KindInv,
     EntryInv
<1>18. ASSUME NEW p \in Login, BeginLogin(p) PROVE ApartInv'
  BY <1>18, Kinds, Nones DEF BeginLogin, TypeOK, EntryType, KindInv, EntryInv
<1>19. ASSUME NEW p \in Login, FinishLogin(p) PROVE ApartInv'
  BY <1>19, Kinds, Nones DEF FinishLogin, TypeOK, EntryType, KindInv, EntryInv
<1>20. ASSUME NEW p \in Login, LoginEnds(p) PROVE ApartInv'
  BY <1>20, Kinds, Nones DEF LoginEnds, Advertise, Offered, TypeOK, EntryType, KindInv, EntryInv
<1>21. ASSUME NEW t \in Lister, ToolsChange(t) PROVE ApartInv'
  BY <1>21, Kinds, Nones DEF ToolsChange, TypeOK, EntryType, KindInv, EntryInv
<1>22. ASSUME NEW t \in Lister, ListerChecks(t) \/ ListerLists(t) \/ ListerTells(t)
      PROVE  ApartInv'
  BY <1>22, Kinds, Nones DEF ListerChecks, ListerLists, ListerTells, Advertise, Offered, TypeOK,
     EntryType, KindInv, EntryInv
<1>23. ASSUME NEW t \in Lister, ListerStores(t) PROVE ApartInv'
  BY <1>23, Kinds, Nones DEF ListerStores, TypeOK, EntryType, KindInv, EntryInv
<1>24. ASSUME NEW k \in Caller, CallSlow(k) \/ CallSnapshots(k) \/ CallWakes(k) \/ CallTimesOut(k)
      PROVE  ApartInv'
  BY <1>24, Kinds, Nones DEF CallSlow, CallSnapshots, CallWakes, CallTimesOut, TypeOK,
     EntryType, KindInv, EntryInv
<1>25. CASE BeginClose
  BY <1>25, Kinds, Nones DEF BeginClose, TypeOK, EntryType, KindInv, EntryInv
<1>26. CASE CloseSnapshots
  BY <1>26, Snapshot, Kinds, Nones DEF Kept, TypeOK, EntryType, KindInv, EntryInv
<1>27. CASE CloseCloses
  BY <1>27, Kinds, Nones DEF CloseCloses, TypeOK, EntryType, KindInv, EntryInv
<1>28. CASE CloseJoins
  BY <1>28, Kinds, Nones DEF CloseJoins, TypeOK, EntryType, KindInv, EntryInv
<1>29. CASE SessionDies
  BY <1>29, Kinds, Nones DEF SessionDies, TypeOK, EntryType, KindInv, EntryInv
<1>30. CASE UNCHANGED vars
  BY <1>30 DEF vars
<1> QED
    BY <1>1, <1>2, <1>3, <1>4, <1>5, <1>6, <1>7, <1>8, <1>9, <1>10, <1>11, <1>12, <1>13, <1>14,
     <1>15, <1>16, <1>17, <1>18, <1>19, <1>20, <1>21, <1>22, <1>23, <1>24, <1>25, <1>26, <1>27,
     <1>28, <1>29, <1>30, Steps

\* One at a time is past the decision to open the server.
LEMMA Alone ==
  ASSUME KindInv, ApartInv, NEW g \in Opener, NEW h \in Opener,
         pc[g] \in Opening \cup {"clear", "close", "update"},
         pc[h] \in Opening \cup {"clear", "close", "update"}
  PROVE  g = h
<1>1. CASE g = Starter \/ h = Starter
  BY <1>1, Kinds, Nones DEF KindInv, ApartInv, Opening, Starting
<1>2. CASE g # Starter /\ h # Starter
  <2>1. reloadMu = g
    BY <1>2, Kinds DEF KindInv, ApartInv, Opening, Starting
  <2>2. reloadMu = h
    BY <1>2, Kinds DEF KindInv, ApartInv, Opening, Starting
  <2> QED
    BY <2>1, <2>2
<1> QED
  BY <1>1, <1>2

\* A loop that was not told to stop keeps them away.
LEMMA LoopAlone ==
  ASSUME ClearInv, LoopInv, NEW l \in Loop, l \notin cancelled, pc[l] # "none"
  PROVE  /\ \A g \in Opener : pc[g] \notin Opening \cup {"clear", "close", "update"}
         /\ \A k \in Loop : pc[k] # "none" /\ k \notin cancelled => k = l
BY Nones DEF ClearInv, LoopInv, LoopIsKnown

\* The steps leave who opens the server no loop and no session of another.
LEMMA ClearStep ==
  ASSUME Patient, TypeOK, KindInv, HoldInv, EntryInv, ApartInv, ClearInv, LoopInv, [Next]_vars
  PROVE  ClearInv'
<1> USE DEF ClearInv, ApartInv, Starting, Opening, Configured, Goto, CloseConn, LetGo, GiveUp,
   CallReturns, entryVars, liveVars, localVars, outVars
<1>1. ASSUME NEW g \in Dialer, DialOk(g) PROVE ClearInv'
  BY <1>1, Kinds, Nones DEF DialOk, Unused, TypeOK, EntryType, KindInv, LoopInv, LoopIsKnown
<1>2. ASSUME NEW g \in Dialer, DialFails(g) PROVE ClearInv'
  BY <1>2, Kinds, Nones DEF DialFails, TypeOK, EntryType, KindInv, LoopInv, LoopIsKnown
<1>3. ASSUME NEW g \in Dialer, InstallSession(g) PROVE ClearInv'
  <2>1. g \in Goroutine /\ pc[g] = "install" /\ pc'[g] \notin Opening \ {"closeReady"}
        /\ pc'[g] \notin {"clear", "close", "update"}
    BY <1>3, Installing, Kinds DEF TypeOK, Opening
  <2>2. \A h \in Opener \ {g} : pc'[h] = pc[h] /\ mine'[h] = mine[h]
    BY <1>3, <2>1, Installing, Kinds DEF TypeOK
  <2>3. entry'.loop = entry.loop /\ (g \in Opener => entry.loop = None)
    BY <1>3, <2>1, Installing DEF Kept, ClearInv, Opening
  <2>4. CASE UNCHANGED entry
    BY <2>1, <2>2, <2>3, <2>4, Installing, <1>3, Kinds DEF ClearInv
  <2>5. CASE g \notin cancelled /\ ~ UNCHANGED entry
    <3>1. \A h \in Opener \ {g} : pc[h] \notin Opening \cup {"clear", "close", "update"}
      <4>1. CASE g \in Opener
        BY <2>1, <4>1, Alone DEF Opening
      <4>2. CASE g \in Loop
        BY <2>1, <2>5, <4>2, LoopAlone
      <4> QED
        BY <4>1, <4>2, Kinds DEF Opener
    <3> QED
      BY <2>1, <2>2, <2>3, <3>1, Kinds DEF ClearInv, Opening
  <2> QED
    BY <1>3, <2>1, <2>4, <2>5, Installing
<1>4. ASSUME NEW g \in Dialer, CloseReady(g) PROVE ClearInv'
  BY <1>4, Kinds, Nones DEF CloseReady, TypeOK, EntryType, KindInv, LoopInv, LoopIsKnown
<1>5. ASSUME NEW g \in Opener, StartLoop(g) PROVE ClearInv'
  BY <1>5, Kinds, Nones DEF StartLoop, Running, TypeOK, EntryType, KindInv, LoopInv, LoopIsKnown
<1>6. CASE StartOver
  BY <1>6, Kinds, Nones DEF StartOver, TypeOK, EntryType, KindInv, LoopInv, LoopIsKnown
<1>7. CASE StartFails
  BY <1>7, Failing, Kinds, Nones DEF Kept, TypeOK, EntryType, KindInv, EntryInv, LoopInv,
     LoopIsKnown
<1>8. CASE StartDrops
  BY <1>8, Kinds, Nones DEF StartDrops, TypeOK, EntryType, KindInv, LoopInv, LoopIsKnown
<1>9. CASE StartTells
  BY <1>9, Kinds, Nones DEF StartTells, Advertise, Offered, TypeOK, EntryType, KindInv, LoopInv,
     LoopIsKnown
<1>10. ASSUME NEW l \in Loop, LoopChecks(l) PROVE ClearInv'
  BY <1>10, Kinds, Nones DEF LoopChecks, Retired, LoopExits, TypeOK, EntryType, KindInv,
     LoopInv, LoopIsKnown
<1>11. ASSUME NEW l \in Loop, LoopLooks(l) PROVE ClearInv'
  BY <1>11, Kinds, Nones DEF LoopLooks, TypeOK, EntryType, KindInv, LoopInv, LoopIsKnown
<1>12. ASSUME NEW l \in Loop, SessionEnds(l) PROVE ClearInv'
  BY <1>12, Kinds, Nones DEF SessionEnds, TypeOK, EntryType, KindInv, LoopInv, LoopIsKnown
<1>13. ASSUME NEW l \in Loop, HandleSessionEnd(l) PROVE ClearInv'
  BY <1>13, Ending, Kinds, Nones DEF Kept, TypeOK, EntryType, KindInv, EntryInv, LoopInv,
     LoopIsKnown
<1>14. ASSUME NEW l \in Loop, LoopTells(l) PROVE ClearInv'
  BY <1>14, Kinds, Nones DEF LoopTells, Advertise, Offered, TypeOK, EntryType, KindInv, LoopInv,
     LoopIsKnown
<1>15. ASSUME NEW l \in Loop, Retry(l) PROVE ClearInv'
  BY <1>15, Kinds, Nones DEF Retry, TypeOK, EntryType, KindInv, LoopInv, LoopIsKnown
<1>16. ASSUME NEW l \in Loop, RetryFailed(l) PROVE ClearInv'
  BY <1>16, Kinds, Nones DEF RetryFailed, TypeOK, EntryType, KindInv, LoopInv, LoopIsKnown
<1>17. ASSUME NEW r \in Reloader, BeginReload(r) PROVE ClearInv'
  BY <1>17, Deciding, Kinds, Nones DEF EntryInv, KindInv, TypeOK, EntryType
<1>18. ASSUME NEW r \in Reloader, ReloadClears(r) PROVE ClearInv'
  BY <1>18, Clearing, Kinds, Nones DEF Kept, TypeOK, EntryType, KindInv, EntryInv, LoopInv,
     LoopIsKnown
<1>19. ASSUME NEW r \in Reloader, ReloadCloses(r) PROVE ClearInv'
  BY <1>19, Kinds, Nones DEF ReloadCloses, TypeOK, EntryType, KindInv, LoopInv, LoopIsKnown
<1>20. ASSUME NEW r \in Reloader, ReloadUpdates(r) PROVE ClearInv'
  BY <1>20, Kinds, Nones DEF ReloadUpdates, NewEntry, TypeOK, EntryType, KindInv, LoopInv,
     LoopIsKnown
<1>21. ASSUME NEW r \in Reloader, ReloadStarted(r) PROVE ClearInv'
  BY <1>21, Kinds, Nones DEF ReloadStarted, TypeOK, EntryType, KindInv, LoopInv, LoopIsKnown
<1>22. ASSUME NEW r \in Reloader, ReloadTells(r) PROVE ClearInv'
  BY <1>22, Kinds, Nones DEF ReloadTells, Advertise, Offered, TypeOK, EntryType, KindInv,
     LoopInv, LoopIsKnown
<1>23. ASSUME NEW p \in Login, BeginLogin(p) PROVE ClearInv'
  BY <1>23, Kinds, Nones DEF BeginLogin, TypeOK, EntryType, KindInv, LoopInv, LoopIsKnown
<1>24. ASSUME NEW p \in Login, FinishLogin(p) PROVE ClearInv'
  BY <1>24, Kinds, Nones DEF FinishLogin, TypeOK, EntryType, KindInv, LoopInv, LoopIsKnown
<1>25. ASSUME NEW p \in Login, LoginEnds(p) PROVE ClearInv'
  BY <1>25, Kinds, Nones DEF LoginEnds, Advertise, Offered, TypeOK, EntryType, KindInv, LoopInv,
     LoopIsKnown
<1>26. ASSUME NEW t \in Lister, ToolsChange(t) PROVE ClearInv'
  BY <1>26, Kinds, Nones DEF ToolsChange, TypeOK, EntryType, KindInv, LoopInv, LoopIsKnown
<1>27. ASSUME NEW t \in Lister, ListerChecks(t) \/ ListerLists(t) \/ ListerTells(t)
      PROVE  ClearInv'
  BY <1>27, Kinds, Nones DEF ListerChecks, ListerLists, ListerTells, Advertise, Offered, TypeOK,
     EntryType, KindInv, LoopInv, LoopIsKnown
<1>28. ASSUME NEW t \in Lister, ListerStores(t) PROVE ClearInv'
  BY <1>28, Kinds, Nones DEF ListerStores, TypeOK, EntryType, KindInv, LoopInv, LoopIsKnown
<1>29. ASSUME NEW k \in Caller, CallSlow(k) \/ CallSnapshots(k) \/ CallWakes(k) \/ CallTimesOut(k)
      PROVE  ClearInv'
  BY <1>29, Kinds, Nones DEF CallSlow, CallSnapshots, CallWakes, CallTimesOut, TypeOK,
     EntryType, KindInv, LoopInv, LoopIsKnown
<1>30. CASE BeginClose
  BY <1>30, Kinds, Nones DEF BeginClose, TypeOK, EntryType, KindInv, LoopInv, LoopIsKnown
<1>31. CASE CloseSnapshots
  BY <1>31, Snapshot, Kinds, Nones DEF Kept, TypeOK, EntryType, KindInv, EntryInv, LoopInv,
     LoopIsKnown
<1>32. CASE CloseCloses
  BY <1>32, Kinds, Nones DEF CloseCloses, TypeOK, EntryType, KindInv, LoopInv, LoopIsKnown
<1>33. CASE CloseJoins
  BY <1>33, Kinds, Nones DEF CloseJoins, TypeOK, EntryType, KindInv, LoopInv, LoopIsKnown
<1>34. CASE SessionDies
  BY <1>34, Kinds, Nones DEF SessionDies, TypeOK, EntryType, KindInv, LoopInv, LoopIsKnown
<1>35. CASE UNCHANGED vars
  BY <1>35 DEF vars
<1> QED
    BY <1>1, <1>2, <1>3, <1>4, <1>5, <1>6, <1>7, <1>8, <1>9, <1>10, <1>11, <1>12, <1>13, <1>14,
     <1>15, <1>16, <1>17, <1>18, <1>19, <1>20, <1>21, <1>22, <1>23, <1>24, <1>25, <1>26, <1>27,
     <1>28, <1>29, <1>30, <1>31, <1>32, <1>33, <1>34, <1>35, Steps

\* The steps leave the entry's loop alone with it.
LEMMA LoopStep ==
  ASSUME Patient, TypeOK, KindInv, HoldInv, EntryInv, ApartInv, ClearInv, LoopInv, [Next]_vars
  PROVE  LoopInv'
<1> USE DEF LoopInv, LoopIsKnown, Configured, Goto, CloseConn, LetGo, GiveUp, CallReturns,
   entryVars, liveVars, localVars, outVars
<1>1. ASSUME NEW g \in Dialer, DialOk(g) PROVE LoopInv'
  BY <1>1, Kinds, Nones DEF DialOk, Unused, TypeOK, EntryType, KindInv, ClearInv, ApartInv,
     Opening, Starting
<1>2. ASSUME NEW g \in Dialer, DialFails(g) PROVE LoopInv'
  BY <1>2, Kinds, Nones DEF DialFails, TypeOK, EntryType, KindInv, ClearInv, ApartInv, Opening,
     Starting
<1>3. ASSUME NEW g \in Dialer, InstallSession(g) PROVE LoopInv'
  <2>1. g \in Goroutine /\ pc[g] = "install" /\ pc'[g] \in {"closeReady", "retry", "failed"}
    BY <1>3, Installing, Kinds DEF TypeOK
  <2>2. \A k \in Loop \ {g} : pc'[k] = pc[k] /\ mine'[k] = mine[k]
    BY <1>3, <2>1, Installing, Kinds DEF TypeOK
  <2>3. entry'.loop = entry.loop /\ cancelled' = cancelled
    BY <1>3, <2>1, Installing DEF Kept
  <2>4. CASE UNCHANGED entry
    BY <2>1, <2>2, <2>3, <2>4 DEF LoopInv, LoopIsKnown
  <2>5. CASE g \notin cancelled /\ pc'[g] = "closeReady"
    <3>1. CASE g \in Opener
      <4>1. \A k \in Loop : k \in cancelled \/ pc[k] = "none"
        BY <2>1, <3>1, LoopAlone DEF Opening
      <4> QED
        BY <2>1, <2>2, <2>3, <3>1, <4>1, Kinds DEF LoopInv, LoopIsKnown
    <3>2. CASE g \in Loop
      <4>1. \A k \in Loop \ {g} : k \in cancelled \/ pc[k] = "none"
        BY <2>1, <2>5, <3>2, LoopAlone
      <4>2. entry.loop = g
        BY <2>1, <2>5, <3>2 DEF LoopInv, LoopIsKnown
      <4> QED
        BY <2>1, <2>2, <2>3, <2>5, <4>1, <4>2 DEF LoopInv, LoopIsKnown
    <3> QED
      BY <3>1, <3>2 DEF Opener
  <2> QED
    BY <1>3, <2>1, <2>4, <2>5, Installing DEF TypeOK
<1>4. ASSUME NEW g \in Dialer, CloseReady(g) PROVE LoopInv'
  BY <1>4, Kinds, Nones DEF CloseReady, TypeOK, EntryType, KindInv, ClearInv, ApartInv, Opening,
     Starting
<1>5. ASSUME NEW g \in Opener, StartLoop(g) PROVE LoopInv'
  BY <1>5, Kinds, Nones DEF StartLoop, Running, TypeOK, EntryType, KindInv, ClearInv, ApartInv,
     Opening, Starting
<1>6. CASE StartOver
  BY <1>6, Kinds, Nones DEF StartOver, TypeOK, EntryType, KindInv, ClearInv, ApartInv, Opening,
     Starting
<1>7. CASE StartFails
  BY <1>7, Failing, Kinds, Nones DEF Kept, TypeOK, EntryType, KindInv, HoldInv, EntryInv,
     ClearInv, Opening, Running
<1>8. CASE StartDrops
  BY <1>8, Kinds, Nones DEF StartDrops, TypeOK, EntryType, KindInv, ClearInv, ApartInv, Opening,
     Starting
<1>9. CASE StartTells
  BY <1>9, Kinds, Nones DEF StartTells, Advertise, Offered, TypeOK, EntryType, KindInv,
     ClearInv, ApartInv, Opening, Starting
<1>10. ASSUME NEW l \in Loop, LoopChecks(l) PROVE LoopInv'
  BY <1>10, Kinds, Nones DEF LoopChecks, Retired, LoopExits, TypeOK, EntryType, KindInv,
     ClearInv, ApartInv, Opening, Starting
<1>11. ASSUME NEW l \in Loop, LoopLooks(l) PROVE LoopInv'
  BY <1>11, Kinds, Nones DEF LoopLooks, TypeOK, EntryType, KindInv, ClearInv, ApartInv, Opening,
     Starting
<1>12. ASSUME NEW l \in Loop, SessionEnds(l) PROVE LoopInv'
  BY <1>12, Kinds, Nones DEF SessionEnds, TypeOK, EntryType, KindInv, ClearInv, ApartInv,
     Opening, Starting
<1>13. ASSUME NEW l \in Loop, HandleSessionEnd(l) PROVE LoopInv'
  <2>1. pc[l] = "ended" /\ \A k \in Loop \ {l} : pc'[k] = pc[k] /\ mine'[k] = mine[k]
    BY <1>13, Ending, Kinds DEF TypeOK
  <2>2. l \notin cancelled => entry'.session = None
    BY <1>13, <2>1, Ending DEF LoopInv, EntryInv
  <2>3. entry'.session \in {entry.session, None} /\ entry'.loop = entry.loop /\ cancelled' = cancelled
    BY <1>13, Ending DEF Kept
  <2> QED
    BY <1>13, <2>1, <2>2, <2>3, Ending DEF LoopInv, LoopIsKnown
<1>14. ASSUME NEW l \in Loop, LoopTells(l) PROVE LoopInv'
  BY <1>14, Kinds, Nones DEF LoopTells, Advertise, Offered, TypeOK, EntryType, KindInv,
     ClearInv, ApartInv, Opening, Starting
<1>15. ASSUME NEW l \in Loop, Retry(l) PROVE LoopInv'
  BY <1>15, Kinds, Nones DEF Retry, TypeOK, EntryType, KindInv, ClearInv, ApartInv, Opening,
     Starting
<1>16. ASSUME NEW l \in Loop, RetryFailed(l) PROVE LoopInv'
  BY <1>16, Kinds, Nones DEF RetryFailed, TypeOK, EntryType, KindInv, ClearInv, ApartInv,
     Opening, Starting
<1>17. ASSUME NEW r \in Reloader, BeginReload(r) PROVE LoopInv'
  BY <1>17, Kinds, Nones DEF BeginReload, Running, TypeOK, EntryType, KindInv, ClearInv,
     ApartInv, Opening, Starting
<1>18. ASSUME NEW r \in Reloader, ReloadClears(r) PROVE LoopInv'
  BY <1>18, Clearing, Kinds, Nones DEF Kept, TypeOK, EntryType, KindInv, HoldInv, EntryInv,
     ClearInv, Opening, Running
<1>19. ASSUME NEW r \in Reloader, ReloadCloses(r) PROVE LoopInv'
  BY <1>19, Kinds, Nones DEF ReloadCloses, TypeOK, EntryType, KindInv, ClearInv, ApartInv,
     Opening, Starting
<1>20. ASSUME NEW r \in Reloader, ReloadUpdates(r) PROVE LoopInv'
  BY <1>20, Kinds, Nones DEF ReloadUpdates, NewEntry, TypeOK, EntryType, KindInv, ClearInv,
     ApartInv, Opening, Starting
<1>21. ASSUME NEW r \in Reloader, ReloadStarted(r) PROVE LoopInv'
  BY <1>21, Kinds, Nones DEF ReloadStarted, TypeOK, EntryType, KindInv, ClearInv, ApartInv,
     Opening, Starting
<1>22. ASSUME NEW r \in Reloader, ReloadTells(r) PROVE LoopInv'
  BY <1>22, Kinds, Nones DEF ReloadTells, Advertise, Offered, TypeOK, EntryType, KindInv,
     ClearInv, ApartInv, Opening, Starting
<1>23. ASSUME NEW p \in Login, BeginLogin(p) PROVE LoopInv'
  BY <1>23, Kinds, Nones DEF BeginLogin, TypeOK, EntryType, KindInv, ClearInv, ApartInv,
     Opening, Starting
<1>24. ASSUME NEW p \in Login, FinishLogin(p) PROVE LoopInv'
  BY <1>24, Kinds, Nones DEF FinishLogin, TypeOK, EntryType, KindInv, ClearInv, ApartInv,
     Opening, Starting
<1>25. ASSUME NEW p \in Login, LoginEnds(p) PROVE LoopInv'
  BY <1>25, Kinds, Nones DEF LoginEnds, Advertise, Offered, TypeOK, EntryType, KindInv,
     ClearInv, ApartInv, Opening, Starting
<1>26. ASSUME NEW t \in Lister, ToolsChange(t) PROVE LoopInv'
  BY <1>26, Kinds, Nones DEF ToolsChange, TypeOK, EntryType, KindInv, ClearInv, ApartInv,
     Opening, Starting
<1>27. ASSUME NEW t \in Lister, ListerChecks(t) \/ ListerLists(t) \/ ListerTells(t) PROVE LoopInv'
  BY <1>27, Kinds, Nones DEF ListerChecks, ListerLists, ListerTells, Advertise, Offered, TypeOK,
     EntryType, KindInv, ClearInv, ApartInv, Opening, Starting
<1>28. ASSUME NEW t \in Lister, ListerStores(t) PROVE LoopInv'
  BY <1>28, Kinds, Nones DEF ListerStores, TypeOK, EntryType, KindInv, ClearInv, ApartInv,
     Opening, Starting
<1>29. ASSUME NEW k \in Caller, CallSlow(k) \/ CallSnapshots(k) \/ CallWakes(k) \/ CallTimesOut(k)
      PROVE  LoopInv'
  BY <1>29, Kinds, Nones DEF CallSlow, CallSnapshots, CallWakes, CallTimesOut, TypeOK,
     EntryType, KindInv, ClearInv, ApartInv, Opening, Starting
<1>30. CASE BeginClose
  BY <1>30, Kinds, Nones DEF BeginClose, TypeOK, EntryType, KindInv, ClearInv, ApartInv,
     Opening, Starting
<1>31. CASE CloseSnapshots
  BY <1>31, Snapshot, Kinds, Nones DEF Kept, TypeOK, EntryType, KindInv, HoldInv, EntryInv,
     ClearInv, Opening, Running
<1>32. CASE CloseCloses
  BY <1>32, Kinds, Nones DEF CloseCloses, TypeOK, EntryType, KindInv, ClearInv, ApartInv,
     Opening, Starting
<1>33. CASE CloseJoins
  BY <1>33, Kinds, Nones DEF CloseJoins, TypeOK, EntryType, KindInv, ClearInv, ApartInv,
     Opening, Starting
<1>34. CASE SessionDies
  BY <1>34, Kinds, Nones DEF SessionDies, TypeOK, EntryType, KindInv, ClearInv, ApartInv,
     Opening, Starting
<1>35. CASE UNCHANGED vars
  BY <1>35 DEF vars
<1> QED
    BY <1>1, <1>2, <1>3, <1>4, <1>5, <1>6, <1>7, <1>8, <1>9, <1>10, <1>11, <1>12, <1>13, <1>14,
     <1>15, <1>16, <1>17, <1>18, <1>19, <1>20, <1>21, <1>22, <1>23, <1>24, <1>25, <1>26, <1>27,
     <1>28, <1>29, <1>30, <1>31, <1>32, <1>33, <1>34, <1>35, Steps

\* The steps strand no session.
LEMMA StrandStep ==
  ASSUME Patient, TypeOK, KindInv, HoldInv, EntryInv, ApartInv, ClearInv, LoopInv, NoSessionStranded,
         [Next]_vars
  PROVE  NoSessionStranded'
<1> USE DEF NoSessionStranded, Goto, CloseConn, LetGo, GiveUp, CallReturns, entryVars, liveVars,
   localVars, outVars
<1>1. ASSUME NEW g \in Dialer, DialOk(g) PROVE NoSessionStranded'
  BY <1>1, Kinds, Nones DEF DialOk, Unused, TypeOK, EntryType, HoldInv, KindInv
<1>2. ASSUME NEW g \in Dialer, DialFails(g) PROVE NoSessionStranded'
  BY <1>2, Kinds, Nones DEF DialFails, TypeOK, EntryType, HoldInv, KindInv
<1>3. ASSUME NEW g \in Dialer, InstallSession(g) PROVE NoSessionStranded'
  <2>1. g \in Goroutine /\ pc[g] = "install"
    BY <1>3, Installing, Kinds
  <2>2. \A k \in Goroutine \ {g} : pc'[k] = pc[k] /\ mine'[k] = mine[k]
    BY <1>3, <2>1, Installing DEF TypeOK
  <2>3. g \notin cancelled => entry.session = None
    BY <2>1 DEF ClearInv, LoopInv, Opener
  <2>4. CASE entry'.session = mine[g] /\ g \notin cancelled /\ UNCHANGED conn
    BY <2>2, <2>3, <2>4, Nones, Kinds
  <2>5. CASE UNCHANGED entry /\ conn' = [conn EXCEPT ![mine[g]] = "closed"]
    BY <2>2, <2>5, Nones, Kinds DEF TypeOK
  <2> QED
    BY <1>3, <2>1, <2>4, <2>5, Installing
<1>4. ASSUME NEW g \in Dialer, CloseReady(g) PROVE NoSessionStranded'
  BY <1>4, Kinds, Nones DEF CloseReady, TypeOK, EntryType, HoldInv, KindInv
<1>5. ASSUME NEW g \in Opener, StartLoop(g) PROVE NoSessionStranded'
  BY <1>5, Kinds, Nones DEF StartLoop, Running, Configured, TypeOK, EntryType, HoldInv, KindInv
<1>6. CASE StartOver
  BY <1>6, Kinds, Nones DEF StartOver, Configured, TypeOK, EntryType, HoldInv, KindInv
<1>7. CASE StartFails
  BY <1>7, Failing, Kinds, Nones DEF Kept, TypeOK, HoldInv, KindInv, EntryInv, ClearInv
<1>8. CASE StartDrops
  BY <1>8, Kinds, Nones DEF StartDrops, TypeOK, EntryType, HoldInv, KindInv
<1>9. CASE StartTells
  BY <1>9, Kinds, Nones DEF StartTells, Advertise, Offered, Configured, TypeOK, EntryType,
     HoldInv, KindInv
<1>10. ASSUME NEW l \in Loop, LoopChecks(l) PROVE NoSessionStranded'
  BY <1>10, Kinds, Nones DEF LoopChecks, Retired, LoopExits, Configured, TypeOK, EntryType,
     HoldInv, KindInv
<1>11. ASSUME NEW l \in Loop, LoopLooks(l) PROVE NoSessionStranded'
  BY <1>11, Kinds, Nones DEF LoopLooks, TypeOK, EntryType, HoldInv, KindInv
<1>12. ASSUME NEW l \in Loop, SessionEnds(l) PROVE NoSessionStranded'
  BY <1>12, Kinds, Nones DEF SessionEnds, TypeOK, EntryType, HoldInv, KindInv
<1>13. ASSUME NEW l \in Loop, HandleSessionEnd(l) PROVE NoSessionStranded'
  BY <1>13, Ending, Kinds, Nones DEF Kept, TypeOK, HoldInv, KindInv, EntryInv, ClearInv
<1>14. ASSUME NEW l \in Loop, LoopTells(l) PROVE NoSessionStranded'
  BY <1>14, Kinds, Nones DEF LoopTells, Advertise, Offered, Configured, TypeOK, EntryType,
     HoldInv, KindInv
<1>15. ASSUME NEW l \in Loop, Retry(l) PROVE NoSessionStranded'
  BY <1>15, Kinds, Nones DEF Retry, TypeOK, EntryType, HoldInv, KindInv
<1>16. ASSUME NEW l \in Loop, RetryFailed(l) PROVE NoSessionStranded'
  BY <1>16, Kinds, Nones DEF RetryFailed, Configured, TypeOK, EntryType, HoldInv, KindInv
<1>17. ASSUME NEW r \in Reloader, BeginReload(r) PROVE NoSessionStranded'
  BY <1>17, Deciding, Kinds, Nones DEF TypeOK, HoldInv
<1>18. ASSUME NEW r \in Reloader, ReloadClears(r) PROVE NoSessionStranded'
  BY <1>18, Clearing, Kinds, Nones DEF Kept, TypeOK, HoldInv, KindInv, EntryInv, ClearInv
<1>19. ASSUME NEW r \in Reloader, ReloadCloses(r) PROVE NoSessionStranded'
  BY <1>19, Kinds, Nones DEF ReloadCloses, TypeOK, EntryType, HoldInv, KindInv
<1>20. ASSUME NEW r \in Reloader, ReloadUpdates(r) PROVE NoSessionStranded'
  BY <1>20, Updating, Kinds, Nones DEF TypeOK, ClearInv
<1>21. ASSUME NEW r \in Reloader, ReloadStarted(r) PROVE NoSessionStranded'
  BY <1>21, Kinds, Nones DEF ReloadStarted, Configured, TypeOK, EntryType, HoldInv, KindInv
<1>22. ASSUME NEW r \in Reloader, ReloadTells(r) PROVE NoSessionStranded'
  BY <1>22, Kinds, Nones DEF ReloadTells, Advertise, Offered, Configured, TypeOK, EntryType,
     HoldInv, KindInv
<1>23. ASSUME NEW p \in Login, BeginLogin(p) PROVE NoSessionStranded'
  BY <1>23, Kinds, Nones DEF BeginLogin, Configured, TypeOK, EntryType, HoldInv, KindInv
<1>24. ASSUME NEW p \in Login, FinishLogin(p) PROVE NoSessionStranded'
  BY <1>24, Kinds, Nones DEF FinishLogin, TypeOK, EntryType, HoldInv, KindInv
<1>25. ASSUME NEW p \in Login, LoginEnds(p) PROVE NoSessionStranded'
  BY <1>25, Kinds, Nones DEF LoginEnds, Advertise, Offered, Configured, TypeOK, EntryType,
     HoldInv, KindInv
<1>26. ASSUME NEW t \in Lister, ToolsChange(t) PROVE NoSessionStranded'
  BY <1>26, Kinds, Nones DEF ToolsChange, TypeOK, EntryType, HoldInv, KindInv
<1>27. ASSUME NEW t \in Lister, ListerChecks(t) \/ ListerLists(t) \/ ListerTells(t)
      PROVE  NoSessionStranded'
  BY <1>27, Kinds, Nones DEF ListerChecks, ListerLists, ListerTells, Advertise, Offered,
     Configured, TypeOK, EntryType, HoldInv, KindInv
<1>28. ASSUME NEW t \in Lister, ListerStores(t) PROVE NoSessionStranded'
  BY <1>28, Kinds, Nones DEF ListerStores, Configured, TypeOK, EntryType, HoldInv, KindInv
<1>29. ASSUME NEW k \in Caller, CallSlow(k) \/ CallSnapshots(k) \/ CallWakes(k) \/ CallTimesOut(k)
      PROVE  NoSessionStranded'
  BY <1>29, Kinds, Nones DEF CallSlow, CallSnapshots, CallWakes, CallTimesOut, Configured,
     TypeOK, EntryType, HoldInv, KindInv
<1>30. CASE BeginClose
  BY <1>30, Kinds, Nones DEF BeginClose, TypeOK, EntryType, HoldInv, KindInv
<1>31. CASE CloseSnapshots
  BY <1>31, Snapshot, Kinds, Nones DEF Kept, TypeOK, HoldInv, KindInv, EntryInv, ClearInv
<1>32. CASE CloseCloses
  BY <1>32, Kinds, Nones DEF CloseCloses, TypeOK, EntryType, HoldInv, KindInv
<1>33. CASE CloseJoins
  BY <1>33, Kinds, Nones DEF CloseJoins, TypeOK, EntryType, HoldInv, KindInv
<1>34. CASE SessionDies
  BY <1>34, Kinds, Nones DEF SessionDies, TypeOK, EntryType, HoldInv, KindInv
<1>35. CASE UNCHANGED vars
  BY <1>35 DEF vars
<1> QED
    BY <1>1, <1>2, <1>3, <1>4, <1>5, <1>6, <1>7, <1>8, <1>9, <1>10, <1>11, <1>12, <1>13, <1>14,
     <1>15, <1>16, <1>17, <1>18, <1>19, <1>20, <1>21, <1>22, <1>23, <1>24, <1>25, <1>26, <1>27,
     <1>28, <1>29, <1>30, <1>31, <1>32, <1>33, <1>34, <1>35, Steps

\* The steps keep who may install a session to the entry's configuration.
LEMMA ConfigStep ==
  ASSUME Patient, Steady, TypeOK, KindInv, HoldInv, EntryInv, ApartInv, ClearInv, LoopInv, ConfigInv,
         [Next]_vars
  PROVE  ConfigInv'
<1> USE DEF ConfigInv, SessionHasItsConfig, Goto, CloseConn, LetGo, GiveUp, CallReturns,
   entryVars, liveVars, localVars, outVars
<1>1. ASSUME NEW g \in Dialer, DialOk(g) PROVE ConfigInv'
  BY <1>1, Kinds, Nones DEF DialOk, Unused, TypeOK, EntryType, HoldInv, KindInv
<1>2. ASSUME NEW g \in Dialer, DialFails(g) PROVE ConfigInv'
  BY <1>2, Kinds, Nones DEF DialFails, TypeOK, EntryType, HoldInv, KindInv
<1>3. ASSUME NEW g \in Dialer, InstallSession(g) PROVE ConfigInv'
  <2>1. g \in Goroutine
    BY Kinds
  <2> QED
    BY <1>3, <2>1, Installing, Kinds, Nones DEF Kept, TypeOK, HoldInv, KindInv, EntryInv,
       ClearInv, LoopInv, LoopIsKnown
<1>4. ASSUME NEW g \in Dialer, CloseReady(g) PROVE ConfigInv'
  BY <1>4, Kinds, Nones DEF CloseReady, TypeOK, EntryType, HoldInv, KindInv
<1>5. ASSUME NEW g \in Opener, StartLoop(g) PROVE ConfigInv'
  BY <1>5, Kinds, Nones DEF StartLoop, Running, Configured, TypeOK, EntryType, HoldInv, KindInv
<1>6. CASE StartOver
  BY <1>6, Kinds, Nones DEF StartOver, Configured, TypeOK, EntryType, HoldInv, KindInv
<1>7. CASE StartFails
  BY <1>7, Failing, Kinds, Nones DEF Kept, TypeOK, HoldInv, KindInv, EntryInv, ClearInv,
     LoopInv, LoopIsKnown
<1>8. CASE StartDrops
  BY <1>8, Kinds, Nones DEF StartDrops, TypeOK, EntryType, HoldInv, KindInv
<1>9. CASE StartTells
  BY <1>9, Kinds, Nones DEF StartTells, Advertise, Offered, Configured, TypeOK, EntryType,
     HoldInv, KindInv
<1>10. ASSUME NEW l \in Loop, LoopChecks(l) PROVE ConfigInv'
  BY <1>10, Kinds, Nones DEF LoopChecks, Retired, LoopExits, Configured, TypeOK, EntryType,
     HoldInv, KindInv
<1>11. ASSUME NEW l \in Loop, LoopLooks(l) PROVE ConfigInv'
  BY <1>11, Kinds, Nones DEF LoopLooks, TypeOK, EntryType, HoldInv, KindInv
<1>12. ASSUME NEW l \in Loop, SessionEnds(l) PROVE ConfigInv'
  BY <1>12, Kinds, Nones DEF SessionEnds, TypeOK, EntryType, HoldInv, KindInv
<1>13. ASSUME NEW l \in Loop, HandleSessionEnd(l) PROVE ConfigInv'
  BY <1>13, Ending, Kinds, Nones DEF Kept, TypeOK, HoldInv, KindInv, EntryInv, ClearInv,
     LoopInv, LoopIsKnown
<1>14. ASSUME NEW l \in Loop, LoopTells(l) PROVE ConfigInv'
  BY <1>14, Kinds, Nones DEF LoopTells, Advertise, Offered, Configured, TypeOK, EntryType,
     HoldInv, KindInv
<1>15. ASSUME NEW l \in Loop, Retry(l) PROVE ConfigInv'
  BY <1>15, Kinds, Nones DEF Retry, TypeOK, EntryType, HoldInv, KindInv
<1>16. ASSUME NEW l \in Loop, RetryFailed(l) PROVE ConfigInv'
  BY <1>16, Kinds, Nones DEF RetryFailed, Configured, TypeOK, EntryType, HoldInv, KindInv
<1>17. ASSUME NEW r \in Reloader, BeginReload(r) PROVE ConfigInv'
  BY <1>17, Deciding, Kinds, Nones DEF TypeOK, HoldInv
<1>18. ASSUME NEW r \in Reloader, ReloadClears(r) PROVE ConfigInv'
  BY <1>18, Clearing, Kinds, Nones DEF Kept, TypeOK, HoldInv, KindInv, EntryInv, ClearInv,
     LoopInv, LoopIsKnown
<1>19. ASSUME NEW r \in Reloader, ReloadCloses(r) PROVE ConfigInv'
  BY <1>19, Kinds, Nones DEF ReloadCloses, TypeOK, EntryType, HoldInv, KindInv
<1>20. ASSUME NEW r \in Reloader, ReloadUpdates(r) PROVE ConfigInv'
  <2>1. pc[r] = "update" /\ entry.session = None /\ entry.loop = None
    BY <1>20, Updating, Kinds DEF ClearInv
  <2>2. entry'.config = cfg[r] /\ entry'.session = None
    BY <1>20, <2>1, Updating
  <2>3. \A g \in Dialer \ cancelled : pc[g] \notin {"dial", "install"}
    BY <2>1, Alone, Kinds, Nones DEF LoopInv, LoopIsKnown, Opening, Opener
  <2>4. Login = {}
    BY Kinds DEF Steady
  <2> QED
    BY <1>20, <2>2, <2>3, <2>4, Updating, Kinds DEF TypeOK
<1>21. ASSUME NEW r \in Reloader, ReloadStarted(r) PROVE ConfigInv'
  BY <1>21, Kinds, Nones DEF ReloadStarted, Configured, TypeOK, EntryType, HoldInv, KindInv
<1>22. ASSUME NEW r \in Reloader, ReloadTells(r) PROVE ConfigInv'
  BY <1>22, Kinds, Nones DEF ReloadTells, Advertise, Offered, Configured, TypeOK, EntryType,
     HoldInv, KindInv
<1>23. ASSUME NEW p \in Login, BeginLogin(p) PROVE ConfigInv'
  BY <1>23, Kinds, Nones DEF BeginLogin, Configured, TypeOK, EntryType, HoldInv, KindInv
<1>24. ASSUME NEW p \in Login, FinishLogin(p) PROVE ConfigInv'
  BY <1>24, Kinds, Nones DEF FinishLogin, TypeOK, EntryType, HoldInv, KindInv
<1>25. ASSUME NEW p \in Login, LoginEnds(p) PROVE ConfigInv'
  BY <1>25, Kinds, Nones DEF LoginEnds, Advertise, Offered, Configured, TypeOK, EntryType,
     HoldInv, KindInv
<1>26. ASSUME NEW t \in Lister, ToolsChange(t) PROVE ConfigInv'
  BY <1>26, Kinds, Nones DEF ToolsChange, TypeOK, EntryType, HoldInv, KindInv
<1>27. ASSUME NEW t \in Lister, ListerChecks(t) \/ ListerLists(t) \/ ListerTells(t)
      PROVE  ConfigInv'
  BY <1>27, Kinds, Nones DEF ListerChecks, ListerLists, ListerTells, Advertise, Offered,
     Configured, TypeOK, EntryType, HoldInv, KindInv
<1>28. ASSUME NEW t \in Lister, ListerStores(t) PROVE ConfigInv'
  BY <1>28, Kinds, Nones DEF ListerStores, Configured, TypeOK, EntryType, HoldInv, KindInv
<1>29. ASSUME NEW k \in Caller, CallSlow(k) \/ CallSnapshots(k) \/ CallWakes(k) \/ CallTimesOut(k)
      PROVE  ConfigInv'
  BY <1>29, Kinds, Nones DEF CallSlow, CallSnapshots, CallWakes, CallTimesOut, Configured,
     TypeOK, EntryType, HoldInv, KindInv
<1>30. CASE BeginClose
  BY <1>30, Kinds, Nones DEF BeginClose, TypeOK, EntryType, HoldInv, KindInv
<1>31. CASE CloseSnapshots
  BY <1>31, Snapshot, Kinds, Nones DEF Kept, TypeOK, HoldInv, KindInv, EntryInv, ClearInv,
     LoopInv, LoopIsKnown
<1>32. CASE CloseCloses
  BY <1>32, Kinds, Nones DEF CloseCloses, TypeOK, EntryType, HoldInv, KindInv
<1>33. CASE CloseJoins
  BY <1>33, Kinds, Nones DEF CloseJoins, TypeOK, EntryType, HoldInv, KindInv
<1>34. CASE SessionDies
  BY <1>34, Kinds, Nones DEF SessionDies, TypeOK, EntryType, HoldInv, KindInv
<1>35. CASE UNCHANGED vars
  BY <1>35 DEF vars
<1> QED
    BY <1>1, <1>2, <1>3, <1>4, <1>5, <1>6, <1>7, <1>8, <1>9, <1>10, <1>11, <1>12, <1>13, <1>14,
     <1>15, <1>16, <1>17, <1>18, <1>19, <1>20, <1>21, <1>22, <1>23, <1>24, <1>25, <1>26, <1>27,
     <1>28, <1>29, <1>30, <1>31, <1>32, <1>33, <1>34, <1>35, Steps

-----------------------------------------------------------------------------
(* The theorems. *)

LEMMA InitInv == Init => IInv
<1> SUFFICES ASSUME Init PROVE IInv
  OBVIOUS
<1> USE McpAssumption, Kinds, Nones
<1>1. PICK c \in Config, h \in Chan :
        LET starts == c \notin Disabled IN
        /\ entry = [NewEntry(c, h) EXCEPT !.connecting = starts]
        /\ pc = [g \in Goroutine |-> IF g \in Loop THEN "none"
                                     ELSE IF g = Starter /\ starts THEN "dial"
                                     ELSE "idle"]
        /\ cfg = [g \in Goroutine |-> IF g = Starter /\ starts THEN c ELSE None]
        /\ conn = [s \in Session |-> "closed"]
  BY DEF Init
<1>2. /\ entry.config = c /\ entry.session = None /\ entry.loop = None /\ entry.tools = None
      /\ (entry.connecting <=> c \notin Disabled)
  BY <1>1 DEF NewEntry
<1>3. /\ \A g \in Loop : pc[g] = "none"
      /\ pc[Starter] = IF c \notin Disabled THEN "dial" ELSE "idle"
      /\ \A g \in Goroutine : g \notin Loop /\ g # Starter => pc[g] = "idle"
      /\ cfg[Starter] = IF c \notin Disabled THEN c ELSE None
  BY <1>1
<1>4. TypeOK
  <2>1. entry \in EntryType
    BY <1>1 DEF NewEntry, EntryType
  <2>2. pc \in [Goroutine -> PC]
    BY <1>1 DEF PC
  <2>3. cfg \in [Goroutine -> Config \cup {None}] /\ conn \in [Session -> {"live", "dead", "closed"}]
    BY <1>1
  <2> QED
    BY <2>1, <2>2, <2>3 DEF Init, TypeOK
<1>5. KindInv
  BY <1>3 DEF KindInv, Starting, Opening
<1>6. HoldInv
  BY <1>3 DEF Init, HoldInv
<1>7. EntryInv /\ NothingInstalledAfterClose /\ ToolsOfTheSession
  BY <1>2, <1>3 DEF Init, EntryInv, NothingInstalledAfterClose, ToolsOfTheSession, Configured
<1>8. NewsInv
  BY <1>2 DEF Init, NewsInv, Offered
<1>9. ApartInv /\ ClearInv /\ LoopInv /\ NoSessionStranded
  BY <1>1, <1>2, <1>3, <1>5 DEF Init, ApartInv, ClearInv, LoopInv, LoopIsKnown, NoSessionStranded,
     Starting, Opening
<1>10. ConfigInv
  BY <1>2, <1>3 DEF ConfigInv, SessionHasItsConfig
<1> QED
  BY <1>4, <1>5, <1>6, <1>7, <1>8, <1>9, <1>10 DEF IInv, BaseInv, OwnInv

LEMMA StepInv == IInv /\ [Next]_vars => IInv'
<1> SUFFICES ASSUME IInv, [Next]_vars PROVE IInv'
  OBVIOUS
<1>1. BaseInv'
  BY TypeStep, KindStep, HoldStep, EntryStep, ToolsStep, NewsStep DEF IInv, BaseInv
<1>2. Patient => OwnInv'
  BY ApartStep, ClearStep, LoopStep, StrandStep DEF IInv, BaseInv, OwnInv
<1>3. Patient /\ Steady => ConfigInv'
  BY ConfigStep DEF IInv, BaseInv, OwnInv
<1> QED
  BY <1>1, <1>2, <1>3 DEF IInv

THEOREM Invariant == Spec => []IInv
<1> QED
  BY InitInv, StepInv, PTL DEF Spec

\* installSession against Close: what Close left behind stays empty, whoever
\* dials, logs in or reloads meanwhile.
THEOREM ClosedStaysEmpty == Spec => []NothingInstalledAfterClose
<1>1. IInv => NothingInstalledAfterClose
  BY DEF IInv, BaseInv
<1> QED
  BY <1>1, Invariant, PTL

\* ToolListChangedHandler, handleSessionEnd: the entry never has the tools of
\* another session than its own.
THEOREM ToolsBelong == Spec => []ToolsOfTheSession
<1>1. IInv => ToolsOfTheSession
  BY DEF IInv, BaseInv
<1> QED
  BY <1>1, Invariant, PTL

\* onToolsChanged: once nobody has news for the agent, it has the tools of the
\* session there is, whatever order the callbacks came in.
THEOREM AgentIsTold == Spec => []AgentHasTheTools
<1>1. IInv => AgentHasTheTools
  BY DEF IInv, BaseInv, NewsInv, Settled, AgentHasTheTools
<1> QED
  BY <1>1, Invariant, PTL

\* installSession, startReconnect, Reload, Close: a session and a loop always
\* have somebody who will end them, if nobody reloads while Start still dials.
THEOREM NobodyStranded == ASSUME Patient PROVE Spec => []NothingStranded
<1>1. IInv => NothingStranded
  BY DEF IInv, BaseInv, OwnInv, LoopInv, NothingStranded
<1> QED
  BY <1>1, Invariant, PTL

\* Reload, tryReconnect: the session installed was dialled with the server's
\* configuration, if besides no login began before a reload (Steady).
THEOREM ConfigIsCurrent == ASSUME Patient, Steady PROVE Spec => []SessionHasItsConfig
<1>1. IInv => SessionHasItsConfig
  BY DEF IInv, ConfigInv
<1> QED
  BY <1>1, Invariant, PTL

=============================================================================

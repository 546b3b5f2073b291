----------------------- MODULE ExtensionManagerProofs -----------------------
(***************************************************************************)
(* Proofs that ExtensionManager loses no process, takes none in after a    *)
(* Stop, runs no extension twice and leaves no dead auth provider, for any *)
(* extensions, calls and number of processes.                              *)
(***************************************************************************)
EXTENDS ExtensionManager, TLAPS

-----------------------------------------------------------------------------
(* The inductive invariant. *)

Under == {"locked", "looked", "draining", "starting"}   \* with reloadOneMu held
AtRest(c) == at[c] \in {"idle", "done"}

\* Which steps a call can be at, and what it holds there.
CallInv ==
  /\ at[Boot] \in {"start", "starting", "resolve", "done"}
  /\ \A r \in Reloads : at[r] \in Steps \ {"lock", "locked", "looked"}
  /\ \A s \in Stops : at[s] \in {"idle", "draining", "done"}
  /\ \A o \in Ones : at[o] \in {"idle", "lock", "done"} \cup Under
  /\ \A o \in Ones : ~ AtRest(o) => name[o] \in Exts
  /\ \A o \in Ones : at[o] \in Under <=> reloadOneMu = o
  /\ \A c \in Caller : at[c] # "starting" => todo[c] = {}

\* Setup comes before every Reload and Stop, and Reloads follow each other.
OrderInv ==
  /\ at[Boot] # "done" => \A c \in Reloads \cup Stops : at[c] = "idle"
  /\ at[Boot] = "start" => bridges = {} /\ \A o \in Ones : at[o] = "idle"
  /\ \A r, q \in Reloads : ~ AtRest(r) /\ ~ AtRest(q) => r = q
  /\ \A r \in Reloads : at[r] \in {"draining", "purge", "start"} => stopped

\* The call that starts an instance or has taken it is still at it.
OwnedInv ==
  /\ \A i \in bridges : stage[i] = "running"
  /\ \A i \in Instances : stage[i] \in Starting => at[by[i]] = "starting"
  /\ \A i \in Instances : stage[i] \in Leaving => at[by[i]] \in {"draining", "starting"}

\* Who holds the auth provider has it and is up.
Up == {"registered", "running", "taken"}
AuthInv ==
  /\ \A i \in registered : stage[i] \in Up /\ ext[i] \in AuthExts
  /\ slot # None => stage[slot] \in Up /\ ext[slot] \in AuthExts

\* While no ReloadOne has met a Start, one call at a time starts extensions,
\* of names that nothing else has, and every running instance is a bridge.
Live == {i \in Instances : i \in bridges \/ stage[i] \in Starting}
AloneInv ==
  /\ ~ Mixing
  /\ \A c, d \in Caller : at[c] = "starting" /\ at[d] = "starting" => c = d
  /\ \A i \in Instances : stage[i] = "running" => i \in bridges
  /\ \A i, j \in Live : ext[i] = ext[j] => i = j
  /\ \A c \in Caller, i \in Live : ext[i] \notin todo[c]
  /\ \A o \in Ones, i \in bridges : at[o] = "draining" => ext[i] # name[o]

\* Nothing is stopped before Setup is done; a tool leads to a process that has
\* registered it, and a ReloadOne takes out what it was asked for.
ToolInv ==
  /\ at[Boot] # "done" => ~ stopped
  /\ \A i \in Instances : stage[i] \notin {"free", "down"} => ext[i] \in Exts
  /\ \A e \in Exts : tools[e] # None =>
       /\ stage[tools[e]] \notin {"free", "handshake", "checked"}
       /\ stage[tools[e]] # "down" => ext[tools[e]] = e
  /\ \A i \in Instances, o \in Ones :
       by[i] = o /\ stage[i] \in Leaving /\ at[o] = "draining" => ext[i] = name[o]

\* Until the manager is stopped who has registered answers; while no Reload has
\* begun either, only a ReloadOne takes a bridge out, and with it its tool.
Unreloaded == ~ stopped /\ \A r \in Reloads : at[r] = "idle"
AnswerInv ==
  /\ ~ stopped =>
       \A i \in Instances : i \in bridges \/ stage[i] = "registered" => tools[ext[i]] = i
  /\ Unreloaded =>
       /\ \A i \in Instances : stage[i] = "taken" => by[i] \in Ones /\ at[by[i]] = "draining"
       /\ \A e \in Exts : tools[e] # None => stage[tools[e]] \notin {"closing", "down"}

IInv ==
  /\ TypeOK /\ CallInv /\ OrderInv /\ OwnedInv /\ AuthInv /\ ToolInv
  /\ StoppedIsEmpty
  /\ ~ mixed => AloneInv /\ AnswerInv
  /\ ~ late => \A s \in Stops : at[s] # "idle" => stopped

-----------------------------------------------------------------------------
(* Types. *)

\* Calls are of one kind each, and nothing is None.
LEMMA Values ==
  ASSUME ManagerAssumption
  PROVE  /\ None \notin Exts /\ None \notin Caller /\ None \notin Instances
         /\ Boot \in Starter /\ Starter \cap Ones = {} /\ Boot \notin Reloads
         /\ Stops \cap (Starter \cup Ones) = {}
         /\ Reloads \subseteq Starter /\ Starter \subseteq Caller /\ Ones \subseteq Caller
         /\ Stops \subseteq Caller
BY DEF ManagerAssumption, Caller, Starter

\* What a call takes out of m.bridges is the call's.
LEMMA TakingTyped ==
  ASSUME ManagerAssumption, TypeOK, NEW c \in Caller, NEW some \in SUBSET Instances,
         NEW rest \in SUBSET Instances, TakesOut(c, some, rest)
  PROVE  /\ bridges' \in SUBSET Instances
         /\ stage' \in [Instances -> Stage]
         /\ by' \in [Instances -> Caller \cup {None}]
         /\ at' \in [Caller -> Steps]
         /\ \A i \in Instances : by'[i] # None <=> stage'[i] \in Starting \cup Leaving
<1>1. c # None
  BY Values
<1> QED
  BY <1>1 DEF TypeOK, TakesOut, Stage, Steps, Starting, Leaving

\* startOne and the teardown keep the types.
LEMMA InstanceTyped ==
  ASSUME ManagerAssumption, TypeOK, StartOne \/ Teardown, mixed' \in BOOLEAN, late' \in BOOLEAN
  PROVE  TypeOK'
<1> USE DEF TypeOK, instanceVars, callVars, registries, disk
<1>1. ASSUME NEW c \in Caller, NEW e \in Exts, Spawn(c, e) PROVE TypeOK'
  <2>1. c # None
    BY Values
  <2> QED
    BY <1>1, <2>1 DEF Spawn, Stage, Starting, Leaving
<1>2. ASSUME NEW c \in Caller, NEW e \in Exts, SpawnFails(c, e) PROVE TypeOK'
  BY <1>2 DEF SpawnFails
<1>3. ASSUME NEW i \in Instances, Handshake(i) PROVE TypeOK'
  BY <1>3 DEF Handshake, Stage, Starting, Leaving
<1>4. ASSUME NEW i \in Instances, Register(i) PROVE TypeOK'
  <2>1. tools' \in [Exts -> Instances \cup {None}]
    <3>1. tools' = [tools EXCEPT ![ext[i]] = i]
      BY <1>4 DEF Register
    <3> QED
      BY <3>1
  <2>2. registered' \in SUBSET Instances /\ slot' \in Instances \cup {None}
    BY <1>4 DEF Register
  <2> QED
    BY <1>4, <2>1, <2>2 DEF Register, Stage, Starting, Leaving
<1>5. ASSUME NEW i \in Instances, Insert(i) PROVE TypeOK'
  <2>1. CASE stopped
    BY <1>5, <2>1 DEF Insert, Stage, Starting, Leaving
  <2>2. CASE ~ stopped
    <3>1. /\ stage' = [stage EXCEPT ![i] = "running"]
          /\ bridges' = bridges \cup {i}
          /\ by' = [by EXCEPT ![i] = None]
      BY <1>5, <2>2 DEF Insert
    <3>2. UNCHANGED <<stopped, disk, ext, callVars, reloadOneMu, registries>>
      BY <1>5 DEF Insert
    <3> QED
      BY <3>1, <3>2 DEF Stage, Starting, Leaving
  <2> QED
    BY <2>1, <2>2
<1>6. ASSUME NEW i \in Instances, Unregister(i) PROVE TypeOK'
  <2>1. tools' \in [Exts -> Instances \cup {None}]
    BY <1>6 DEF Unregister
  <2> QED
    BY <1>6, <2>1 DEF Unregister, Stage, Starting, Leaving
<1>7. ASSUME NEW i \in Instances, Exit(i) PROVE TypeOK'
  BY <1>7 DEF Exit, Stage, Starting, Leaving
<1> QED
  BY <1>1, <1>2, <1>3, <1>4, <1>5, <1>6, <1>7 DEF StartOne, Teardown

\* The calls keep the types.
LEMMA CallTyped ==
  ASSUME ManagerAssumption, TypeOK, CallInv, StopOrReload \/ ReloadOne, mixed' \in BOOLEAN, late' \in BOOLEAN
  PROVE  TypeOK'
<1> USE DEF TypeOK, instanceVars, callVars, registries, disk
<1>1. ASSUME NEW c \in Caller, TakeAll(c) PROVE TypeOK'
  BY <1>1, TakingTyped DEF TakeAll
<1>2. ASSUME NEW c \in Caller, Stopped(c) PROVE TypeOK'
  BY <1>2 DEF Stopped, Goes, Steps
<1>3. ASSUME NEW c \in Caller, UnregisterExtensionTools(c) PROVE TypeOK'
  BY <1>3 DEF UnregisterExtensionTools, Goes, Steps
<1>4. ASSUME NEW c \in Caller, StartAll(c) PROVE TypeOK'
  BY <1>4 DEF StartAll, Goes, Steps
<1>5. ASSUME NEW c \in Caller, Started(c) PROVE TypeOK'
  BY <1>5 DEF Started, Goes, Steps
<1>6. ASSUME NEW c \in Caller, ResolveAuthConflicts(c) PROVE TypeOK'
  <2>1. registered' \in SUBSET Instances /\ slot' \in Instances \cup {None}
    BY <1>6 DEF ResolveAuthConflicts
  <2> QED
    BY <1>6, <2>1 DEF ResolveAuthConflicts, Goes, Steps
<1>7. ASSUME NEW o \in Ones, NEW e \in Exts, Ask(o, e) PROVE TypeOK'
  BY <1>7 DEF Ask, Goes, Steps
<1>8. ASSUME NEW o \in Ones, LockReloadOne(o) PROVE TypeOK'
  BY <1>8 DEF LockReloadOne, Goes, Steps
<1>9. ASSUME NEW o \in Ones, LookUp(o) PROVE TypeOK'
  <2>1. found' \in [Ones -> BOOLEAN]
    <3>1. (name[o] \in files \ Packaged) \in BOOLEAN
      OBVIOUS
    <3>2. found' = [found EXCEPT ![o] = name[o] \in files \ Packaged] /\ found \in [Ones -> BOOLEAN]
      BY <1>9 DEF LookUp
    <3> QED
      BY <3>1, <3>2, Zenon
  <2>2. at' \in [Caller -> Steps]
    BY <1>9 DEF LookUp, Goes, Steps
  <2>3. UNCHANGED <<bridges, stopped, disk, instanceVars, name, todo, snap, reloadOneMu, registries>>
    BY <1>9 DEF LookUp
  <2> QED
    BY <2>1, <2>2, <2>3
<1>10. ASSUME NEW o \in Ones, TakeOne(o) PROVE TypeOK'
  <2>1. PICK some \in SUBSET Instances, rest \in SUBSET Instances : TakesOut(o, some, rest)
    BY <1>10 DEF TakeOne
  <2>2. o \in Caller
    BY Values
  <2>3. /\ bridges' \in SUBSET Instances
        /\ stage' \in [Instances -> Stage]
        /\ by' \in [Instances -> Caller \cup {None}]
        /\ at' \in [Caller -> Steps]
        /\ \A i \in Instances : by'[i] # None <=> stage'[i] \in Starting \cup Leaving
    BY <2>1, <2>2, TakingTyped
  <2> QED
    BY <1>10, <2>3 DEF TakeOne
<1>11. ASSUME NEW o \in Ones, Drained(o) PROVE TypeOK'
  <2>1. name[o] \in Exts /\ o \in Caller
    BY <1>11, Values DEF Drained, Goes, CallInv, AtRest
  <2>2. todo' \in [Caller -> SUBSET Exts]
    BY <1>11, <2>1 DEF Drained
  <2> QED
    BY <1>11, <2>2 DEF Drained, Goes, Steps
<1>12. ASSUME NEW o \in Ones, ReloadedOne(o) PROVE TypeOK'
  BY <1>12 DEF ReloadedOne, Goes, Steps
<1> QED
  BY <1>1, <1>2, <1>3, <1>4, <1>5, <1>6, <1>7, <1>8, <1>9, <1>10, <1>11, <1>12
     DEF StopOrReload, ReloadOne

\* Every step keeps the types.
LEMMA StepTyped ==
  ASSUME ManagerAssumption, TypeOK, CallInv, Next
  PROVE  TypeOK'
<1>1. mixed' \in BOOLEAN /\ late' \in BOOLEAN
  BY DEF Next, TypeOK
<1>2. ASSUME NEW e \in Exts, Edit(e) PROVE TypeOK'
  <2>1. edits' \in 0 .. MaxEdits
    BY <1>2 DEF Edit, TypeOK, ManagerAssumption
  <2> QED
    BY <1>1, <1>2, <2>1 DEF Edit, TypeOK, instanceVars, callVars, registries
<1> QED
  BY <1>1, <1>2, InstanceTyped, CallTyped DEF Next

-----------------------------------------------------------------------------
(* The steps and the invariant, part by part. *)

\* Each step leaves a call where its kind can be.
LEMMA CallKeeps ==
  ASSUME ManagerAssumption, TypeOK, CallInv, Next
  PROVE  CallInv'
<1> USE Values DEF CallInv, AtRest, Under, TypeOK, callVars
<1>1. ASSUME NEW c \in Caller, NEW e \in Exts, Spawn(c, e) \/ SpawnFails(c, e) PROVE CallInv'
  BY <1>1 DEF Spawn, SpawnFails
<1>2. CASE Teardown \/ (\E i \in Instances : Handshake(i) \/ Register(i) \/ Insert(i)) \/ \E e \in Exts : Edit(e)
  BY <1>2 DEF Teardown, Unregister, Exit, Handshake, Register, Insert, Edit
<1>3. ASSUME NEW c \in Caller, TakeAll(c) PROVE CallInv'
  BY <1>3 DEF TakeAll, TakesOut, Steps
<1>4. ASSUME NEW c \in Caller, Stopped(c) PROVE CallInv'
  BY <1>4 DEF Stopped, Goes, Steps
<1>5. ASSUME NEW c \in Caller, UnregisterExtensionTools(c) \/ Started(c) \/ ResolveAuthConflicts(c)
      PROVE  CallInv'
  <2>1. c \in Starter
    BY <1>5 DEF UnregisterExtensionTools, Started, ResolveAuthConflicts, Goes, Caller
  <2>2. /\ at[c] \in {"purge", "starting", "resolve"}
        /\ \/ at[c] = "purge" /\ at' = [at EXCEPT ![c] = "start"]
           \/ at[c] = "starting" /\ at' = [at EXCEPT ![c] = "resolve"] /\ todo[c] = {}
           \/ at[c] = "resolve" /\ at' = [at EXCEPT ![c] = "done"]
        /\ UNCHANGED <<name, todo, reloadOneMu>>
    BY <1>5 DEF UnregisterExtensionTools, Started, ResolveAuthConflicts, Goes
  <2>3. c \notin Ones /\ c \notin Stops
    BY <2>1
  <2>4. at'[Boot] \in {"start", "starting", "resolve", "done"}
    BY <2>2
  <2>5. ASSUME NEW r \in Reloads PROVE at'[r] \in Steps \ {"lock", "locked", "looked"}
    <3>1. r \in Caller /\ at[r] \in Steps \ {"lock", "locked", "looked"}
      OBVIOUS
    <3>2. CASE r = c
      BY <2>2, <3>1, <3>2 DEF Steps
    <3>3. CASE r # c
      BY <2>2, <3>1, <3>3
    <3> QED
      BY <3>2, <3>3
  <2>6. \A d \in Ones \cup Stops : at'[d] = at[d]
    BY <2>2, <2>3
  <2> QED
    BY <2>2, <2>4, <2>5, <2>6
<1>6. ASSUME NEW c \in Caller, StartAll(c) PROVE CallInv'
  <2>1. c \in Starter
    BY <1>6 DEF StartAll, Goes, Caller
  <2> QED
    BY <1>6, <2>1 DEF StartAll, Goes, Steps, Starter
<1>7. ASSUME NEW o \in Ones, NEW e \in Exts, Ask(o, e) PROVE CallInv'
  <2>1. at[o] = "idle" /\ at' = [at EXCEPT ![o] = "lock"]
    BY <1>7 DEF Ask, Goes
  <2>2. name' = [name EXCEPT ![o] = e] /\ UNCHANGED <<todo, reloadOneMu>>
    BY <1>7 DEF Ask
  <2> QED
    BY <2>1, <2>2
<1>8. ASSUME NEW o \in Ones, LockReloadOne(o) \/ LookUp(o) PROVE CallInv'
  <2>1. CASE LockReloadOne(o)
    BY <2>1 DEF LockReloadOne, Goes
  <2>2. CASE LookUp(o)
    <3>1. at[o] = "locked" /\ at' = [at EXCEPT ![o] = "looked"]
      BY <2>2 DEF LookUp, Goes
    <3>2. UNCHANGED <<name, todo, reloadOneMu>>
      BY <2>2 DEF LookUp
    <3> QED
      BY <3>1, <3>2
  <2> QED
    BY <1>8, <2>1, <2>2
<1>9. ASSUME NEW o \in Ones, TakeOne(o) PROVE CallInv'
  <2>1. at[o] = "looked" /\ at' = [at EXCEPT ![o] = "draining"]
    BY <1>9 DEF TakeOne, TakesOut
  <2>2. UNCHANGED <<name, todo, reloadOneMu>>
    BY <1>9 DEF TakeOne
  <2> QED
    BY <2>1, <2>2
<1>10. ASSUME NEW o \in Ones, Drained(o) PROVE CallInv'
  <2>1. at[o] = "draining" /\ at' = [at EXCEPT ![o] = "starting"]
    BY <1>10 DEF Drained, Goes
  <2>2. UNCHANGED <<name, reloadOneMu>> /\ \A c \in Caller : c # o => todo'[c] = todo[c]
    BY <1>10 DEF Drained
  <2> QED
    BY <2>1, <2>2
<1>11. ASSUME NEW o \in Ones, ReloadedOne(o) PROVE CallInv'
  <2>1. at[o] = "starting" /\ at' = [at EXCEPT ![o] = "done"]
    BY <1>11 DEF ReloadedOne, Goes
  <2>2. /\ todo[o] = {} /\ UNCHANGED todo /\ reloadOneMu' = None
        /\ \A p \in Ones : p # o => name'[p] = name[p]
    BY <1>11 DEF ReloadedOne
  <2>3. reloadOneMu = o
    BY <2>1
  <2> QED
    BY <2>1, <2>2, <2>3
<1> QED
  BY <1>1, <1>2, <1>3, <1>4, <1>5, <1>6, <1>7, <1>8, <1>9, <1>10, <1>11
     DEF Next, StartOne, StopOrReload, ReloadOne

\* Nobody is late and no Reload runs beside another.
LEMMA OrderKeeps ==
  ASSUME ManagerAssumption, TypeOK, CallInv, OrderInv, OwnedInv, StoppedIsEmpty, Next
  PROVE  OrderInv'
<1> USE Values DEF OrderInv, AtRest, TypeOK, callVars
<1>0. at[Boot] = "start" => \A i \in Instances : stage[i] \notin Starting \cup Leaving
  <2> SUFFICES ASSUME at[Boot] = "start", NEW i \in Instances, stage[i] \in Starting \cup Leaving
               PROVE  FALSE
    OBVIOUS
  <2>1. at[by[i]] \in {"draining", "starting"} /\ by[i] \in Caller
    BY DEF OwnedInv
  <2> QED
    BY <2>1 DEF Caller, Starter
<1>1. CASE \E c \in Caller, e \in Exts : Spawn(c, e) \/ SpawnFails(c, e)
  BY <1>1 DEF Spawn, SpawnFails
<1>2. CASE Teardown \/ (\E i \in Instances : Handshake(i) \/ Register(i)) \/ \E e \in Exts : Edit(e)
  BY <1>2 DEF Teardown, Unregister, Exit, Handshake, Register, Edit
<1>3. ASSUME NEW i \in Instances, Insert(i) PROVE OrderInv'
  <2>1. at[Boot] # "start"
    BY <1>0, <1>3 DEF Insert, Starting
  <2> QED
    BY <1>3, <2>1 DEF Insert
<1>4. ASSUME NEW c \in Caller, TakeAll(c) PROVE OrderInv'
  <2>1. /\ at[c] = "idle" /\ at[Boot] = "done" /\ c \in Reloads \cup Stops
        /\ c \in Reloads => \A r \in Reloads : AtRest(r)
        /\ at' = [at EXCEPT ![c] = "draining"] /\ bridges' = {} /\ stopped' = TRUE
    BY <1>4 DEF TakeAll, TakesOut, Unhurried
  <2> QED
    BY <2>1
<1>5. ASSUME NEW c \in Caller, Stopped(c) PROVE OrderInv'
  BY <1>5 DEF Stopped, Goes
<1>6. ASSUME NEW c \in Caller, UnregisterExtensionTools(c) \/ Started(c) \/ ResolveAuthConflicts(c)
      PROVE  OrderInv'
  <2>1. c \in Starter
    BY <1>6 DEF UnregisterExtensionTools, Started, ResolveAuthConflicts, Goes, Caller, CallInv, Under
  <2>2. /\ \/ at[c] = "purge" /\ at' = [at EXCEPT ![c] = "start"]
           \/ at[c] = "starting" /\ at' = [at EXCEPT ![c] = "resolve"]
           \/ at[c] = "resolve" /\ at' = [at EXCEPT ![c] = "done"]
        /\ UNCHANGED <<bridges, stopped>>
    BY <1>6 DEF UnregisterExtensionTools, Started, ResolveAuthConflicts, Goes
  <2>3. c = Boot => at[c] # "purge"
    BY DEF CallInv
  <2> QED
    BY <2>1, <2>2, <2>3 DEF Starter
<1>7. ASSUME NEW c \in Caller, StartAll(c) PROVE OrderInv'
  <2>1. c \in Starter
    BY <1>7 DEF StartAll, Goes, Caller, CallInv, Under
  <2>2. at[c] = "start" /\ at' = [at EXCEPT ![c] = "starting"] /\ bridges' = bridges
    BY <1>7 DEF StartAll, Goes
  <2>3. \A r \in Reloads : r # c => AtRest(r)
    BY <2>1, <2>2 DEF Starter
  <2>4. CASE c = Boot
    BY <2>2, <2>4
  <2>5. CASE c \in Reloads
    <3>1. at[Boot] = "done" /\ at'[Boot] = "done"
      BY <2>2, <2>5
    <3>2. \A r \in Reloads : ~ AtRest(r)' => r = c
      BY <2>2, <2>3, <2>5
    <3> QED
      BY <2>2, <3>1, <3>2
  <2> QED
    BY <2>1, <2>4, <2>5 DEF Starter
<1>8. ASSUME NEW o \in Ones, NEW e \in Exts, Ask(o, e) PROVE OrderInv'
  BY <1>8 DEF Ask, Goes
<1>9. ASSUME NEW o \in Ones, LockReloadOne(o) \/ LookUp(o) \/ Drained(o) \/ ReloadedOne(o) PROVE OrderInv'
  <2>1. UNCHANGED <<bridges, stopped>> /\ at[o] # "idle" /\ \A c \in Caller : c # o => at'[c] = at[c]
    BY <1>9 DEF LockReloadOne, LookUp, Drained, ReloadedOne, Goes
  <2> QED
    BY <2>1
<1>10. ASSUME NEW o \in Ones, TakeOne(o) PROVE OrderInv'
  <2>1. /\ bridges' \subseteq bridges /\ stopped' = stopped /\ at[o] = "looked"
        /\ \A c \in Caller : c # o => at'[c] = at[c]
    BY <1>10 DEF TakeOne, TakesOut
  <2> QED
    BY <2>1
<1> QED
  BY <1>1, <1>2, <1>3, <1>4, <1>5, <1>6, <1>7, <1>8, <1>9, <1>10
     DEF Next, StartOne, StopOrReload, ReloadOne

\* A ReloadOne takes out every bridge of its name, and one of them as its own.
LEMMA OneTaken ==
  ASSUME NEW o \in Ones, TakeOne(o)
  PROVE  \E some \in SUBSET bridges, rest \in SUBSET bridges :
           /\ some \cap rest = {} /\ TakesOut(o, some, rest)
           /\ \A i \in rest : ext[i] # name[o]
           /\ \A i \in bridges : ext[i] # name[o] => i \in rest
           /\ (\E i \in bridges : ext[i] = name[o]) => \E i \in some : ext[i] = name[o]
<1> DEFINE those == {i \in bridges : ext[i] = name[o]}
<1>1. CASE those = {} /\ TakesOut(o, {}, bridges)
  BY <1>1
<1>2. ASSUME NEW i \in those, TakesOut(o, {i}, bridges \ those)
      PROVE  \E some \in SUBSET bridges, rest \in SUBSET bridges :
               /\ some \cap rest = {} /\ TakesOut(o, some, rest)
               /\ \A j \in rest : ext[j] # name[o]
               /\ \A j \in bridges : ext[j] # name[o] => j \in rest
               /\ (\E j \in bridges : ext[j] = name[o]) => \E j \in some : ext[j] = name[o]
  <2>1. {i} \in SUBSET bridges /\ bridges \ those \in SUBSET bridges
    OBVIOUS
  <2> QED
    BY <1>2, <2>1
<1> QED
  BY <1>1, <1>2 DEF TakeOne

\* A process has one owner: a call takes only running instances.
LEMMA OwnedKeeps ==
  ASSUME ManagerAssumption, TypeOK, CallInv, OwnedInv, Next
  PROVE  OwnedInv'
<1> USE Values DEF OwnedInv, TypeOK, callVars, instanceVars
<1>1. ASSUME NEW c \in Caller, NEW e \in Exts, Spawn(c, e) PROVE OwnedInv'
  <2>1. at[c] = "starting"
    BY <1>1 DEF Spawn, CallInv
  <2> QED
    BY <1>1, <2>1 DEF Spawn, Starting, Leaving
<1>2. CASE (\E c \in Caller, e \in Exts : SpawnFails(c, e)) \/ \E e \in Exts : Edit(e)
  BY <1>2 DEF SpawnFails, Edit
<1>3. ASSUME NEW i \in Instances, Handshake(i) \/ Register(i) PROVE OwnedInv'
  BY <1>3 DEF Handshake, Register, Starting, Leaving
<1>4. ASSUME NEW i \in Instances, Insert(i) PROVE OwnedInv'
  <2>1. CASE stopped
    BY <1>4, <2>1 DEF Insert, Starting, Leaving
  <2>2. CASE ~ stopped
    <3>1. /\ stage[i] = "registered" /\ stage' = [stage EXCEPT ![i] = "running"]
          /\ bridges' = bridges \cup {i}
          /\ by' = [by EXCEPT ![i] = None] /\ at' = at
      BY <1>4, <2>2 DEF Insert
    <3> QED
      BY <3>1 DEF Starting, Leaving
  <2> QED
    BY <2>1, <2>2
<1>5. ASSUME NEW i \in Instances, Unregister(i) \/ Exit(i) PROVE OwnedInv'
  BY <1>5 DEF Unregister, Exit, Starting, Leaving
<1>6. ASSUME NEW c \in Caller, NEW some \in SUBSET bridges, NEW rest \in SUBSET bridges,
             some \cap rest = {}, at[c] \in {"idle", "looked"}, TakesOut(c, some, rest)
      PROVE  OwnedInv'
  BY <1>6 DEF TakesOut, Starting, Leaving
<1>7. ASSUME NEW c \in Caller, TakeAll(c) PROVE OwnedInv'
  BY <1>6, <1>7 DEF TakeAll
<1>8. ASSUME NEW o \in Ones, TakeOne(o) PROVE OwnedInv'
  <2>1. at[o] = "looked" /\ o \in Caller
    BY <1>8 DEF TakeOne
  <2>2. PICK some \in SUBSET bridges, rest \in SUBSET bridges :
          some \cap rest = {} /\ TakesOut(o, some, rest)
    BY <1>8, OneTaken
  <2> QED
    BY <1>6, <2>1, <2>2
<1>9. ASSUME NEW c \in Caller, UNCHANGED <<bridges, instanceVars>>,
             at[c] \in {"draining", "starting"} => Mine(c, Starting \cup Leaving) = {},
             \A d \in Caller : d # c => at'[d] = at[d]
      PROVE  OwnedInv'
  BY <1>9 DEF Mine
<1>10. ASSUME NEW c \in Caller, Stopped(c) PROVE OwnedInv'
  <2>1. at[c] = "draining" /\ Mine(c, Leaving) = {}
    BY <1>10 DEF Stopped, Goes
  <2>2. Mine(c, Starting \cup Leaving) = {}
    BY <2>1 DEF Mine
  <2> QED
    BY <1>9, <1>10, <2>2 DEF Stopped, Goes
<1>11. ASSUME NEW c \in Caller, UnregisterExtensionTools(c) \/ StartAll(c) \/ Started(c) \/ ResolveAuthConflicts(c)
       PROVE  OwnedInv'
  <2>1. UNCHANGED <<bridges, instanceVars>> /\ \A d \in Caller : d # c => at'[d] = at[d]
    BY <1>11 DEF UnregisterExtensionTools, StartAll, Started, ResolveAuthConflicts, Goes
  <2>2. at[c] \in {"draining", "starting"} => Mine(c, Starting \cup Leaving) = {}
    BY <1>11 DEF UnregisterExtensionTools, StartAll, Started, ResolveAuthConflicts, Goes
  <2> QED
    BY <1>9, <2>1, <2>2
<1>12. ASSUME NEW o \in Ones, LockReloadOne(o) \/ LookUp(o) \/ ReloadedOne(o) \/ \E e \in Exts : Ask(o, e)
       PROVE  OwnedInv'
  <2>1. UNCHANGED <<bridges, instanceVars>> /\ \A d \in Caller : d # o => at'[d] = at[d]
    BY <1>12 DEF LockReloadOne, LookUp, ReloadedOne, Ask, Goes
  <2>2. at[o] \in {"draining", "starting"} => Mine(o, Starting \cup Leaving) = {}
    BY <1>12 DEF LockReloadOne, LookUp, ReloadedOne, Ask, Goes
  <2> QED
    BY <1>9, <2>1, <2>2
<1>13. ASSUME NEW o \in Ones, Drained(o) PROVE OwnedInv'
  <2>1. at[o] = "draining" /\ Mine(o, Leaving) = {}
    BY <1>13 DEF Drained, Goes
  <2>2. Mine(o, Starting \cup Leaving) = {}
    BY <2>1 DEF Mine
  <2> QED
    BY <1>9, <1>13, <2>2 DEF Drained, Goes
<1> QED
  BY <1>1, <1>2, <1>3, <1>4, <1>5, <1>7, <1>8, <1>10, <1>11, <1>12, <1>13
     DEF Next, StartOne, Teardown, StopOrReload, ReloadOne

\* The auth provider of an instance goes when the instance is unregistered.
LEMMA AuthKeeps ==
  ASSUME ManagerAssumption, TypeOK, OwnedInv, AuthInv, Next
  PROVE  AuthInv'
<1> USE Values DEF AuthInv, Up, TypeOK, instanceVars, registries
<1>1. CASE StartOne
  <2>1. ASSUME NEW c \in Caller, NEW e \in Exts, Spawn(c, e) \/ SpawnFails(c, e) PROVE AuthInv'
    BY <2>1 DEF Spawn, SpawnFails
  <2>2. ASSUME NEW i \in Instances, Handshake(i) PROVE AuthInv'
    BY <2>2 DEF Handshake
  <2>3. ASSUME NEW i \in Instances, Register(i) PROVE AuthInv'
    BY <2>3 DEF Register
  <2>4. ASSUME NEW i \in Instances, Insert(i) PROVE AuthInv'
    <3>1. stage[i] = "registered" /\ stage'[i] \in Up /\ UNCHANGED <<ext, registries>>
      BY <2>4 DEF Insert
    <3>2. \A j \in Instances : j # i => stage'[j] = stage[j]
      BY <2>4 DEF Insert
    <3> QED
      BY <3>1, <3>2
  <2> QED
    BY <1>1, <2>1, <2>2, <2>3, <2>4 DEF StartOne
<1>2. CASE Teardown
  <2>1. ASSUME NEW i \in Instances, Unregister(i) PROVE AuthInv'
    <3>1. registered' = registered \ {i} /\ (slot' # None => slot' = slot /\ slot # i)
      BY <2>1 DEF Unregister
    <3>2. ext' = ext /\ \A j \in Instances : j # i => stage'[j] = stage[j]
      BY <2>1 DEF Unregister
    <3> QED
      BY <3>1, <3>2
  <2>2. ASSUME NEW i \in Instances, Exit(i) PROVE AuthInv'
    BY <2>2 DEF Exit
  <2> QED
    BY <1>2, <2>1, <2>2 DEF Teardown
<1>3. ASSUME NEW c \in Caller, NEW some \in SUBSET bridges, NEW rest \in SUBSET bridges,
             TakesOut(c, some, rest), UNCHANGED <<ext, registries>>
      PROVE  AuthInv'
  <2>1. \A i \in Instances : stage'[i] = stage[i] \/ stage'[i] = "taken"
    BY <1>3 DEF TakesOut
  <2> QED
    BY <1>3, <2>1
<1>4. ASSUME NEW c \in Caller, TakeAll(c) PROVE AuthInv'
  BY <1>3, <1>4 DEF TakeAll
<1>5. ASSUME NEW o \in Ones, TakeOne(o) PROVE AuthInv'
  <2>1. PICK some \in SUBSET bridges, rest \in SUBSET bridges : TakesOut(o, some, rest)
    BY <1>5, OneTaken
  <2> QED
    BY <1>3, <1>5, <2>1 DEF TakeOne
<1>6. ASSUME NEW c \in Caller, ResolveAuthConflicts(c) PROVE AuthInv'
  <2>1. /\ registered' \subseteq registered /\ slot' \in registered \cup {slot, None}
        /\ UNCHANGED <<stage, ext>>
    BY <1>6 DEF ResolveAuthConflicts
  <2> QED
    BY <2>1
<1>7. CASE \/ \E c \in Caller : Stopped(c) \/ UnregisterExtensionTools(c) \/ StartAll(c) \/ Started(c)
           \/ \E o \in Ones : LockReloadOne(o) \/ LookUp(o) \/ Drained(o) \/ ReloadedOne(o)
           \/ \E o \in Ones, e \in Exts : Ask(o, e)
           \/ \E e \in Exts : Edit(e)
  <2>1. UNCHANGED <<stage, ext, registered, slot>>
    BY <1>7 DEF Stopped, UnregisterExtensionTools, StartAll, Started, LockReloadOne, LookUp,
                Drained, ReloadedOne, Ask, Edit
  <2> QED
    BY <2>1
<1> QED
  BY <1>1, <1>2, <1>4, <1>5, <1>6, <1>7 DEF Next, StopOrReload, ReloadOne

\* A stopped manager takes no bridge in, and a start clears the flag.
LEMMA StoppedKeeps ==
  ASSUME ManagerAssumption, TypeOK, StoppedIsEmpty, Next
  PROVE  StoppedIsEmpty'
<1> USE DEF StoppedIsEmpty
<1>1. ASSUME NEW i \in Instances, Insert(i) PROVE StoppedIsEmpty'
  BY <1>1 DEF Insert
<1>2. ASSUME NEW c \in Caller, TakeAll(c) \/ StartAll(c) PROVE StoppedIsEmpty'
  BY <1>2 DEF TakeAll, TakesOut, StartAll
<1>3. ASSUME NEW o \in Ones, TakeOne(o) PROVE StoppedIsEmpty'
  <2>1. bridges' \subseteq bridges /\ stopped' = stopped
    BY <1>3 DEF TakeOne, TakesOut
  <2> QED
    BY <2>1
<1>4. CASE UNCHANGED <<bridges, stopped>>
  BY <1>4
<1> QED
  BY <1>1, <1>2, <1>3, <1>4
     DEF Next, StartOne, Teardown, StopOrReload, ReloadOne, Spawn, SpawnFails, Handshake, Register,
         Unregister, Exit, Stopped, UnregisterExtensionTools, Started, ResolveAuthConflicts, Ask,
         LockReloadOne, LookUp, Drained, ReloadedOne, Edit

\* While a ReloadOne holds the lock and has not got to its start, nothing starts.
LEMMA NothingStarts ==
  ASSUME ManagerAssumption, TypeOK, CallInv, OwnedInv, ~ Mixing, NEW o \in Ones,
         at[o] \in Under \ {"starting"}
  PROVE  /\ \A c \in Caller : at[c] # "starting"
         /\ \A i \in Instances : stage[i] \notin Starting
<1>1. reloadOneMu = o /\ o # None
  BY Values DEF CallInv
<1>2. \A c \in Starter : at[c] # "starting"
  BY <1>1 DEF Mixing
<1>3. \A p \in Ones : at[p] # "starting"
  BY <1>1 DEF CallInv, Under
<1>4. \A s \in Stops : at[s] # "starting"
  BY DEF CallInv
<1>5. \A c \in Caller : at[c] # "starting"
  BY <1>2, <1>3, <1>4 DEF Caller
<1>6. \A i \in Instances : stage[i] \in Starting => by[i] \in Caller
  BY DEF TypeOK
<1> QED
  BY <1>5, <1>6 DEF OwnedInv

\* A start of all extensions finds nothing running, and is the only one.
LEMMA StartsAlone ==
  ASSUME ManagerAssumption, TypeOK, CallInv, OrderInv, OwnedInv, StoppedIsEmpty,
         NEW c \in Caller, StartAll(c), ~ Mixing'
  PROVE  /\ Live = {} /\ Live' = {} /\ bridges' = {}
         /\ \A d \in Caller : at'[d] = "starting" => d = c
<1>1. at[c] = "start" /\ at' = [at EXCEPT ![c] = "starting"] /\ UNCHANGED <<bridges, instanceVars, reloadOneMu>>
  BY DEF StartAll, Goes
<1>2. c \in Starter
  BY <1>1 DEF Caller, CallInv, Under
<1>3. reloadOneMu = None
  BY <1>1, <1>2 DEF Mixing, TypeOK
<1>4. \A o \in Ones : at[o] # "starting"
  BY <1>3, Values DEF CallInv, Under
<1>5. \A d \in Starter : at[d] # "starting"
  BY <1>1, <1>2 DEF OrderInv, Starter, AtRest
<1>6. \A d \in Caller : at[d] # "starting"
  BY <1>4, <1>5 DEF Caller, CallInv
<1>7. bridges = {}
  BY <1>1, <1>2 DEF OrderInv, Starter, StoppedIsEmpty
<1>8. \A i \in Instances : stage[i] \notin Starting
  BY <1>6 DEF OwnedInv, TypeOK
<1> QED
  BY <1>1, <1>6, <1>7, <1>8 DEF Live, instanceVars, TypeOK

\* The bridges and the starting instances keep distinct names.
LEMMA AloneKeeps ==
  ASSUME ManagerAssumption, TypeOK, CallInv, OrderInv, OwnedInv, StoppedIsEmpty, AloneInv, Next,
         ~ Mixing'
  PROVE  AloneInv'
<1> USE Values DEF AloneInv, TypeOK, callVars, instanceVars
\* What no step but those of cases 2 to 6 does.
<1>1. ASSUME Live' \subseteq Live, bridges' \subseteq bridges, \A i \in Live' : ext'[i] = ext[i],
             \A i \in Instances : stage'[i] = "running" => stage[i] = "running" /\ (i \in bridges => i \in bridges'),
             \A c \in Caller : todo'[c] \subseteq todo[c],
             \A c \in Caller : at'[c] = "starting" => at[c] = "starting",
             \A o \in Ones : at'[o] = "draining" => at[o] = "draining" /\ name'[o] = name[o]
      PROVE  AloneInv'
  <2>1. \A i \in bridges' : i \in Live'
    BY <1>1 DEF Live
  <2>2. \A i \in Instances : stage'[i] = "running" => i \in bridges'
    BY <1>1
  <2>3. \A i, j \in Live' : ext'[i] = ext'[j] => i = j
    BY <1>1
  <2>4. \A c \in Caller, i \in Live' : ext'[i] \notin todo'[c]
    BY <1>1
  <2>5. \A o \in Ones, i \in bridges' : at'[o] = "draining" => ext'[i] # name'[o]
    BY <1>1, <2>1
  <2>6. \A c, d \in Caller : at'[c] = "starting" /\ at'[d] = "starting" => c = d
    BY <1>1
  <2> QED
    BY <2>2, <2>3, <2>4, <2>5, <2>6
<1>2. ASSUME NEW c \in Caller, NEW e \in Exts, Spawn(c, e) PROVE AloneInv'
  <2>1. PICK i \in Instances : /\ stage[i] = "free" /\ stage' = [stage EXCEPT ![i] = "handshake"]
                               /\ ext' = [ext EXCEPT ![i] = e]
    BY <1>2 DEF Spawn
  <2>2. /\ e \in todo[c] /\ todo' = [todo EXCEPT ![c] = @ \ {e}]
        /\ UNCHANGED <<bridges, at, name>>
    BY <1>2 DEF Spawn
  <2>3. i \notin bridges /\ i \notin Live
    BY <2>1 DEF OwnedInv, Live, Starting
  <2>4. Live' = Live \cup {i}
    BY <2>1, <2>2 DEF Live, Starting
  <2>5. ext'[i] = e /\ \A j \in Live : ext'[j] = ext[j] /\ ext[j] # e
    BY <2>1, <2>2, <2>3 DEF Live
  <2>6. \A d \in Caller : d # c => todo[d] = {}
    BY <2>2 DEF CallInv
  <2>7. \A j, k \in Live' : ext'[j] = ext'[k] => j = k
    BY <2>4, <2>5
  <2>8. \A d \in Caller, j \in Live' : ext'[j] \notin todo'[d]
    BY <2>2, <2>4, <2>5, <2>6
  <2>9. \A j \in Instances : stage'[j] = "running" => j \in bridges'
    BY <2>1, <2>2
  <2>10. \A o \in Ones, j \in bridges' : at'[o] = "draining" => ext'[j] # name'[o]
    BY <2>1, <2>2, <2>3
  <2> QED
    BY <2>2, <2>7, <2>8, <2>9, <2>10
<1>3. ASSUME NEW i \in Instances, Insert(i) PROVE AloneInv'
  <2>1. CASE stopped
    <3>1. stage' = [stage EXCEPT ![i] = "taken"] /\ UNCHANGED <<bridges, ext, at, name, todo>>
      BY <1>3, <2>1 DEF Insert
    <3>2. Live' \subseteq Live
      BY <3>1 DEF Live, Starting
    <3> QED
      BY <1>1, <3>1, <3>2
  <2>2. CASE ~ stopped
    <3>1. /\ stage[i] = "registered" /\ stage' = [stage EXCEPT ![i] = "running"]
          /\ bridges' = bridges \cup {i} /\ UNCHANGED <<ext, at, name, todo>>
      BY <1>3, <2>2 DEF Insert
    <3>2. Live' = Live
      BY <3>1 DEF Live, Starting
    <3>3. \A o \in Ones : at[o] # "draining"
      BY <3>1, NothingStarts DEF Starting, Under
    <3>4. \A j \in Instances : stage'[j] = "running" => j \in bridges'
      BY <3>1
    <3> QED
      BY <3>1, <3>2, <3>3, <3>4
  <2> QED
    BY <2>1, <2>2
<1>4. ASSUME NEW c \in Caller, StartAll(c) PROVE AloneInv'
  <2>1. UNCHANGED stage
    BY <1>4 DEF StartAll
  <2> QED
    BY <1>4, <2>1, StartsAlone DEF Live, StartAll
<1>5. ASSUME NEW o \in Ones, TakeOne(o) PROVE AloneInv'
  <2>1. PICK some \in SUBSET bridges, rest \in SUBSET bridges :
          /\ some \cap rest = {} /\ TakesOut(o, some, rest)
          /\ \A i \in rest : ext[i] # name[o]
          /\ \A i \in bridges : ext[i] # name[o] => i \in rest
          /\ (\E i \in bridges : ext[i] = name[o]) => \E i \in some : ext[i] = name[o]
    BY <1>5, OneTaken
  <2>2. bridges \subseteq Live
    BY DEF Live
  <2>3. \A i \in bridges : i \in some \/ i \in rest
    BY <2>1, <2>2
  <2>4. /\ bridges' = rest /\ UNCHANGED <<ext, name, todo>> /\ at[o] = "looked"
        /\ stage' = [i \in Instances |-> IF i \in some THEN "taken" ELSE stage[i]]
        /\ at' = [at EXCEPT ![o] = "draining"]
    BY <1>5, <2>1 DEF TakeOne, TakesOut
  <2>5. Live' \subseteq Live
    BY <2>4 DEF Live, Starting
  <2>6. \A p \in Ones : p # o => at'[p] # "draining"
    BY <2>4 DEF CallInv, Under
  <2>7. \A i \in Instances : stage'[i] = "running" => i \in bridges'
    BY <2>3, <2>4
  <2>8. \A i, j \in Live' : ext'[i] = ext'[j] => i = j
    BY <2>4, <2>5
  <2>9. \A c \in Caller, i \in Live' : ext'[i] \notin todo'[c]
    BY <2>4, <2>5
  <2>10. \A c, d \in Caller : at'[c] = "starting" /\ at'[d] = "starting" => c = d
    BY <2>4
  <2>11. \A p \in Ones, i \in bridges' : at'[p] = "draining" => ext'[i] # name'[p]
    BY <2>1, <2>4, <2>6
  <2> QED
    BY <2>7, <2>8, <2>9, <2>10, <2>11
<1>6. ASSUME NEW o \in Ones, Drained(o) PROVE AloneInv'
  <2>1. /\ at[o] = "draining" /\ at' = [at EXCEPT ![o] = "starting"]
        /\ UNCHANGED <<bridges, stage, ext, name>>
        /\ todo' = [todo EXCEPT ![o] = IF found[o] THEN {name[o]} ELSE {}]
    BY <1>6 DEF Drained, Goes
  <2>2. /\ \A c \in Caller : at[c] # "starting"
        /\ \A i \in Instances : stage[i] \notin Starting
    BY <2>1, NothingStarts DEF Under
  <2>3. Live = bridges /\ Live' = Live
    BY <2>1, <2>2 DEF Live
  <2>4. \A c \in Caller : c # o => todo'[c] = {}
    BY <2>1, <2>2 DEF CallInv
  <2>5. todo'[o] \subseteq {name[o]}
    BY <2>1
  <2>6. \A c \in Caller, i \in Live' : ext'[i] \notin todo'[c]
    BY <2>1, <2>3, <2>4, <2>5
  <2>7. \A c, d \in Caller : at'[c] = "starting" /\ at'[d] = "starting" => c = d
    BY <2>1, <2>2
  <2>8. \A p \in Ones, i \in bridges' : at'[p] = "draining" => ext'[i] # name'[p]
    BY <2>1
  <2> QED
    BY <2>1, <2>3, <2>6, <2>7, <2>8
<1>7. ASSUME NEW c \in Caller, TakeAll(c) PROVE AloneInv'
  <2>1. /\ bridges' = {} /\ UNCHANGED <<ext, name, todo>> /\ at' = [at EXCEPT ![c] = "draining"]
        /\ stage' = [i \in Instances |-> IF i \in bridges THEN "taken" ELSE stage[i]]
        /\ c \in Reloads \cup Stops
    BY <1>7 DEF TakeAll, TakesOut
  <2>2. Live' \subseteq Live
    BY <2>1 DEF Live, Starting
  <2>3. \A i \in Instances : stage'[i] # "running"
    BY <2>1
  <2>4. \A o \in Ones : at'[o] = at[o]
    BY <2>1
  <2> QED
    BY <1>1, <2>1, <2>2, <2>3, <2>4
<1>8. CASE \/ \E c \in Caller, e \in Exts : SpawnFails(c, e)
           \/ \E i \in Instances : Handshake(i) \/ Register(i)
           \/ Teardown
           \/ \E e \in Exts : Edit(e)
  <2>1. /\ UNCHANGED <<bridges, at, name>> /\ \A c \in Caller : todo'[c] \subseteq todo[c]
        /\ \A i \in Instances : /\ stage'[i] = "running" => stage[i] = "running"
                                /\ stage'[i] \in Starting => stage[i] \in Starting
                                /\ stage[i] # "closing" => ext'[i] = ext[i]
                                /\ ext'[i] # ext[i] => stage'[i] = "down" /\ stage[i] = "closing"
    BY <1>8 DEF SpawnFails, Handshake, Register, Teardown, Unregister, Exit, Edit, Starting
  <2>2. Live' \subseteq Live
    BY <2>1 DEF Live
  <2>3. \A i \in Live' : ext'[i] = ext[i]
    BY <2>1, <2>2 DEF Live, OwnedInv, Starting
  <2> QED
    BY <1>1, <2>1, <2>2, <2>3
<1>9. CASE \/ \E c \in Caller : Stopped(c) \/ UnregisterExtensionTools(c) \/ Started(c) \/ ResolveAuthConflicts(c)
           \/ \E o \in Ones : LockReloadOne(o) \/ LookUp(o) \/ ReloadedOne(o)
           \/ \E o \in Ones, e \in Exts : Ask(o, e)
  <2>1. /\ UNCHANGED <<bridges, stage, ext, todo>>
        /\ \A c \in Caller : at'[c] = "starting" => at[c] = "starting"
        /\ \A o \in Ones : at'[o] = "draining" => at[o] = "draining" /\ name'[o] = name[o]
    BY <1>9 DEF Stopped, UnregisterExtensionTools, Started, ResolveAuthConflicts, LockReloadOne,
                LookUp, ReloadedOne, Ask, Goes
  <2>2. Live' = Live
    BY <2>1 DEF Live
  <2> QED
    BY <1>1, <2>1, <2>2
<1> QED
  BY <1>2, <1>3, <1>4, <1>5, <1>6, <1>7, <1>8, <1>9 DEF Next, StartOne, StopOrReload, ReloadOne

\* A tool leads to who registered it.
LEMMA ToolKeeps ==
  ASSUME ManagerAssumption, TypeOK, CallInv, OwnedInv, ToolInv, Next
  PROVE  ToolInv'
<1> USE Values DEF ToolInv, TypeOK, callVars, instanceVars, registries
\* What no step of cases 2 to 6 does.
<1>1. ASSUME \A e \in Exts : tools'[e] \in {tools[e], None},
             \A i \in Instances : /\ stage'[i] \in {"free", "handshake", "checked"} => stage[i] \in {"free", "handshake", "checked"}
                                  /\ stage'[i] # "free" => stage[i] # "free"
                                  /\ stage'[i] # "down" => stage[i] # "down" /\ ext'[i] = ext[i]
                                  /\ stage'[i] \in Leaving => by'[i] = by[i] /\ stage[i] \in Leaving \cup Starting,
             \A o \in Ones : at'[o] = "draining" => at[o] = "draining" /\ name'[o] = name[o],
             at'[Boot] # "done" => at[Boot] # "done", stopped' => stopped
      PROVE  ToolInv'
  <2>1. \A e \in Exts : tools'[e] # None =>
          /\ stage'[tools'[e]] \notin {"free", "handshake", "checked"}
          /\ stage'[tools'[e]] # "down" => ext'[tools'[e]] = e
    BY <1>1
  <2>2. ASSUME NEW i \in Instances, NEW o \in Ones,
               by'[i] = o, stage'[i] \in Leaving, at'[o] = "draining"
        PROVE  ext'[i] = name'[o]
    <3>1. by[i] = o /\ at[o] = "draining" /\ stage[i] \in Leaving \cup Starting /\ ext'[i] = ext[i]
      BY <1>1, <2>2 DEF Leaving
    <3>2. stage[i] \in Leaving
      BY <3>1 DEF OwnedInv
    <3> QED
      BY <1>1, <2>2, <3>1, <3>2
  <2>3. \A i \in Instances : stage'[i] \notin {"free", "down"} => ext'[i] \in Exts
    BY <1>1
  <2> QED
    BY <1>1, <2>1, <2>2, <2>3
<1>2. ASSUME NEW c \in Caller, NEW e \in Exts, Spawn(c, e) PROVE ToolInv'
  BY <1>2 DEF Spawn, Leaving
<1>3. ASSUME NEW i \in Instances, Register(i) PROVE ToolInv'
  BY <1>3 DEF Register, Leaving
<1>4. ASSUME NEW c \in Caller, TakeAll(c) PROVE ToolInv'
  <2>1. /\ bridges \in SUBSET Instances /\ UNCHANGED <<ext, tools, name>> /\ c \in Reloads \cup Stops
        /\ at[Boot] = "done"
        /\ stage' = [i \in Instances |-> IF i \in bridges THEN "taken" ELSE stage[i]]
        /\ by' = [i \in Instances |-> IF i \in bridges THEN c ELSE by[i]]
        /\ at' = [at EXCEPT ![c] = "draining"]
    BY <1>4 DEF TakeAll, TakesOut
  <2>2. \A i \in bridges : stage[i] = "running"
    BY DEF OwnedInv
  <2>3. c \notin Ones
    BY <2>1
  <2> QED
    BY <2>1, <2>2, <2>3 DEF Leaving
<1>5. ASSUME NEW o \in Ones, TakeOne(o) PROVE ToolInv'
  <2>1. PICK some \in SUBSET bridges : /\ \A i \in some : ext[i] = name[o]
                                       /\ \E rest : TakesOut(o, some, rest)
    BY <1>5 DEF TakeOne
  <2>2. /\ UNCHANGED <<ext, tools, name, stopped>> /\ at[o] = "looked"
        /\ stage' = [i \in Instances |-> IF i \in some THEN "taken" ELSE stage[i]]
        /\ by' = [i \in Instances |-> IF i \in some THEN o ELSE by[i]]
        /\ at' = [at EXCEPT ![o] = "draining"]
    BY <1>5, <2>1 DEF TakeOne, TakesOut
  <2>3. \A i \in some : stage[i] = "running"
    BY DEF OwnedInv
  <2>4. \A i \in Instances : stage[i] \in Leaving => by[i] # o
    BY <2>2 DEF OwnedInv
  <2> QED
    BY <2>1, <2>2, <2>3, <2>4 DEF Leaving
<1>6. ASSUME NEW i \in Instances, Handshake(i) \/ Insert(i) \/ Unregister(i) \/ Exit(i)
      PROVE  ToolInv'
  BY <1>1, <1>6 DEF Handshake, Insert, Unregister, Exit, Leaving, Starting
<1>7. CASE \/ \E c \in Caller, e \in Exts : SpawnFails(c, e)
           \/ \E c \in Caller : StartAll(c) \/ Stopped(c) \/ UnregisterExtensionTools(c) \/ Started(c)
                                  \/ ResolveAuthConflicts(c)
           \/ \E o \in Ones : LockReloadOne(o) \/ LookUp(o) \/ Drained(o) \/ ReloadedOne(o)
           \/ \E o \in Ones, e \in Exts : Ask(o, e)
           \/ \E e \in Exts : Edit(e)
  <2>1. /\ UNCHANGED <<stage, ext, by>> /\ \A e \in Exts : tools'[e] \in {tools[e], None}
        /\ \A o \in Ones : at'[o] = "draining" => at[o] = "draining" /\ name'[o] = name[o]
        /\ (at'[Boot] # "done" => at[Boot] # "done") /\ (stopped' => stopped)
    BY <1>7 DEF SpawnFails, StartAll, Stopped, UnregisterExtensionTools, Started,
                ResolveAuthConflicts, LockReloadOne, LookUp, Drained, ReloadedOne, Ask, Edit, Goes
  <2> QED
    BY <1>1, <2>1 DEF Leaving
<1> QED
  BY <1>2, <1>3, <1>4, <1>5, <1>6, <1>7
     DEF Next, StartOne, Teardown, StopOrReload, ReloadOne

\* Who has registered answers, until the manager is stopped.
LEMMA AnswerKeeps ==
  ASSUME ManagerAssumption, TypeOK, CallInv, OrderInv, OwnedInv, ToolInv, StoppedIsEmpty,
         AloneInv, AnswerInv, Next, ~ Mixing'
  PROVE  AnswerInv'
<1> USE Values DEF AnswerInv, TypeOK, Unreloaded, callVars, instanceVars, registries
\* What no step of cases 2 to 7 does.
<1>1. ASSUME UNCHANGED <<bridges, by, tools>>, stopped' => stopped, stopped => stopped',
             \A r \in Reloads : at'[r] = "idle" => at[r] = "idle",
             \A i \in Instances : /\ stage'[i] \in {"registered", "taken", "closing", "down"} => stage[i] = stage'[i]
                                  /\ ext'[i] = ext[i],
             \A o \in Ones : at[o] = "draining" => at'[o] = "draining" \/ \A i \in Instances : by[i] = o => stage[i] # "taken"
      PROVE  AnswerInv'
  <2>1. ASSUME ~ stopped', NEW i \in Instances, i \in bridges' \/ stage'[i] = "registered"
        PROVE  tools'[ext'[i]] = i
    BY <1>1, <2>1
  <2>2. ASSUME Unreloaded', NEW i \in Instances, stage'[i] = "taken"
        PROVE  by'[i] \in Ones /\ at'[by'[i]] = "draining"
    BY <1>1, <2>2
  <2>3. ASSUME Unreloaded', NEW e \in Exts, tools'[e] # None
        PROVE  stage'[tools'[e]] \notin {"closing", "down"}
    BY <1>1, <2>3
  <2> QED
    BY <2>1, <2>2, <2>3
<1>2. ASSUME NEW i \in Instances, Handshake(i) PROVE AnswerInv'
  BY <1>2 DEF Handshake, ToolInv
<1>3. ASSUME NEW i \in Instances, Register(i) PROVE AnswerInv'
  <2>1. /\ stage[i] = "checked" /\ stage' = [stage EXCEPT ![i] = "registered"]
        /\ tools' = [tools EXCEPT ![ext[i]] = i]
        /\ UNCHANGED <<bridges, stopped, ext, by, at>>
    BY <1>3 DEF Register
  <2>2. \A j \in Instances : j \in bridges \/ stage[j] = "registered" => j \in Live
    BY DEF Live, Starting
  <2>3. i \in Live
    BY <2>1 DEF Live, Starting
  <2>4. \A j \in Instances : j # i /\ (j \in bridges \/ stage[j] = "registered") => ext[j] # ext[i]
    BY <2>2, <2>3 DEF AloneInv
  <2>5. ext[i] \in Exts
    BY <2>1 DEF ToolInv
  <2> QED
    BY <2>1, <2>4, <2>5
<1>4. ASSUME NEW i \in Instances, Insert(i) PROVE AnswerInv'
  BY <1>4 DEF Insert
<1>5. ASSUME NEW i \in Instances, Unregister(i) PROVE AnswerInv'
  <2>1. /\ stage[i] = "taken" /\ stage' = [stage EXCEPT ![i] = "closing"]
        /\ tools' = IF by[i] \in Ones /\ at[by[i]] = "draining" THEN [tools EXCEPT ![ext[i]] = None]
                    ELSE tools
        /\ UNCHANGED <<bridges, stopped, ext, by, at>>
    BY <1>5 DEF Unregister
  <2>2. ext[i] \in Exts
    BY <2>1 DEF ToolInv
  <2>3. ASSUME by[i] \in Ones, at[by[i]] = "draining",
               NEW j \in Instances, j \in bridges \/ stage[j] = "registered"
        PROVE  ext[j] # ext[i]
    <3>1. ext[i] = name[by[i]]
      BY <2>1, <2>3 DEF ToolInv, Leaving
    <3>2. stage[j] # "registered"
      BY <2>3, NothingStarts DEF Under, Starting, AloneInv
    <3> QED
      BY <2>3, <3>1, <3>2 DEF AloneInv
  <2>4. ASSUME ~ stopped', NEW j \in Instances, j \in bridges' \/ stage'[j] = "registered"
        PROVE  tools'[ext'[j]] = j
    <3>1. tools[ext[j]] = j /\ (j \in bridges \/ stage[j] = "registered")
      BY <2>1, <2>4
    <3>2. ext[j] \in Exts
      BY <3>1 DEF OwnedInv, ToolInv
    <3> QED
      BY <2>1, <2>3, <3>1, <3>2
  <2>5. ASSUME Unreloaded', NEW j \in Instances, stage'[j] = "taken"
        PROVE  by'[j] \in Ones /\ at'[by'[j]] = "draining"
    BY <2>1, <2>5
  <2>6. ASSUME Unreloaded', NEW e \in Exts, tools'[e] # None
        PROVE  stage'[tools'[e]] \notin {"closing", "down"}
    <3>1. by[i] \in Ones /\ at[by[i]] = "draining"
      BY <2>1, <2>6
    <3>2. tools[e] # None /\ e # ext[i] /\ tools'[e] = tools[e] /\ tools[e] \in Instances
      BY <2>1, <2>2, <2>6, <3>1
    <3>3. stage[tools[e]] \notin {"closing", "down"}
      BY <2>1, <2>6, <3>2
    <3>4. tools[e] # i
      BY <2>1, <3>2, <3>3 DEF ToolInv
    <3> QED
      BY <2>1, <3>2, <3>3, <3>4
  <2> QED
    BY <2>4, <2>5, <2>6
<1>6. ASSUME NEW i \in Instances, Exit(i) PROVE AnswerInv'
  BY <1>6 DEF Exit, OwnedInv
<1>7. ASSUME NEW c \in Caller, TakeAll(c) \/ UnregisterExtensionTools(c) PROVE AnswerInv'
  <2>1. ASSUME UnregisterExtensionTools(c)
        PROVE  stopped'
    <3>1. at[c] = "purge" /\ stopped' = stopped
      BY <2>1 DEF UnregisterExtensionTools, Goes
    <3>2. c \in Reloads
      BY <3>1 DEF CallInv, Under, Caller, Starter
    <3> QED
      BY <3>1, <3>2 DEF OrderInv
  <2>2. ASSUME TakeAll(c)
        PROVE  stopped'
    BY <2>2 DEF TakeAll
  <2>3. stopped'
    BY <1>7, <2>1, <2>2
  <2> QED
    BY <2>3
<1>8. ASSUME NEW c \in Caller, StartAll(c) PROVE AnswerInv'
  <2>1. at[c] = "start" /\ at' = [at EXCEPT ![c] = "starting"] /\ UNCHANGED <<stage, ext, by, tools>>
    BY <1>8 DEF StartAll, Goes
  <2>2. Live' = {}
    BY <1>8, StartsAlone
  <2>3. \A i \in Instances : i \notin bridges' /\ stage'[i] # "registered"
    BY <2>2 DEF Live, Starting
  <2>4. c \in Reloads \cup {Boot}
    BY <2>1 DEF CallInv, Under, Caller, Starter
  <2>5. ASSUME Unreloaded'
        PROVE  Unreloaded
    <3>1. c = Boot
      BY <2>1, <2>4, <2>5
    <3> QED
      BY <2>1, <2>4, <2>5, <3>1 DEF OrderInv, ToolInv
  <2> QED
    BY <2>1, <2>3, <2>5
<1>9. ASSUME NEW c \in Caller, NEW e \in Exts, Spawn(c, e) PROVE AnswerInv'
  <2>1. PICK i \in Instances : /\ stage[i] = "free" /\ stage' = [stage EXCEPT ![i] = "handshake"]
                               /\ ext' = [ext EXCEPT ![i] = e] /\ by' = [by EXCEPT ![i] = c]
    BY <1>9 DEF Spawn
  <2>2. UNCHANGED <<bridges, stopped, at, tools>>
    BY <1>9 DEF Spawn
  <2>3. i \notin bridges
    BY <2>1 DEF OwnedInv
  <2> QED
    BY <2>1, <2>2, <2>3
<1>10. ASSUME NEW o \in Ones, TakeOne(o) PROVE AnswerInv'
  BY <1>10 DEF TakeOne, TakesOut
<1>11. CASE \/ \E c \in Caller, e \in Exts : SpawnFails(c, e)
            \/ \E c \in Caller : Stopped(c) \/ Started(c) \/ ResolveAuthConflicts(c)
            \/ \E o \in Ones : LockReloadOne(o) \/ LookUp(o) \/ Drained(o) \/ ReloadedOne(o)
            \/ \E o \in Ones, e \in Exts : Ask(o, e)
            \/ \E e \in Exts : Edit(e)
  BY <1>1, <1>11 DEF SpawnFails, Stopped, Started, ResolveAuthConflicts, LockReloadOne, LookUp, Drained,
                ReloadedOne, Ask, Edit, Goes, Mine, Leaving, disk
<1> QED
  BY <1>2, <1>3, <1>4, <1>5, <1>6, <1>7, <1>8, <1>9, <1>10, <1>11
     DEF Next, StartOne, Teardown, StopOrReload, ReloadOne

\* Once a Stop has begun only a Reload clears m.stopped.
LEMMA LateKeeps ==
  ASSUME ManagerAssumption, TypeOK, CallInv, OrderInv, Next, ~ Late',
         \A s \in Stops : at[s] # "idle" => stopped
  PROVE  \A s \in Stops : at'[s] # "idle" => stopped'
<1> USE Values DEF TypeOK, callVars
<1>1. ASSUME NEW c \in Caller, StartAll(c) PROVE \A s \in Stops : at'[s] # "idle" => stopped'
  <2>1. at[c] = "start" /\ at' = [at EXCEPT ![c] = "starting"]
    BY <1>1 DEF StartAll, Goes
  <2>2. c \in Starter
    BY <2>1 DEF Caller, CallInv, Under
  <2>3. CASE c = Boot
    BY <2>1, <2>3 DEF OrderInv
  <2>4. CASE c \in Reloads
    BY <2>1, <2>4 DEF Late
  <2> QED
    BY <2>2, <2>3, <2>4 DEF Starter
<1>2. ASSUME NEW c \in Caller, TakeAll(c) PROVE \A s \in Stops : at'[s] # "idle" => stopped'
  BY <1>2 DEF TakeAll
<1>3. ASSUME stopped' = stopped, \A s \in Stops : at'[s] # "idle" => at[s] # "idle"
      PROVE  \A s \in Stops : at'[s] # "idle" => stopped'
  BY <1>3
<1>4. ASSUME NEW c \in Caller, Stopped(c) \/ UnregisterExtensionTools(c) \/ Started(c) \/ ResolveAuthConflicts(c)
      PROVE  \A s \in Stops : at'[s] # "idle" => stopped'
  <2>1. stopped' = stopped /\ at[c] # "idle" /\ \A d \in Caller : d # c => at'[d] = at[d]
    BY <1>4 DEF Stopped, UnregisterExtensionTools, Started, ResolveAuthConflicts, Goes
  <2> QED
    BY <1>3, <2>1
<1>5. ASSUME NEW o \in Ones, LockReloadOne(o) \/ LookUp(o) \/ Drained(o) \/ ReloadedOne(o) \/ TakeOne(o)
                             \/ \E e \in Exts : Ask(o, e)
      PROVE  \A s \in Stops : at'[s] # "idle" => stopped'
  <2>1. stopped' = stopped /\ \A d \in Caller : d # o => at'[d] = at[d]
    BY <1>5 DEF LockReloadOne, LookUp, Drained, ReloadedOne, Ask, TakeOne, TakesOut, Goes
  <2> QED
    BY <1>3, <2>1
<1>6. CASE StartOne \/ Teardown \/ \E e \in Exts : Edit(e)
  <2>1. UNCHANGED <<stopped, at>>
    BY <1>6 DEF StartOne, Teardown, Spawn, SpawnFails, Handshake, Register, Insert, Unregister,
                Exit, Edit
  <2> QED
    BY <1>3, <2>1
<1> QED
  BY <1>1, <1>2, <1>4, <1>5, <1>6 DEF Next, StopOrReload, ReloadOne

-----------------------------------------------------------------------------
(* The theorems. *)

\* The manager starts with nothing running.
LEMMA InitInv == Init => IInv
<1> SUFFICES ASSUME Init PROVE IInv
  OBVIOUS
<1> USE ManagerAssumption, Values DEF Init
<1>1. TypeOK
  <2>1. 0 \in 0 .. MaxEdits
    BY DEF ManagerAssumption
  <2>2. at \in [Caller -> Steps]
    BY DEF Steps
  <2>3. stage \in [Instances -> Stage] /\ \A i \in Instances : stage[i] = "free" /\ by[i] = None
    BY DEF Stage
  <2> QED
    BY <2>1, <2>2, <2>3 DEF TypeOK, Starting, Leaving
<1>2. at[Boot] = "start" /\ \A c \in Caller : c # Boot => at[c] = "idle"
  OBVIOUS
<1>3. Boot \notin Reloads \cup Stops \cup Ones
  BY DEF Starter
<1>4. CallInv
  BY <1>2, <1>3 DEF CallInv, Under, AtRest, Steps
<1>5. OrderInv
  BY <1>2, <1>3 DEF OrderInv, AtRest
<1>6. OwnedInv /\ AuthInv /\ StoppedIsEmpty
  BY DEF OwnedInv, AuthInv, StoppedIsEmpty, Starting, Leaving
<1>7. AloneInv
  <2>1. Live = {}
    BY DEF Live, Starting
  <2> QED
    BY <1>2, <2>1 DEF AloneInv, Mixing
<1>9. ToolInv /\ AnswerInv
  BY DEF ToolInv, AnswerInv, Leaving
<1>8. \A s \in Stops : at[s] = "idle"
  BY <1>2, <1>3
<1> QED
  BY <1>1, <1>4, <1>5, <1>6, <1>7, <1>8, <1>9 DEF IInv

\* Every step keeps the invariant, and so does one that changes nothing.
LEMMA StepInv == IInv /\ [Next]_vars => IInv'
<1> SUFFICES ASSUME IInv, [Next]_vars PROVE IInv'
  OBVIOUS
<1> USE ManagerAssumption
<1>1. CASE Next
  <2>1. TypeOK' /\ CallInv' /\ OrderInv' /\ OwnedInv' /\ AuthInv' /\ ToolInv' /\ StoppedIsEmpty'
    BY <1>1, StepTyped, CallKeeps, OrderKeeps, OwnedKeeps, AuthKeeps, ToolKeeps, StoppedKeeps
       DEF IInv
  <2>2. ASSUME ~ mixed' PROVE AloneInv' /\ AnswerInv'
    <3>1. ~ mixed /\ ~ Mixing'
      BY <1>1, <2>2 DEF Next
    <3> QED
      BY <1>1, <3>1, AloneKeeps, AnswerKeeps DEF IInv
  <2>3. ASSUME ~ late' PROVE \A s \in Stops : at'[s] # "idle" => stopped'
    <3>1. ~ late /\ ~ Late'
      BY <1>1, <2>3 DEF Next
    <3> QED
      BY <1>1, <3>1, LateKeeps DEF IInv
  <2> QED
    BY <2>1, <2>2, <2>3 DEF IInv
<1>2. CASE UNCHANGED vars
  BY <1>2 DEF vars, disk, instanceVars, callVars, registries, IInv, TypeOK, CallInv, OrderInv,
              OwnedInv, AuthInv, ToolInv, AnswerInv, Unreloaded, AloneInv, StoppedIsEmpty, AtRest,
              Live, Mixing
<1> QED
  BY <1>1, <1>2

\* The manager keeps the invariant.
THEOREM Invariant == Spec => []IInv
<1> QED
  BY InitInv, StepInv, PTL DEF Spec

\* The state of the manager is typed.
THEOREM TypeCorrect == Spec => []TypeOK
<1>1. IInv => TypeOK
  BY DEF IInv
<1> QED
  BY <1>1, Invariant, PTL

\* A stopped manager takes no bridge back in (startOne 489).
THEOREM TakesNothingBack == Spec => []StoppedIsEmpty
<1>1. IInv => StoppedIsEmpty
  BY DEF IInv
<1> QED
  BY <1>1, Invariant, PTL

\* No running process is lost to the calls that could stop it, unless a
\* ReloadOne met a Start.
THEOREM LosesNothing == Spec => []NoOrphan
<1>1. IInv => NoOrphan
  BY DEF IInv, NoOrphan, OwnedInv, AloneInv
<1> QED
  BY <1>1, Invariant, PTL

\* Nor does an extension run twice.
THEOREM RunsOnce == Spec => []OnePerName
<1>1. IInv => OnePerName
  BY DEF IInv, OnePerName, AloneInv, Live, TypeOK
<1> QED
  BY <1>1, Invariant, PTL

\* Both: what runs is what the manager has, each extension once.
THEOREM RunsWhatItKnows == Spec => []RunsOnceAndKnown
<1> QED
  BY LosesNothing, RunsOnce, PTL DEF RunsOnceAndKnown

\* A stopped manager has no bridge; once the session's Stop and every other call
\* have returned, no process is
\* left, unless a ReloadOne met a Start or a Reload met the Stop.
THEOREM LeavesNothing == Spec => []StopIsFinal
<1>1. IInv => StoppedIsEmpty
  BY DEF IInv
<1>2. IInv => (~ mixed /\ ~ late => NothingLeft)
  <2> SUFFICES ASSUME IInv, ~ mixed, ~ late, NEW s \in Stops, at[s] = "done", Quiet,
                      NEW i \in Instances
               PROVE  stage[i] \in {"free", "down"}
    BY DEF NothingLeft
  <2>1. bridges = {}
    BY DEF IInv, StoppedIsEmpty
  <2>2. stage[i] # "running"
    BY <2>1 DEF IInv, AloneInv
  <2>3. stage[i] \in Starting \cup Leaving => by[i] \in Caller
    BY DEF IInv, TypeOK
  <2>4. stage[i] \notin Starting \cup Leaving
    BY <2>3 DEF IInv, OwnedInv, Quiet
  <2> QED
    BY <2>2, <2>4 DEF IInv, TypeOK, Stage, Starting, Leaving
<1>3. IInv => StopIsFinal
  BY <1>1, <1>2 DEF StopIsFinal
<1> QED
  BY <1>3, Invariant, PTL

\* The auth provider in the process-wide registry is one whose extension still runs.
THEOREM NoDeadOwner == Spec => []AuthOwnerIsUp
<1>1. IInv => AuthOwnerIsUp
  BY DEF IInv, AuthInv, Up, AuthOwnerIsUp
<1> QED
  BY <1>1, Invariant, PTL

\* Until the manager is stopped each bridge answers its own tool, and while there
\* was no Reload no tool leads to a process that is gone, unless a ReloadOne met
\* a Start.
THEOREM ToolsLeadSomewhere == Spec => []ToolsAnswered
<1>1. IInv => ToolsAnswered
  BY DEF IInv, AnswerInv, Unreloaded, ToolsAnswered, TypeOK
<1> QED
  BY <1>1, Invariant, PTL
=============================================================================

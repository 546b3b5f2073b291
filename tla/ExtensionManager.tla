-------------------------- MODULE ExtensionManager --------------------------
(***************************************************************************)
(* pkg/extension Manager: which extension processes of one session run,    *)
(* and what they have registered.                                          *)
(*                                                                         *)
(* Setup starts every discovered extension in parallel (Start).  From then *)
(* on /reload stops and starts them all (Reload), an extension asks for    *)
(* one other extension to be reloaded (ReloadOne) and the end of the       *)
(* session stops them (Stop).  These calls run on goroutines of their own  *)
(* and meet under m.mu, ReloadOnes under reloadOneMu too.                  *)
(*                                                                         *)
(* An instance is one process with its Bridge (module ExtensionBridge is   *)
(* what goes on in one).  All extensions of AuthExts declare the same auth *)
(* provider, all of ClashExts the same slash command; every extension has  *)
(* a tool of its own.                                                      *)
(***************************************************************************)
EXTENDS Naturals, FiniteSets, Functions

CONSTANTS
  Exts,               \* names of extensions
  Packaged,           \* those that an installed package contributes
  AuthExts, Rank,     \* those with the auth provider; their scopes, by name within one
  ClashExts,          \* those with the slash command
  Boot,               \* the Start of Setup
  Reloads, Ones, Stops,  \* calls of Reload, ReloadOne and Stop
  Instances,          \* bound: 1 .. how many processes are ever spawned
  MaxEdits,           \* bound: extension files deleted or written
  None

Starter == Reloads \cup {Boot}
Caller == Starter \cup Ones \cup Stops

ASSUME ManagerAssumption ==
  /\ Packaged \subseteq Exts /\ AuthExts \subseteq Exts /\ ClashExts \subseteq Exts
  /\ Rank \in [Exts -> Nat] /\ IsInjective(Rank)
  /\ Starter \cap Ones = {} /\ (Starter \cup Ones) \cap Stops = {} /\ Boot \notin Reloads
  /\ Instances = 1 .. Cardinality(Instances)
  /\ None \notin Exts \cup Caller \cup Instances
  /\ MaxEdits \in Nat

VARIABLES
  bridges,    \* the instances in m.bridges; their order is left out
  stopped,    \* m.stopped
  files, edits,  \* the extensions on disk, and how often that changed
  stage, ext, by,
              \* stage[i]: what has become of an instance; its name; the call
              \* that starts it or has taken it
  at, name, found, todo,
              \* each call's step; a ReloadOne's extension and whether it was
              \* discovered; the extensions a call has yet to spawn
  snap,       \* the bridges resolveAuthConflicts works on
  reloadOneMu,
  tools,      \* tools[e]: the instance that answers e's tool in the session
  registered, \* the instances that hold their auth provider
  slot,       \* whose auth provider is in the process-wide registry
  mixed, late \* history: Mixing, Late

instanceVars == <<stage, ext, by>>
callVars == <<at, name, found, todo, snap>>
registries == <<tools, registered, slot>>
disk == <<files, edits>>
vars == <<bridges, stopped, disk, instanceVars, callVars, reloadOneMu, registries, mixed, late>>

Stage == {"free", "handshake", "checked", "registered", "running", "taken", "closing", "down"}
Steps == {"idle", "draining", "purge", "start", "starting", "resolve", "lock", "locked",
          "looked", "done"}
Starting == {"handshake", "checked", "registered"}
Leaving == {"taken", "closing"}

TypeOK ==
  /\ bridges \in SUBSET Instances
  /\ stopped \in BOOLEAN
  /\ files \in SUBSET Exts /\ edits \in 0 .. MaxEdits
  /\ stage \in [Instances -> Stage]
  /\ ext \in [Instances -> Exts \cup {None}]
  /\ by \in [Instances -> Caller \cup {None}]
  /\ \A i \in Instances : by[i] # None <=> stage[i] \in Starting \cup Leaving
  /\ at \in [Caller -> Steps]
  /\ name \in [Ones -> Exts \cup {None}]
  /\ found \in [Ones -> BOOLEAN]
  /\ todo \in [Caller -> SUBSET Exts]
  /\ snap \in SUBSET Instances
  /\ reloadOneMu \in Ones \cup {None}
  /\ tools \in [Exts -> Instances \cup {None}]
  /\ registered \in SUBSET Instances
  /\ slot \in Instances \cup {None}
  /\ mixed \in BOOLEAN /\ late \in BOOLEAN

Mine(c, stages) == {i \in Instances : by[i] = c /\ stage[i] \in stages}

(***************************************************************************)
(* startOne: spawn, handshake, checkCommandClashes, the registrations and  *)
(* the insertion into m.bridges.                                           *)
(***************************************************************************)
Spawn(c, e) ==
  /\ e \in todo[c]
  /\ \E i \in Instances :
       /\ stage[i] = "free" /\ \A j \in Instances : j < i => stage[j] # "free"
       /\ stage' = [stage EXCEPT ![i] = "handshake"]
       /\ ext' = [ext EXCEPT ![i] = e]
       /\ by' = [by EXCEPT ![i] = c]
  /\ todo' = [todo EXCEPT ![c] = @ \ {e}]
  /\ UNCHANGED <<bridges, stopped, disk, at, name, found, snap, reloadOneMu, registries>>

\* Not trusted, not allowed in this mode, or the process does not start.
SpawnFails(c, e) ==
  /\ e \in todo[c]
  /\ todo' = [todo EXCEPT ![c] = @ \ {e}]
  /\ UNCHANGED <<bridges, stopped, disk, instanceVars, at, name, found, snap, reloadOneMu,
                 registries>>

Clashes(i) == ext[i] \in ClashExts /\ \E j \in bridges : ext[j] \in ClashExts

Handshake(i) ==
  /\ stage[i] = "handshake"
  /\ \/ ~Clashes(i) /\ stage' = [stage EXCEPT ![i] = "checked"]
     \/ stage' = [stage EXCEPT ![i] = "closing"]
  /\ UNCHANGED <<bridges, stopped, disk, ext, by, callVars, reloadOneMu, registries>>

Register(i) ==
  /\ stage[i] = "checked"
  /\ stage' = [stage EXCEPT ![i] = "registered"]
  /\ tools' = [tools EXCEPT ![ext[i]] = i]
  /\ IF ext[i] \in AuthExts
       THEN registered' = registered \cup {i} /\ slot' = i
       ELSE UNCHANGED <<registered, slot>>
  /\ UNCHANGED <<bridges, stopped, disk, ext, by, callVars, reloadOneMu>>

\* The insertion, or the roll back when the manager was stopped meanwhile.
Insert(i) ==
  /\ stage[i] = "registered"
  /\ IF stopped
       THEN stage' = [stage EXCEPT ![i] = "taken"] /\ UNCHANGED <<bridges, by>>
       ELSE /\ stage' = [stage EXCEPT ![i] = "running"]
            /\ bridges' = bridges \cup {i}
            /\ by' = [by EXCEPT ![i] = None]
  /\ UNCHANGED <<stopped, disk, ext, callVars, reloadOneMu, registries>>

(***************************************************************************)
(* The teardown of what a call took out of m.bridges, or rolls back: the   *)
(* shutdown events are awaited (the instance is "taken"), the              *)
(* registrations undone, the process stopped.  A Stop stops no process     *)
(* before all are unregistered; a ReloadOne removes the tools of its       *)
(* extension; a roll back leaves the tools.                                *)
(***************************************************************************)
\* Bug: ReloadOne leaves the tools.
UnregisterNoTools(i) ==
  /\ stage[i] = "taken"
  /\ stage' = [stage EXCEPT ![i] = "closing"]
  /\ registered' = registered \ {i}
  /\ slot' = IF ext[i] \in AuthExts THEN None ELSE slot
  /\ UNCHANGED <<bridges, stopped, disk, ext, by, callVars, reloadOneMu, tools>>

Unregister(i) ==
  /\ stage[i] = "taken"
  /\ stage' = [stage EXCEPT ![i] = "closing"]
  /\ registered' = registered \ {i}
  /\ slot' = IF ext[i] \in AuthExts THEN None ELSE slot
  /\ tools' = IF by[i] \in Ones /\ at[by[i]] = "draining"
                THEN [tools EXCEPT ![ext[i]] = None]
                ELSE tools
  /\ UNCHANGED <<bridges, stopped, disk, ext, by, callVars, reloadOneMu>>

Exit(i) ==
  /\ stage[i] = "closing"
  /\ at[by[i]] = "draining" => Mine(by[i], {"taken"}) = {}
  /\ stage' = [stage EXCEPT ![i] = "down"]
  /\ ext' = [ext EXCEPT ![i] = None]
  /\ by' = [by EXCEPT ![i] = None]
  /\ UNCHANGED <<bridges, stopped, disk, callVars, reloadOneMu, registries>>

\* The call `c` takes `some` out of m.bridges, which goes on as `rest`.
TakesOut(c, some, rest) ==
  /\ bridges' = rest
  /\ stage' = [i \in Instances |-> IF i \in some THEN "taken" ELSE stage[i]]
  /\ by' = [i \in Instances |-> IF i \in some THEN c ELSE by[i]]
  /\ at' = [at EXCEPT ![c] = "draining"]

\* The call `c` goes on once nothing it has to wait for is left.
Goes(c, from, to) ==
  /\ at[c] = from
  /\ at' = [at EXCEPT ![c] = to]

(***************************************************************************)
(* Stop and Reload                                                         *)
(***************************************************************************)
\* One user reloads, one reload after the other, and not after the end.
Unhurried ==
  (\A s \in Stops : at[s] = "idle") /\ \A r \in Reloads : at[r] \in {"idle", "done"}

\* Bug: Stop does not set m.stopped.
TakeAllUnmarked(c) ==
  /\ at[c] = "idle" /\ at[Boot] = "done"
  /\ c \in Reloads => Unhurried
  /\ c \in Reloads \cup Stops
  /\ TakesOut(c, bridges, {})
  /\ UNCHANGED <<stopped, disk, ext, name, found, todo, snap, reloadOneMu, registries>>

TakeAll(c) ==
  /\ at[c] = "idle" /\ at[Boot] = "done"
  /\ c \in Reloads => Unhurried
  /\ c \in Reloads \cup Stops
  /\ TakesOut(c, bridges, {})
  /\ stopped' = TRUE
  /\ UNCHANGED <<disk, ext, name, found, todo, snap, reloadOneMu, registries>>

Stopped(c) ==
  /\ c \in Reloads \cup Stops
  /\ Goes(c, "draining", IF c \in Stops THEN "done" ELSE "purge")
  /\ Mine(c, Leaving) = {}
  /\ UNCHANGED <<bridges, stopped, disk, instanceVars, name, found, todo, snap, reloadOneMu,
                 registries>>

UnregisterExtensionTools(c) ==
  /\ Goes(c, "purge", "start")
  /\ tools' = [e \in Exts |-> None]
  /\ UNCHANGED <<bridges, stopped, disk, instanceVars, name, found, todo, snap, reloadOneMu,
                 registered, slot>>

StartAll(c) ==
  /\ Goes(c, "start", "starting")
  /\ stopped' = FALSE
  /\ todo' = [todo EXCEPT ![c] = files]
  /\ UNCHANGED <<bridges, disk, instanceVars, name, found, snap, reloadOneMu, registries>>

Started(c) ==
  /\ c \in Starter
  /\ Goes(c, "starting", "resolve")
  /\ todo[c] = {} /\ Mine(c, Starting \cup Leaving) = {}
  /\ snap' = bridges
  /\ UNCHANGED <<bridges, stopped, disk, instanceVars, name, found, todo, reloadOneMu, registries>>

\* Of the bridges in the snapshot with the auth provider, the one of the
\* highest scope keeps it (of one extension that runs twice, either).
Contenders == {i \in snap : ext[i] \in AuthExts}
Wins(w) == w \in Contenders /\ \A j \in Contenders : Rank[ext[w]] >= Rank[ext[j]]

\* Bug: ReregisterAuthProvider does not look whether the bridge still holds it.
ResolveUnheld(c) ==
  /\ Goes(c, "resolve", "done")
  /\ \/ /\ Cardinality(Contenders) <= 1
        /\ UNCHANGED <<registered, slot>>
     \/ \E w \in Instances :
          /\ Cardinality(Contenders) > 1 /\ Wins(w)
          /\ registered' = registered \ (Contenders \ {w}) /\ slot' = w
  /\ snap' = {}
  /\ UNCHANGED <<bridges, stopped, disk, instanceVars, name, found, todo, reloadOneMu, tools>>

ResolveAuthConflicts(c) ==
  /\ Goes(c, "resolve", "done")
  /\ \/ /\ Cardinality(Contenders) <= 1
        /\ UNCHANGED <<registered, slot>>
     \/ \E w \in Instances :
          /\ Cardinality(Contenders) > 1 /\ Wins(w)
          /\ registered' = registered \ (Contenders \ {w})
          /\ slot' = IF w \in registered THEN w ELSE None
  /\ snap' = {}
  /\ UNCHANGED <<bridges, stopped, disk, instanceVars, name, found, todo, reloadOneMu, tools>>

(***************************************************************************)
(* ReloadOne, for another extension than the one that asks for it.         *)
(***************************************************************************)
Ask(o, e) ==
  /\ Goes(o, "idle", "lock")
  /\ at[Boot] # "start"
  /\ \E i \in Instances : stage[i] \in {"running", "taken"} /\ ext[i] # e
  /\ name' = [name EXCEPT ![o] = e]
  /\ UNCHANGED <<bridges, stopped, disk, instanceVars, found, todo, snap, reloadOneMu, registries>>

\* Bug: no reloadOneMu.
LockReloadOneNever(o) ==
  /\ Goes(o, "lock", "locked")
  /\ UNCHANGED <<bridges, stopped, disk, instanceVars, name, found, todo, snap, reloadOneMu,
                 registries>>

LockReloadOne(o) ==
  /\ Goes(o, "lock", "locked")
  /\ reloadOneMu = None
  /\ reloadOneMu' = o
  /\ UNCHANGED <<bridges, stopped, disk, instanceVars, name, found, todo, snap, registries>>

\* Discover, without what packages contribute.
LookUp(o) ==
  /\ Goes(o, "locked", "looked")
  /\ found' = [found EXCEPT ![o] = name[o] \in files \ Packaged]
  /\ UNCHANGED <<bridges, stopped, disk, instanceVars, name, todo, snap, reloadOneMu, registries>>

\* Every bridge of the name leaves m.bridges; one of them is torn down.
TakeOne(o) ==
  LET those == {i \in bridges : ext[i] = name[o]}
  IN /\ at[o] = "looked"
     /\ \/ those = {} /\ TakesOut(o, {}, bridges)
        \/ \E i \in those : TakesOut(o, {i}, bridges \ those)
     /\ UNCHANGED <<stopped, disk, ext, name, found, todo, snap, reloadOneMu, registries>>

Drained(o) ==
  /\ o \in Ones
  /\ Goes(o, "draining", "starting")
  /\ Mine(o, Leaving) = {}
  /\ todo' = [todo EXCEPT ![o] = IF found[o] THEN {name[o]} ELSE {}]
  /\ UNCHANGED <<bridges, stopped, disk, instanceVars, name, found, snap, reloadOneMu, registries>>

ReloadedOne(o) ==
  /\ o \in Ones
  /\ Goes(o, "starting", "done")
  /\ todo[o] = {} /\ Mine(o, Starting \cup Leaving) = {}
  /\ reloadOneMu' = None
  /\ name' = [name EXCEPT ![o] = None] /\ found' = [found EXCEPT ![o] = FALSE]
  /\ UNCHANGED <<bridges, stopped, disk, instanceVars, todo, snap, registries>>

\* An extension's file is deleted, or written.
Edit(e) ==
  /\ edits < MaxEdits
  /\ edits' = edits + 1
  /\ files' = IF e \in files THEN files \ {e} ELSE files \cup {e}
  /\ UNCHANGED <<bridges, stopped, instanceVars, callVars, reloadOneMu, registries>>

----------------------------------------------------------------------------
\* A ReloadOne is under way while a Start is: nothing orders the two.
Mixing == reloadOneMu # None /\ \E c \in Starter : at[c] = "starting"

\* The session ends while a Reload is under way.
Late == \E c \in Reloads, s \in Stops : at[c] \notin {"idle", "done"} /\ at[s] # "idle"

Init ==
  /\ bridges = {} /\ stopped = FALSE
  /\ files = Exts /\ edits = 0
  /\ stage = [i \in Instances |-> "free"]
  /\ ext = [i \in Instances |-> None]
  /\ by = [i \in Instances |-> None]
  /\ at = [c \in Caller |-> IF c = Boot THEN "start" ELSE "idle"]
  /\ name = [o \in Ones |-> None]
  /\ found = [o \in Ones |-> FALSE]
  /\ todo = [c \in Caller |-> {}]
  /\ snap = {}
  /\ reloadOneMu = None
  /\ tools = [e \in Exts |-> None]
  /\ registered = {} /\ slot = None
  /\ mixed = FALSE /\ late = FALSE

StartOne ==
  \/ \E c \in Caller, e \in Exts : Spawn(c, e) \/ SpawnFails(c, e)
  \/ \E i \in Instances : Handshake(i) \/ Register(i) \/ Insert(i)

Teardown == \E i \in Instances : Unregister(i) \/ Exit(i)

StopOrReload ==
  \E c \in Caller : \/ TakeAll(c) \/ Stopped(c) \/ UnregisterExtensionTools(c)
                    \/ StartAll(c) \/ Started(c) \/ ResolveAuthConflicts(c)

ReloadOne ==
  \E o \in Ones : \/ \E e \in Exts : Ask(o, e)
                  \/ LockReloadOne(o) \/ LookUp(o) \/ TakeOne(o) \/ Drained(o)
                  \/ ReloadedOne(o)

Next ==
  /\ StartOne \/ Teardown \/ StopOrReload \/ ReloadOne \/ \E e \in Exts : Edit(e)
  /\ mixed' = (mixed \/ Mixing') /\ late' = (late \/ Late')

Spec == Init /\ [][Next]_vars

----------------------------------------------------------------------------
(***************************************************************************)
(* Properties                                                              *)
(***************************************************************************)

\* The bridges of the manager are running instances, and unless a
\* ReloadOne met a Start every running instance is one of them: no process is
\* lost to the calls that could stop it (startOne 485-488, ReloadOne 717-729).
NoOrphan ==
  /\ \A i \in bridges : stage[i] = "running"
  /\ ~mixed => \A i \in Instances : stage[i] = "running" => i \in bridges

\* A stopped manager takes no bridge back in, whichever starts were under way
\* when Stop drained it (startOne 489).
StoppedIsEmpty == stopped => bridges = {}

\* Two ReloadOnes of one extension, or one that meets a Stop, leave it running
\* at most once (reloadOneMu, manager.go 36-39 and 684-687).
OnePerName ==
  ~mixed => \A i, j \in bridges : ext[i] = ext[j] => i = j

\* Start, startOne, ReloadOne: what runs is what the manager has, each once.
RunsOnceAndKnown == NoOrphan /\ OnePerName

\* Once the session's Stop and every other call have returned, no process is
\* left, unless a ReloadOne met a Start or a Reload met the Stop.
Quiet == \A c \in Caller : at[c] \in {"idle", "done"}
NothingLeft ==
  (\E s \in Stops : at[s] = "done") /\ Quiet => \A i \in Instances : stage[i] \in {"free", "down"}
StopIsFinal == StoppedIsEmpty /\ (~mixed /\ ~late => NothingLeft)

\* The auth provider in the process-wide registry is one whose extension still
\* runs, also when resolveAuthConflicts re-registers a winner that is being
\* reloaded or stopped meanwhile (manager.go 931, bridge_auth.go 223-238).
AuthOwnerIsUp ==
  slot # None => stage[slot] \in {"registered", "running", "taken"}

\* Until the manager is stopped, each bridge answers its own tool in the
\* session; and while there was no Reload, no tool leads to a process that is
\* gone (ReloadOne 741-757).  After one it can: startOne's roll back, in a
\* ReloadOne the Reload met, leaves the tools it registered (490-502).
ToolsAnswered ==
  ~mixed /\ ~stopped =>
    /\ \A i \in bridges : tools[ext[i]] = i
    /\ (\A r \in Reloads : at[r] = "idle") =>
         \A e \in Exts : tools[e] # None => stage[tools[e]] \notin {"closing", "down"}

----------------------------------------------------------------------------
(***************************************************************************)
(* What comments of the source say and the code does not do                *)
(***************************************************************************)

\* "so two concurrent ReloadOne(name) calls cannot both miss the running
\* instance and spawn duplicate bridges" (manager.go 684-685): a ReloadOne and
\* the Start of Setup or Reload can.
NeverTwice == \A i, j \in bridges : ext[i] = ext[j] => i = j

\* "If the manager was stopped between process spawn and here (e.g. the session
\* is shutting down while a reload respawns), do not register this bridge"
\* (manager.go 485-488): the reload's own Start clears the flag.
StopIsAlwaysFinal == ~mixed => NothingLeft

\* "Reject extension commands that clash with builtins or other extensions"
\* (manager.go 440): of two that start in parallel neither sees the other.
CommandsAreUnique == \A i, j \in bridges : {ext[i], ext[j]} \subseteq ClashExts => i = j

\* "Resolve auth provider ID collisions deterministically by scope priority"
\* (manager.go 305): not after a ReloadOne of the extension that lost.
AuthByPriority ==
  Quiet /\ ~stopped /\ ~mixed =>
    \A i, j \in bridges : {ext[i], ext[j]} \subseteq AuthExts /\ slot = i => Rank[ext[i]] >= Rank[ext[j]]

\* "If it was NOT found but an instance was running (the file was deleted
\* mid-session)" (manager.go 677-678): an extension of a package is not found
\* although its file is there.
NotFoundIsDeleted ==
  \A o \in Ones : at[o] = "looked" /\ edits = 0 => found[o]
=============================================================================

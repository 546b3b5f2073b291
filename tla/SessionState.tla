---------------------------- MODULE SessionState ----------------------------
(***************************************************************************)
(* The saved settings of a session (pkg/session/state.go) and their        *)
(* history beside each transcript (pkg/session/store/state.go): an append- *)
(* only file of snapshots, of which the last whole one counts, cut to the  *)
(* newest lines by a rewrite.  A handle names the transcript a session     *)
(* writes.                                                                 *)
(*                                                                         *)
(* The Commander runs a person's commands; events (a server's tools have   *)
(* changed, a run has ended) save from goroutines of their own; readers    *)
(* are other processes that look at a transcript's settings.  A snapshot   *)
(* is abstracted to the number of the last edit it holds and the           *)
(* transcript whose model, thinking level and name it has.                 *)
(***************************************************************************)
EXTENDS Integers, Sequences

CONSTANTS
  Commander,
  Event,        \* background goroutines of the session
  Reader,       \* other processes
  Transcript,
  First,        \* the transcript that is open at first
  Legacy,       \* transcripts that begin with a .state.json of an old version
  None,
  MaxState,     \* MaxStateHistory
  MaxEdits,     \* bound: edits ever made
  MaxSwitches,  \* bound: times the session goes to another transcript
  MaxDeaths,    \* bound: times the session ends
  MaxErrors     \* bound: writes that fail

Goroutine == {Commander} \cup Event
Actor == Goroutine \cup Reader

\* The last edit a snapshot has, and the transcript its model, thinking level
\* and name are of (None: they are empty).  A line cut short parses as nothing.
Snapshot == [n : 0 .. MaxEdits, conv : Transcript \cup {None}]
Torn == [n |-> -1, conv |-> None]

\* What the constants are like; the instances that are checked assume it.
StateAssumption ==
  /\ Commander \notin Event /\ Commander \notin Reader /\ Event \cap Reader = {}
  /\ None \notin Transcript \cup Goroutine \cup Snapshot
  /\ First \in Transcript /\ Legacy \subseteq Transcript \ {First}
  /\ MaxState \in Nat \ {0} /\ MaxEdits \in Nat /\ MaxSwitches \in Nat /\ MaxDeaths \in Nat
  /\ MaxErrors \in Nat

VARIABLES
  lines,        \* per transcript: the lines of its history file
  there,        \* the history files that exist
  old,          \* per transcript: its .state.json
  handle,       \* where the session's handle points
  current,      \* the SessionStore's file
  state,        \* s.state
  closed,       \* s.closed; TRUE as well when no session is there
  saveMu,       \* who holds s.saveMu
  pc, call,     \* per actor: what it is at, and what it calls readHistory for
  file, snap,   \* per actor: the transcript at work on, and the snapshot in hand
  kept,         \* per actor: the lines compactHistory has read
  edits,        \* history: edits ever made
  acked,        \* history: the last edit whose save has returned
  astray,       \* history: the last save to end failed, or was another transcript's
  crossed,      \* history: a save has met a switch of transcripts half way
  overtaken,    \* history: an old version's settings have been put after newer ones
  switches,     \* how often the session has gone to another transcript
  deaths,       \* how often it has ended
  errors        \* how many writes have failed

fileVars == <<lines, there, old>>
localVars == <<call, file, snap, kept>>
sessionVars == <<current, state, closed>>
history == <<edits, acked, astray, crossed, overtaken>>
counts == <<switches, deaths, errors>>
vars == <<fileVars, handle, sessionVars, saveMu, pc, localVars, history, counts>>

\* What readHistory is called for, and where it is.
Call == {"save", "load", "peek"}
Reading == {"read", "stat", "import", "drop", "scan"}
Step == {"idle", "name", "lock", "append", "compact", "rename", "bind",
         "empty", "blank", "sync", "adopt"} \cup Reading

\* A history is no longer than its limit, but for the line that a rewrite is to
\* follow and those of writes that failed.
TypeOK ==
  /\ DOMAIN lines = Transcript
  /\ \A t \in Transcript : /\ lines[t] \in Seq(Snapshot \cup {Torn})
                           /\ overtaken \/ Len(lines[t]) <= MaxState + 1 + errors + deaths
  /\ there \subseteq Transcript
  /\ old \in [Transcript -> Snapshot \cup {None}]
  /\ handle \in Transcript
  /\ current \in Transcript /\ state \in Snapshot /\ closed \in BOOLEAN
  /\ saveMu \in Goroutine \cup {None}
  /\ pc \in [Actor -> Step]
  /\ call \in [Actor -> Call \cup {None}]
  /\ file \in [Actor -> Transcript \cup {None}]
  /\ snap \in [Actor -> Snapshot \cup {None}]
  /\ DOMAIN kept = Actor
  /\ \A a \in Actor : kept[a] \in Seq(Snapshot \cup {Torn})
  /\ edits \in 0 .. MaxEdits /\ acked \in 0 .. MaxEdits
  /\ switches \in 0 .. MaxSwitches /\ deaths \in 0 .. MaxDeaths /\ errors \in 0 .. MaxErrors
  /\ {astray, crossed, overtaken} \subseteq BOOLEAN

\* The session has been opened on First and saved.
Init ==
  LET opened == [n |-> 0, conv |-> First] IN
  /\ lines = [t \in Transcript |-> IF t = First THEN <<opened>> ELSE <<>>]
  /\ there = {First}
  /\ old = [t \in Transcript |-> IF t \in Legacy THEN [n |-> 0, conv |-> t] ELSE None]
  /\ handle = First /\ current = First /\ state = opened /\ closed = FALSE
  /\ saveMu = None
  /\ pc = [a \in Actor |-> "idle"]
  /\ call = [a \in Actor |-> None]
  /\ file = [a \in Actor |-> None]
  /\ snap = [a \in Actor |-> None]
  /\ kept = [a \in Actor |-> <<>>]
  /\ edits = 0 /\ acked = 0 /\ switches = 0 /\ deaths = 0 /\ errors = 0
  /\ astray = FALSE /\ crossed = FALSE /\ overtaken = FALSE

-----------------------------------------------------------------------------
At(a, step) == pc[a] = step
Goto(a, step) == pc' = [pc EXCEPT ![a] = step]

\* The call returns and its variables are gone.
Return(a) ==
  /\ Goto(a, "idle")
  /\ call' = [call EXCEPT ![a] = None]
  /\ file' = [file EXCEPT ![a] = None]
  /\ snap' = [snap EXCEPT ![a] = None]
  /\ kept' = [kept EXCEPT ![a] = <<>>]

\* ReadState: the last line that parses.
Whole(t) == {i \in DOMAIN lines[t] : lines[t][i] # Torn}
Newest(t) ==
  IF Whole(t) = {} THEN None
  ELSE lines[t][CHOOSE i \in Whole(t) : \A j \in Whole(t) : j <= i]

\* Between SetSessionFile and restoreState's assignment the settings are still,
\* or again, those of no transcript the session has.
MidSwitch ==
  \/ pc[Commander] \in {"empty", "blank", "sync", "adopt"}
  \/ pc[Commander] \in Reading /\ call[Commander] = "load"

\* Mutant: a line goes right behind what a torn write left, and is lost with it.
AppendedBehind(t, line) ==
  IF lines[t] # <<>> /\ lines[t][Len(lines[t])] = Torn
    THEN [lines EXCEPT ![t][Len(lines[t])] = Torn]
    ELSE [lines EXCEPT ![t] = Append(@, line)]

\* appendRecord: a line of its own, after a newline if the file lacks one.
Appended(t, line) == [lines EXCEPT ![t] = Append(@, line)]

WriteFails == errors < MaxErrors /\ errors' = errors + 1

-----------------------------------------------------------------------------
(* readHistory, which migrates an old version's file first.                 *)

StartReading(a, why) ==
  /\ Goto(a, "read")
  /\ call' = [call EXCEPT ![a] = why]

\* migrateLegacyState reads the old file, if there is one ...
MigrateRead(a) ==
  /\ At(a, "read")
  /\ IF old[file[a]] = None
       THEN Goto(a, "scan") /\ UNCHANGED kept
       ELSE /\ Goto(a, "stat")
            /\ kept' = [kept EXCEPT ![a] = <<old[file[a]]>>]
  /\ UNCHANGED <<fileVars, handle, sessionVars, saveMu, call, file, snap, history, counts>>

\* ... and whether there is a history: then the old file goes.
MigrateStat(a) ==
  /\ At(a, "stat")
  /\ Goto(a, IF file[a] \in there THEN "drop" ELSE "import")
  /\ UNCHANGED <<fileVars, handle, sessionVars, saveMu, localVars, history, counts>>

\* Otherwise it becomes a line of the history; if it cannot be written it stays.
MigrateImport(a) ==
  /\ At(a, "import")
  /\ there' = there \cup {file[a]}
  /\ \/ /\ lines' = Appended(file[a], kept[a][1])
        /\ Goto(a, "drop")
        /\ UNCHANGED errors
     \/ /\ WriteFails
        /\ \/ UNCHANGED lines
           \/ lines' = Appended(file[a], Torn)
        /\ Goto(a, "scan")
  /\ overtaken' = (overtaken \/ lines[file[a]] # <<>>)
  /\ UNCHANGED <<old, handle, sessionVars, saveMu, localVars, edits, acked, astray, crossed,
                 switches, deaths>>

MigrateDrop(a) ==
  /\ At(a, "drop")
  /\ old' = [old EXCEPT ![file[a]] = None]
  /\ Goto(a, "scan")
  /\ UNCHANGED <<lines, there, handle, sessionVars, saveMu, localVars, history, counts>>

Migrate(a) == MigrateRead(a) \/ MigrateStat(a) \/ MigrateImport(a) \/ MigrateDrop(a)

\* Another process reads a transcript's settings (LoadState, copyStateUnbound);
\* it writes only if it finds an old file.
Peek(r) ==
  /\ At(r, "idle")
  /\ StartReading(r, "peek")
  /\ \E t \in Transcript : old[t] # None /\ file' = [file EXCEPT ![r] = t]
  /\ UNCHANGED <<fileVars, handle, sessionVars, saveMu, snap, kept, history, counts>>

PeekDone(r) ==
  /\ At(r, "scan")
  /\ Return(r)
  /\ UNCHANGED <<fileVars, handle, sessionVars, saveMu, history, counts>>

-----------------------------------------------------------------------------
(* SaveState.                                                               *)

\* The end of a run: EventAgentEnd saves, whatever has changed.
RunEnds(e) ==
  /\ ~closed /\ At(e, "idle")
  /\ Goto(e, "name")
  /\ UNCHANGED <<fileVars, handle, sessionVars, saveMu, localVars, history, counts>>

\* UpdateSessionState: an edit of any setting, and then a save.
Edit(a) ==
  /\ ~closed /\ At(a, "idle")
  /\ edits < MaxEdits
  /\ edits' = edits + 1
  /\ state' = [state EXCEPT !.n = edits + 1]
  /\ Goto(a, "name")
  /\ UNCHANGED <<fileVars, handle, current, closed, saveMu, localVars, acked, astray, crossed,
                 overtaken, counts>>

\* Where to save is asked before saveMu is waited for.
SaveName(a) ==
  /\ At(a, "name")
  /\ IF closed THEN Return(a)
     ELSE /\ Goto(a, "lock")
          /\ file' = [file EXCEPT ![a] = current]
          /\ UNCHANGED <<call, snap, kept>>
  /\ UNCHANGED <<fileVars, handle, sessionVars, saveMu, history, counts>>

\* With saveMu held a closed session saves nothing; what to save is asked now.
SaveLock(a) ==
  /\ At(a, "lock") /\ saveMu = None
  /\ IF closed
       THEN Return(a) /\ UNCHANGED <<saveMu, crossed>>
       ELSE /\ saveMu' = a
            /\ snap' = [snap EXCEPT ![a] = state]
            /\ StartReading(a, "save")
            /\ crossed' = (crossed \/ file[a] # current \/ MidSwitch)
            /\ UNCHANGED <<file, kept>>
  /\ UNCHANGED <<fileVars, handle, sessionVars, edits, acked, astray, overtaken,
                 counts>>

\* Mutant: without anything to write there is nothing to bind either.
SaveScanEarly(a) ==
  /\ At(a, "scan") /\ call[a] = "save"
  /\ IF Newest(file[a]) = snap[a]
       THEN Return(a) /\ saveMu' = None /\ astray' = FALSE
       ELSE /\ Goto(a, "append")
            /\ kept' = [kept EXCEPT ![a] = lines[file[a]]]
            /\ UNCHANGED <<call, file, snap, saveMu, astray>>
  /\ UNCHANGED <<fileVars, handle, sessionVars, edits, acked, crossed, overtaken, counts>>

\* AppendState: an unchanged snapshot is not written again.  kept[a] holds the
\* lines as they were counted here.
SaveScan(a) ==
  /\ At(a, "scan") /\ call[a] = "save"
  /\ Goto(a, IF Newest(file[a]) = snap[a] THEN "bind" ELSE "append")
  /\ kept' = [kept EXCEPT ![a] = lines[file[a]]]
  /\ UNCHANGED <<fileVars, handle, sessionVars, saveMu, call, file, snap, history, counts>>

SaveAppend(a) ==
  /\ At(a, "append")
  /\ lines' = Appended(file[a], snap[a])
  /\ there' = there \cup {file[a]}
  /\ Goto(a, IF Len(kept[a]) + 1 > MaxState THEN "compact" ELSE "bind")
  /\ UNCHANGED <<old, handle, sessionVars, saveMu, localVars, history, counts>>

\* Mutant: the oldest lines are kept.
OldestLines(s) == SubSeq(s, 1, MaxState)

\* compactHistory keeps the newest lines, torn ones among them.
NewestLines(s) == SubSeq(s, Len(s) - MaxState + 1, Len(s))

CompactRead(a) ==
  /\ At(a, "compact")
  /\ IF Len(lines[file[a]]) <= MaxState
       THEN Goto(a, "bind") /\ UNCHANGED kept
       ELSE /\ Goto(a, "rename")
            /\ kept' = [kept EXCEPT ![a] = NewestLines(lines[file[a]])]
  /\ UNCHANGED <<fileVars, handle, sessionVars, saveMu, call, file, snap, history, counts>>

CompactRename(a) ==
  /\ At(a, "rename")
  /\ lines' = [lines EXCEPT ![file[a]] = kept[a]]
  /\ Goto(a, "bind")
  /\ UNCHANGED <<there, old, handle, sessionVars, saveMu, localVars, history, counts>>

\* BindHandle, and the end of SaveState.
SaveBind(a) ==
  /\ At(a, "bind")
  /\ handle' = file[a]
  /\ saveMu' = None
  /\ acked' = snap[a].n
  /\ astray' = (file[a] # current)
  /\ Return(a)
  /\ UNCHANGED <<fileVars, sessionVars, edits, crossed, overtaken, counts>>

\* A write fails: the handle stays where it was, and the session goes on.
SaveFails(a) ==
  /\ WriteFails
  /\ \/ /\ At(a, "append")
        /\ there' = there \cup {file[a]}
        /\ \/ UNCHANGED lines
           \/ lines' = Appended(file[a], Torn)
           \/ lines' = Appended(file[a], snap[a])
     \/ pc[a] \in {"compact", "rename", "bind"} /\ UNCHANGED <<lines, there>>
  /\ saveMu' = None
  /\ astray' = TRUE
  /\ Return(a)
  /\ UNCHANGED <<old, handle, sessionVars, edits, acked, crossed, overtaken, switches,
                 deaths>>

Save(a) ==
  \/ SaveName(a) \/ SaveLock(a) \/ Migrate(a) \/ SaveScan(a) \/ SaveAppend(a)
  \/ CompactRead(a) \/ CompactRename(a) \/ SaveBind(a) \/ SaveFails(a)

-----------------------------------------------------------------------------
(* Commands.                                                                *)

\* SwitchSession: SetSessionFile, ...  (A transcript that another session's
\* handle names is forked before, and is none of these.)
Switch ==
  /\ ~closed /\ At(Commander, "idle")
  /\ switches < MaxSwitches /\ switches' = switches + 1
  /\ \E t \in Transcript \ {current} : current' = t
  /\ Goto(Commander, "empty")
  /\ UNCHANGED <<fileVars, handle, state, closed, saveMu, localVars, history, deaths, errors>>

\* ... an empty ConversationState, and restoreState.
SwitchEmpty ==
  /\ At(Commander, "empty")
  /\ state' = [state EXCEPT !.conv = None]
  /\ StartReading(Commander, "load")
  /\ file' = [file EXCEPT ![Commander] = current]
  /\ UNCHANGED <<fileVars, handle, current, closed, saveMu, snap, kept, history, counts>>

\* LoadState.
Load ==
  /\ At(Commander, "scan") /\ call[Commander] = "load"
  /\ snap' = [snap EXCEPT ![Commander] = Newest(file[Commander])]
  /\ Goto(Commander, "adopt")
  /\ UNCHANGED <<fileVars, handle, sessionVars, saveMu, call, file, kept, history, counts>>

\* restoreState(keepRuntime): the transcript's conversation settings are
\* adopted, and without any the live ones become its own; then a save.
Adopt ==
  /\ At(Commander, "adopt")
  /\ IF snap[Commander] = None
       THEN Goto(Commander, "sync") /\ UNCHANGED state
       ELSE /\ state' = [state EXCEPT !.conv = snap[Commander].conv]
            /\ Goto(Commander, "name")
  /\ UNCHANGED <<fileVars, handle, current, closed, saveMu, localVars, history, counts>>

\* syncConversation records the live model and thinking level.
Sync ==
  /\ At(Commander, "sync")
  /\ state' = [state EXCEPT !.conv = current]
  /\ Goto(Commander, "name")
  /\ UNCHANGED <<fileVars, handle, current, closed, saveMu, localVars, history, counts>>

\* NewSessionCmd, on a transcript with a new name.
NewSession ==
  /\ ~closed /\ At(Commander, "idle")
  /\ \E t \in Transcript \ there :
       /\ old[t] = None /\ \A a \in Actor : file[a] # t
       /\ current' = t
  /\ switches < MaxSwitches /\ switches' = switches + 1
  /\ Goto(Commander, "blank")
  /\ UNCHANGED <<fileVars, handle, state, closed, saveMu, localVars, history, deaths, errors>>

NewSessionEmpty ==
  /\ At(Commander, "blank")
  /\ state' = [state EXCEPT !.conv = None]
  /\ Goto(Commander, "sync")
  /\ UNCHANGED <<fileVars, handle, current, closed, saveMu, localVars, history, counts>>

\* closeState waits for a save in flight.
Close ==
  /\ ~closed /\ At(Commander, "idle") /\ saveMu = None
  /\ deaths < MaxDeaths
  /\ closed' = TRUE
  /\ deaths' = deaths + 1
  /\ UNCHANGED <<fileVars, handle, current, state, saveMu, pc, localVars, history, switches,
                 errors>>

\* The process dies; a line it was writing may be cut short.
Die ==
  /\ ~closed /\ deaths < MaxDeaths
  /\ closed' = TRUE
  /\ deaths' = deaths + 1
  /\ saveMu' = None
  /\ pc' = [a \in Actor |-> IF a \in Goroutine THEN "idle" ELSE pc[a]]
  /\ call' = [a \in Actor |-> IF a \in Goroutine THEN None ELSE call[a]]
  /\ file' = [a \in Actor |-> IF a \in Goroutine THEN None ELSE file[a]]
  /\ snap' = [a \in Actor |-> IF a \in Goroutine THEN None ELSE snap[a]]
  /\ kept' = [a \in Actor |-> IF a \in Goroutine THEN <<>> ELSE kept[a]]
  /\ \/ UNCHANGED <<lines, there, overtaken>>
     \/ \E a \in Goroutine :
          /\ pc[a] \in {"append", "import"}
          /\ there' = there \cup {file[a]}
          /\ \/ UNCHANGED lines
             \/ lines' = Appended(file[a], Torn)
          /\ overtaken' = (overtaken \/ (pc[a] = "import" /\ lines[file[a]] # <<>>))
  /\ UNCHANGED <<old, handle, current, state, edits, acked, astray, crossed, switches,
                 errors>>

\* A session is opened by its handle: restoreState takes the whole of the
\* settings, and saves.
Reopen ==
  /\ closed /\ \A a \in Goroutine : At(a, "idle")
  /\ Newest(handle) # None
  /\ closed' = FALSE
  /\ current' = handle
  /\ state' = Newest(handle)
  /\ Goto(Commander, "name")
  /\ UNCHANGED <<fileVars, handle, saveMu, localVars, history, counts>>

Command ==
  \/ Switch \/ SwitchEmpty \/ Load \/ Adopt \/ Sync
  \/ NewSession \/ NewSessionEmpty \/ Close \/ Reopen

Next ==
  \/ \E a \in Goroutine : Edit(a) \/ Save(a)
  \/ \E e \in Event : RunEnds(e)
  \/ Command
  \/ \E r \in Reader : Peek(r) \/ Migrate(r) \/ PeekDone(r)
  \/ Die

Spec == Init /\ [][Next]_vars

-----------------------------------------------------------------------------
(* Properties.                                                              *)

\* A save that has returned is never lost: whenever the process dies, the
\* session's handle leads to a transcript whose history gives back that edit or
\* a later one.  It takes the order of the write and the handle's, the newline
\* before a line that follows a torn one, and a rewrite that keeps the newest
\* lines (AppendState, appendRecord, compactHistory, BindHandle).
AckedSurvives ==
  overtaken \/ (Newest(handle) # None /\ Newest(handle).n >= acked)

\* When nothing is under way in an open session, its settings are those on disk
\* beside its transcript, and its handle points there, unless the last save to
\* end failed or had asked for its transcript before a switch (SaveState).
SettingsSaved ==
  (~closed /\ (\A a \in Goroutine : At(a, "idle")) /\ ~astray /\ ~overtaken) =>
    handle = current /\ Newest(current) = state

\* A transcript's history holds conversation settings of its own, unless a save
\* has met a switch half way (SwitchSession, NewSessionCmd, restoreState).
OwnConversation ==
  crossed \/ \A t \in Transcript : \A i \in Whole(t) : lines[t][i].conv = t

\* Both: the settings that a session finds beside its transcript are those it last
\* had there, whoever saves, switches, migrates or dies in between.
SettingsInPlace == TypeOK /\ SettingsSaved /\ OwnConversation

\* Unconditionally: every record has its own transcript's settings.  A save
\* during a switch writes the empty ones beside the transcript, where the switch
\* then reads them.
ConversationIsKept ==
  \A t \in Transcript : \A i \in Whole(t) : lines[t][i].conv = t

\* "every save points it at the current transcript" (RuntimeState.Handle).
HandleFollows ==
  (~closed /\ \A a \in Goroutine : At(a, "idle")) => handle = current

\* The old version's settings become "the first history line".
LegacyComesFirst == ~overtaken

\* Settings a transcript once had are still to be read.
SettingsStay ==
  \A t \in Legacy : old[t] # None \/ Whole(t) # {}
=============================================================================

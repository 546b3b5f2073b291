---------------------------- MODULE LogRotation ----------------------------
(***************************************************************************)
(* The debug log and its rotation (pkg/log/rotate.go).  Processes append   *)
(* to one file under a shared flock; whoever finds it full copies it to a  *)
(* temporary file and truncates it under the exclusive one, and a          *)
(* goroutine makes that copy the newest of Keep backups, under a flock of  *)
(* its own.  In a process, mu serialises writes and rotations, and         *)
(* rotating stays set until the copy has been archived.                    *)
(*                                                                         *)
(* Lines are numbers in the order in which they reach the file.            *)
(***************************************************************************)
EXTENDS Integers, Sequences

CONSTANTS
  Writer,       \* goroutines that write
  Process,
  Owner,        \* Owner[w]: the process of writer w
  Keep,         \* cfg.Keep
  Full,         \* lines of which the log is full
  Nobody,
  MaxLines,     \* bound: lines ever written
  MaxDeaths,    \* bound: processes that die
  MaxErrors     \* bound: copies that fail

\* What the constants are like; the instances that are checked assume it.
LogAssumption ==
  /\ Owner \in [Writer -> Process]
  /\ Nobody \notin Writer /\ Nobody \notin Process
  /\ Keep \in Nat \ {0} /\ Full \in Nat \ {0}
  /\ MaxLines \in Nat /\ MaxDeaths \in Nat /\ MaxErrors \in Nat

VARIABLES
  log,          \* the lines of the file
  tmp,          \* per process: the copy it is to archive
  strays,       \* the copies nobody will archive
  backup,       \* the backups, the newest at 1; <<>> for none
  shared, exclusive,    \* who has the flock of the .lock file
  archLock,     \* who has the flock of the .archive.lock file
  mu,           \* per process: who holds w.mu
  rotating,     \* per process: w.rotating
  closed,       \* per process: "open", "waiting" (Close has begun), "closed"
  pc,           \* per writer
  archiving,    \* per process: what its archive goroutine is at
  lines,        \* history: lines ever written
  dropped,      \* history: the lines of backups that were the oldest
  bare,         \* history: a rotation went on without the flock
  deaths, errors

fileVars == <<log, tmp, strays, backup>>
flockVars == <<shared, exclusive, archLock>>
processVars == <<mu, rotating, closed>>
history == <<lines, dropped, bare, deaths, errors>>
vars == <<fileVars, flockVars, processVars, pc, archiving, history>>

Line == 1 .. MaxLines
In(s) == {s[i] : i \in DOMAIN s}

TypeOK ==
  /\ log \in Seq(Line) /\ In(log) \subseteq 1 .. lines
  /\ \A p \in Process : tmp[p] \in Seq(Line)
  /\ \A s \in strays : s \in Seq(Line)
  /\ DOMAIN backup = 1 .. Keep
  /\ shared \subseteq Process /\ exclusive \in Process \cup {Nobody}
  /\ archLock \in Process \cup {Nobody}
  /\ \A p \in Process : mu[p] \in {w \in Writer : Owner[w] = p} \cup {Nobody}
  /\ rotating \in [Process -> BOOLEAN]
  /\ closed \in [Process -> {"open", "waiting", "closed"}]
  /\ pc \in [Writer -> {"idle", "write", "append", "check", "rotate", "copy", "truncate"}]
  /\ archiving \in [Process -> {"no", "lock", "drop", "shift", "copy", "remove"}]
  /\ exclusive # Nobody => shared = {}

Init ==
  /\ log = <<>> /\ strays = {}
  /\ tmp = [p \in Process |-> <<>>]
  /\ backup = [i \in 1 .. Keep |-> <<>>]
  /\ shared = {} /\ exclusive = Nobody /\ archLock = Nobody
  /\ mu = [p \in Process |-> Nobody]
  /\ rotating = [p \in Process |-> FALSE]
  /\ closed = [p \in Process |-> "open"]
  /\ pc = [w \in Writer |-> "idle"]
  /\ archiving = [p \in Process |-> "no"]
  /\ lines = 0 /\ dropped = {} /\ bare = FALSE /\ deaths = 0 /\ errors = 0

-----------------------------------------------------------------------------
At(w, step) == pc[w] = step
Goto(w, step) == pc' = [pc EXCEPT ![w] = step]

Lock(w) == mu[Owner[w]] = Nobody /\ mu' = [mu EXCEPT ![Owner[w]] = w]
Unlock(w) == mu' = [mu EXCEPT ![Owner[w]] = Nobody]

\* The flocks, on one descriptor in a process; a closed one has no effect.
LockShared(p) ==
  IF closed[p] = "closed" THEN UNCHANGED shared
  ELSE exclusive = Nobody /\ shared' = shared \cup {p}
LockExclusive(p) ==
  IF closed[p] = "closed" THEN UNCHANGED exclusive
  ELSE exclusive = Nobody /\ shared = {} /\ exclusive' = p

\* Write: a closed writer takes no line.
BeginWrite(w) ==
  /\ At(w, "idle")
  /\ closed[Owner[w]] = "open" /\ lines < MaxLines
  /\ Goto(w, "write")
  /\ UNCHANGED <<fileVars, flockVars, processVars, archiving, history>>

LockWrite(w) ==
  /\ At(w, "write")
  /\ Lock(w) /\ LockShared(Owner[w])
  /\ Goto(w, "append")
  /\ UNCHANGED <<fileVars, exclusive, archLock, rotating, closed, archiving, history>>

\* The line, and the locks released.  A file that Close has closed takes none.
AppendLine(w) ==
  /\ At(w, "append")
  /\ IF closed[Owner[w]] = "closed" \/ lines >= MaxLines
       THEN UNCHANGED <<log, lines>> /\ Goto(w, "idle")
       ELSE /\ log' = Append(log, lines + 1)
            /\ lines' = lines + 1
            /\ Goto(w, "idle") \/ Goto(w, "check")
  /\ Unlock(w) /\ shared' = shared \ {Owner[w]}
  /\ UNCHANGED <<tmp, strays, backup, exclusive, archLock, rotating, closed, archiving, dropped,
                 bare, deaths, errors>>

\* maybeRotate, now and then after a write: only one rotation in a process.
MaybeRotate(w) ==
  /\ At(w, "check")
  /\ IF Len(log) < Full \/ rotating[Owner[w]]
       THEN Goto(w, "idle") /\ UNCHANGED rotating
       ELSE /\ rotating' = [rotating EXCEPT ![Owner[w]] = TRUE]
            /\ Goto(w, "rotate")
  /\ UNCHANGED <<fileVars, flockVars, mu, closed, archiving, history>>

-----------------------------------------------------------------------------
(* rotate and copyAndTruncate.                                              *)

LockRotate(w) ==
  /\ At(w, "rotate")
  /\ Lock(w) /\ LockExclusive(Owner[w])
  /\ bare' = (bare \/ closed[Owner[w]] = "closed")
  /\ Goto(w, "copy")
  /\ UNCHANGED <<fileVars, shared, archLock, rotating, closed, archiving, lines, dropped, deaths,
                 errors>>

\* rotate gives up: another process has rotated, or the copy failed.
Abandon(w) ==
  /\ At(w, "copy")
  /\ \/ Len(log) < Full /\ UNCHANGED errors
     \/ errors < MaxErrors /\ errors' = errors + 1
  /\ Unlock(w)
  /\ shared' = shared \ {Owner[w]}
  /\ exclusive' = IF exclusive = Owner[w] THEN Nobody ELSE exclusive
  /\ rotating' = [rotating EXCEPT ![Owner[w]] = FALSE]
  /\ Goto(w, "idle")
  /\ UNCHANGED <<fileVars, archLock, closed, archiving, lines, dropped, bare, deaths>>

Copy(w) ==
  /\ At(w, "copy") /\ Len(log) >= Full
  /\ tmp' = [tmp EXCEPT ![Owner[w]] = log]
  /\ Goto(w, "truncate")
  /\ UNCHANGED <<log, strays, backup, flockVars, processVars, archiving, history>>

\* The log is empty, and the archive goroutine has the copy.
Truncate(w) ==
  /\ At(w, "truncate")
  /\ log' = <<>>
  /\ Unlock(w)
  /\ shared' = shared \ {Owner[w]}
  /\ exclusive' = IF exclusive = Owner[w] THEN Nobody ELSE exclusive
  /\ archiving' = [archiving EXCEPT ![Owner[w]] = "lock"]
  /\ Goto(w, "idle")
  /\ UNCHANGED <<tmp, strays, backup, archLock, rotating, closed, history>>

-----------------------------------------------------------------------------
(* archive.                                                                 *)

ArchiveAt(p, step) == archiving[p] = step
ArchiveGoto(p, step) == archiving' = [archiving EXCEPT ![p] = step]

\* Mutant: the flock is not taken.
ArchiveUnlocked(p) ==
  /\ ArchiveAt(p, "lock")
  /\ ArchiveGoto(p, "drop")
  /\ UNCHANGED <<fileVars, flockVars, processVars, pc, history>>

\* Close waits for archive goroutines before it closes archLock; one that starts
\* after that wait has no flock.
ArchiveLock(p) ==
  /\ ArchiveAt(p, "lock")
  /\ IF closed[p] = "closed" THEN UNCHANGED archLock ELSE archLock = Nobody /\ archLock' = p
  /\ ArchiveGoto(p, "drop")
  /\ UNCHANGED <<fileVars, shared, exclusive, processVars, pc, history>>

ArchiveDrop(p) ==
  /\ ArchiveAt(p, "drop")
  /\ dropped' = dropped \cup In(backup[Keep])
  /\ backup' = [backup EXCEPT ![Keep] = <<>>]
  /\ ArchiveGoto(p, "shift")
  /\ UNCHANGED <<log, tmp, strays, flockVars, processVars, pc, lines, bare, deaths, errors>>

\* Renamed from the oldest on, so none replaces another; one step, under the flock.
ArchiveShift(p) ==
  /\ ArchiveAt(p, "shift")
  /\ backup' = [i \in 1 .. Keep |-> IF i = 1 THEN <<>> ELSE backup[i - 1]]
  /\ ArchiveGoto(p, "copy")
  /\ UNCHANGED <<log, tmp, strays, flockVars, processVars, pc, history>>

ArchiveCopy(p) ==
  /\ ArchiveAt(p, "copy")
  /\ backup' = [backup EXCEPT ![1] = tmp[p]]
  /\ ArchiveGoto(p, "remove")
  /\ UNCHANGED <<log, tmp, strays, flockVars, processVars, pc, history>>

ArchiveEnds(p) ==
  /\ tmp' = [tmp EXCEPT ![p] = <<>>]
  /\ archLock' = IF archLock = p THEN Nobody ELSE archLock
  /\ rotating' = [rotating EXCEPT ![p] = FALSE]
  /\ ArchiveGoto(p, "no")

ArchiveDone(p) ==
  /\ ArchiveAt(p, "remove")
  /\ ArchiveEnds(p)
  /\ UNCHANGED <<log, strays, backup, shared, exclusive, mu, closed, pc, history>>

\* The temporary file stays where it is if the backup cannot be written.
ArchiveFails(p) ==
  /\ ArchiveAt(p, "copy")
  /\ errors < MaxErrors /\ errors' = errors + 1
  /\ strays' = strays \cup {tmp[p]}
  /\ ArchiveEnds(p)
  /\ UNCHANGED <<log, backup, shared, exclusive, mu, closed, pc, lines, dropped, bare, deaths>>

-----------------------------------------------------------------------------
\* Close waits for the archive goroutines there are, then closes the file and
\* the descriptors of the flocks, whoever uses them.
BeginClose(p) ==
  /\ closed[p] = "open"
  /\ closed' = [closed EXCEPT ![p] = "waiting"]
  /\ UNCHANGED <<fileVars, flockVars, mu, rotating, pc, archiving, history>>

Close(p) ==
  /\ closed[p] = "waiting" /\ ArchiveAt(p, "no")
  /\ closed' = [closed EXCEPT ![p] = "closed"]
  /\ shared' = shared \ {p}
  /\ exclusive' = IF exclusive = p THEN Nobody ELSE exclusive
  /\ bare' = (bare \/ exclusive = p)
  /\ UNCHANGED <<fileVars, archLock, mu, rotating, pc, archiving, lines, dropped, deaths, errors>>

\* A process dies: its flocks are gone and its copy is nobody's.
Die(p) ==
  /\ deaths < MaxDeaths /\ deaths' = deaths + 1
  /\ closed' = [closed EXCEPT ![p] = "closed"]
  /\ shared' = shared \ {p}
  /\ exclusive' = IF exclusive = p THEN Nobody ELSE exclusive
  /\ archLock' = IF archLock = p THEN Nobody ELSE archLock
  /\ strays' = IF tmp[p] = <<>> THEN strays ELSE strays \cup {tmp[p]}
  /\ tmp' = [tmp EXCEPT ![p] = <<>>]
  /\ mu' = [mu EXCEPT ![p] = Nobody]
  /\ pc' = [w \in Writer |-> IF Owner[w] = p THEN "idle" ELSE pc[w]]
  /\ archiving' = [archiving EXCEPT ![p] = "no"]
  /\ UNCHANGED <<log, backup, rotating, lines, dropped, bare, errors>>

Next ==
  \/ \E w \in Writer :
       \/ BeginWrite(w) \/ LockWrite(w) \/ AppendLine(w) \/ MaybeRotate(w)
       \/ LockRotate(w) \/ Copy(w) \/ Abandon(w) \/ Truncate(w)
  \/ \E p \in Process :
       \/ ArchiveLock(p) \/ ArchiveDrop(p) \/ ArchiveShift(p) \/ ArchiveCopy(p)
       \/ ArchiveDone(p) \/ ArchiveFails(p)
       \/ BeginClose(p) \/ Close(p) \/ Die(p)

Spec == Init /\ [][Next]_vars

-----------------------------------------------------------------------------
(* Properties.                                                              *)

Copies == (UNION {In(tmp[p]) : p \in Process}) \cup UNION {In(s) : s \in strays}
Backups == UNION {In(backup[i]) : i \in 1 .. Keep}

\* "rotate performs the loss-free in-place rotation": a line that was written is
\* in the log, a copy or a backup until it was in the oldest backup of Keep,
\* whoever rotates, archives, fails or dies; unless a process was closed in the
\* midst of its rotation.
NothingIsLost ==
  bare \/ 1 .. lines \subseteq In(log) \cup Copies \cup Backups \cup dropped

\* Unconditionally: a line that was written is never lost.
LossFree == 1 .. lines \subseteq In(log) \cup Copies \cup Backups \cup dropped

=============================================================================

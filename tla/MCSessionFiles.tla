--------------------------- MODULE MCSessionFiles ---------------------------
(***************************************************************************)
(* Small instances of the files fir writes: the settings of a session      *)
(* (SessionState) beside its transcripts (SessionStore), and the debug log *)
(* of all processes (LogRotation).  They have no variable in common, so a  *)
(* behaviour is one of either.                                             *)
(***************************************************************************)
EXTENDS SessionState, FiniteSets, TLC

CONSTANTS Store, File, ReadOnly, NoStore, NoFile, MaxEntries, Crashes,
          Writer, Process, Owner, Keep, Full, Nobody, MaxLines, a1, a2, b1, q1, q2,
          MaxExposed   \* bound: transcripts written outside the discipline

VARIABLES part

VARIABLES present, header, entries, tail, holder, parent, target, doing, open, lock, mem,
          leaf, persist, exposed

VARIABLES log, tmp, strays, backup, shared, exclusive, archLock, mu, rotating, shut, at,
          archiving, written, dropped, bare, lost, failed

transcriptVars == <<present, header, entries, tail, holder, parent, target, doing, open,
                    lock, mem, leaf, persist, exposed>>

logVars == <<log, tmp, strays, backup, shared, exclusive, archLock, mu, rotating, shut, at,
             archiving, written, dropped, bare, lost, failed>>

Transcripts == INSTANCE SessionStore WITH log <- entries, pc <- doing, file <- open
Log == INSTANCE LogRotation
         WITH closed <- shut, pc <- at, lines <- written, deaths <- lost, errors <- failed

\* Two goroutines of one process write, and one of another.
WriterOwner == a1 :> q1 @@ a2 :> q1 @@ b1 :> q2

ASSUME SettingsConstants == StateAssumption
ASSUME LogConstants == Log!LogAssumption

FilesInit ==
  /\ part \in {"transcripts", "settings", "log"}
  /\ Transcripts!Init
  /\ Init
  /\ Log!Init

FilesNext ==
  \/ part = "transcripts" /\ Transcripts!Next /\ UNCHANGED <<part, vars, logVars>>
  \/ part = "settings" /\ Next /\ UNCHANGED <<part, transcriptVars, logVars>>
  \/ part = "log" /\ Log!Next /\ UNCHANGED <<part, transcriptVars, vars>>

FilesSpec == FilesInit /\ [][FilesNext]_<<part, transcriptVars, vars, logVars>>

\* Bound: of an exposed transcript nothing is promised.
FewExposed == Cardinality(exposed) <= MaxExposed

\* Bound: once an old version's settings have been put after newer ones nothing
\* is promised; a session meets one fault, and a crossing only with a death.
FewFaults == ~overtaken /\ errors + deaths <= 1 /\ (crossed => errors = 0)

ReadOnlyUntouched == Transcripts!ReadOnlyUntouched
NothingIsLost     == Log!NothingIsLost

\* In the place of NothingIsLost: a Close amid a rotation may lose lines.
LossFree == Log!LossFree
=============================================================================

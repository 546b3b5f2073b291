----------------------------- MODULE MCSession -----------------------------
(***************************************************************************)
(* Small instances of a running session: its messages, contexts and        *)
(* restarts (AgentSession), and the store it appends its transcript to,    *)
(* beside one of another process (SessionStore).  The two have no variable *)
(* in common, so a behaviour is one of either.                             *)
(***************************************************************************)
EXTENDS AgentSession, TLC

CONSTANTS Store, File, ReadOnly, NoStore, NoFile, MaxEntries, Crashes,
          MaxExposed,  \* bound: files written outside the discipline
          MaxCallers, m1, m2, r1, r2

VARIABLES part, present, header, log, tail, holder, parent, target, doing, file, lock, mem,
          leaf, persist, exposed

transcriptVars == <<present, header, log, tail, holder, parent, target, doing, file, lock,
                    mem, leaf, persist, exposed>>

Transcripts == INSTANCE SessionStore WITH pc <- doing

ASSUME StoreConstants == Transcripts!StoreAssumption

SessionInit ==
  /\ part \in {"agent", "store"}
  /\ Transcripts!Init
  /\ Init
  /\ part = "store" => model   \* whichever; one will do

SessionNext ==
  \/ part = "store" /\ Transcripts!Next /\ UNCHANGED <<part, vars>>
  \/ part = "agent" /\ Next /\ UNCHANGED <<part, transcriptVars>>

SessionSpec == SessionInit /\ [][SessionNext]_<<part, transcriptVars, vars>>

\* Stores, files, restarts and messages are interchangeable.  A behaviour moves
\* either stores and files or restarts and messages, so permuting the former
\* together with the latter is as good as each permutation on its own.
Swap(a, b) == a :> b @@ b :> a
Moved(perm) == {x \in DOMAIN perm : perm[x] # x}
SessionSymmetry ==
  {stores @@ files
     @@ (IF Moved(stores) = {} THEN <<>> ELSE Swap(r1, r2))
     @@ (IF Cardinality(Moved(files)) = 2 THEN Swap(m1, m2) ELSE <<>>) :
     stores \in Permutations(Store), files \in Permutations(File)}

\* Bound: the messages, restarts and contexts of a behaviour.
FewCallers ==
  Cardinality({c \in Message \cup Restart : pc[c] # "unsent"})
    + Cardinality({c \in Context : \E s \in {history, transcript, contexts} :
                                     \E i \in DOMAIN s : s[i] = c}) <= MaxCallers

\* Bound: two replies of the model, without tools beside a restart; and two more while
\* one hand-off follows another.
FewReplies ==
  /\ replies > 1 => \/ \A i \in DOMAIN history : history[i] # [reply |-> "tool"]
                    \/ \A r \in Restart : pc[r] = "unsent"
  /\ replies > 2 => ~entangled /\ \A r \in Restart : kind[r] = "handoff"

\* Once a file is exposed nothing is promised of it; explore few of them.
FewExposed == Cardinality(exposed) <= MaxExposed

\* Bound: few files once one is exposed.
FewFiles == exposed # {} => Cardinality(present) <= 2

\* Bound: more than two entries of one store at a time, and of one fork.
FewEntries ==
  Len(parent) > 2 =>
    /\ exposed = {} /\ Cardinality(present) <= 2
    /\ Cardinality({p \in Store : doing[p] # "detached"}) <= 1

\* Bound: once a restart and a run have met, or a context was persisted late,
\* little is promised.
Unhurried == ~raced /\ ~behind

SingleWriter     == Transcripts!SingleWriter
MemoryIsOnDisk   == Transcripts!MemoryIsOnDisk
ParentsComeFirst == Transcripts!ParentsComeFirst
AppendOnly       == Transcripts!AppendOnly
=============================================================================

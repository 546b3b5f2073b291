-------------------------- MODULE ObservableStore --------------------------
(***************************************************************************)
(* The sidecar of observable cards (pkg/session/store/observables.go):     *)
(* producers put and clear cards concurrently; every change is followed by *)
(* a flush of the whole map to <session>.cards by temp file and rename.    *)
(*                                                                         *)
(* mu guards the map, flushMu the sequence snapshot, write, rename; mu is  *)
(* free while the file is written.  A card's text is abstracted to the     *)
(* number of the change that put it.                                       *)
(***************************************************************************)
EXTENDS Integers, FiniteSets

CONSTANTS
  Worker,       \* goroutines that call Put and Clear
  Key,          \* (source, key) addresses
  Nobody,
  MaxChanges,   \* bound: changes ever made
  MaxClock,     \* bound: what time.Now may read
  Faults,       \* whether a temp file may fail to be written or renamed
  Crashes       \* whether the process may die and be resumed

ASSUME ObservableAssumption ==
  /\ Nobody \notin Worker
  /\ MaxChanges \in Nat /\ MaxClock \in Nat
  /\ Faults \in BOOLEAN /\ Crashes \in BOOLEAN

VARIABLES
  cards,        \* s.cards: the card at each key
  lastTs,       \* s.lastTs
  memAt,        \* history: the number of the last change cards reflects
  disk,         \* the cards file
  diskAt,       \* history: the number of the last change disk reflects
  flushMu,      \* who holds s.flushMu
  pc,           \* what a worker is doing
  snap, snapAt, \* the snapshot a worker is writing, and its number
  changes,      \* history: changes ever made
  dropped       \* history: the last flush to end failed

memVars  == <<cards, lastTs, memAt>>
diskVars == <<disk, diskAt>>
snapVars == <<snap, snapAt>>
vars == <<memVars, diskVars, flushMu, pc, snapVars, changes, dropped>>

\* ts is Card.Ts, n the number of the Put; Absent stands for no card.
CardType == [ts : Nat, n : Nat]
Absent == [ts |-> 0, n |-> 0]
Empty == [k \in Key |-> Absent]

Init ==
  /\ cards = Empty /\ disk = Empty
  /\ snap = [w \in Worker |-> Empty] /\ snapAt = [w \in Worker |-> 0]
  /\ lastTs = 0
  /\ memAt = 0 /\ diskAt = 0 /\ changes = 0
  /\ flushMu = Nobody
  /\ pc = [w \in Worker |-> "idle"]
  /\ dropped = FALSE

-----------------------------------------------------------------------------

\* The change number changes + 1 is in the map; w goes on to flush.
Changed(w) ==
  /\ changes < MaxChanges
  /\ changes' = changes + 1
  /\ memAt' = changes + 1
  /\ pc' = [pc EXCEPT ![w] = "flush"]
  /\ UNCHANGED <<diskVars, flushMu, snapVars, dropped>>

\* Put: stamp the card later than every other one, whatever the clock says.
Put(w) ==
  /\ pc[w] = "idle"
  /\ \E k \in Key, now \in 0 .. MaxClock :
       LET ts == IF now > lastTs THEN now ELSE lastTs + 1 IN
       /\ cards' = [cards EXCEPT ![k] = [ts |-> ts, n |-> changes + 1]]
       /\ lastTs' = ts
  /\ Changed(w)

\* Clear of a card that is there.
Clear(w) ==
  /\ pc[w] = "idle"
  /\ \E k \in Key : cards[k] # Absent /\ cards' = [cards EXCEPT ![k] = Absent]
  /\ Changed(w)
  /\ UNCHANGED lastTs

\* The copy of the map that flush makes under mu, holding flushMu.
Snapshot(w) ==
  /\ flushMu' = w
  /\ pc' = [pc EXCEPT ![w] = "writing"]
  /\ snap' = [snap EXCEPT ![w] = cards]
  /\ snapAt' = [snapAt EXCEPT ![w] = memAt]

\* Variant: no flushMu.
TakeSnapshotUnlocked(w) ==
  /\ pc[w] = "flush"
  /\ Snapshot(w)
  /\ UNCHANGED <<memVars, diskVars, changes, dropped>>

\* Variant: a flush under way makes another one unnecessary.
TakeSnapshotOrSkip(w) ==
  /\ pc[w] = "flush"
  /\ \/ flushMu = Nobody /\ Snapshot(w)
     \/ /\ flushMu # Nobody
        /\ pc' = [pc EXCEPT ![w] = "idle"]
        /\ UNCHANGED <<flushMu, snapVars>>
  /\ UNCHANGED <<memVars, diskVars, changes, dropped>>

TakeSnapshot(w) ==
  /\ pc[w] = "flush"
  /\ flushMu = Nobody
  /\ Snapshot(w)
  /\ UNCHANGED <<memVars, diskVars, changes, dropped>>

\* The temp file is whole: rename it over the cards file.
Rename(w) ==
  /\ pc[w] = "writing"
  /\ pc' = [pc EXCEPT ![w] = "idle"]
  /\ flushMu' = Nobody
  /\ disk' = snap[w]
  /\ diskAt' = snapAt[w]
  /\ dropped' = FALSE
  /\ UNCHANGED <<memVars, snapVars, changes>>

\* Creating, writing, closing or renaming the temp file fails: nobody is told.
DropFlush(w) ==
  /\ Faults
  /\ pc[w] = "writing"
  /\ pc' = [pc EXCEPT ![w] = "idle"]
  /\ flushMu' = Nobody
  /\ dropped' = TRUE
  /\ UNCHANGED <<memVars, diskVars, snapVars, changes>>

\* The latest time stamp of the cards of m.
LatestTs(m) == CHOOSE t \in {m[k].ts : k \in Key} \cup {0} :
                 \A k \in Key : m[k].ts <= t

\* Variant: lastTs starts from zero again.
RestartAtZero ==
  /\ Crashes
  /\ cards' = disk
  /\ lastTs' = 0
  /\ memAt' = diskAt
  /\ flushMu' = Nobody
  /\ pc' = [w \in Worker |-> "idle"]
  /\ dropped' = FALSE
  /\ UNCHANGED <<diskVars, snapVars, changes>>

\* The process dies, wherever its goroutines are, and the session is resumed:
\* NewObservableStore loads the file.
Restart ==
  /\ Crashes
  /\ cards' = disk
  /\ lastTs' = LatestTs(disk)
  /\ memAt' = diskAt
  /\ flushMu' = Nobody
  /\ pc' = [w \in Worker |-> "idle"]
  /\ dropped' = FALSE
  /\ UNCHANGED <<diskVars, snapVars, changes>>

Flush == \E w \in Worker : TakeSnapshot(w) \/ Rename(w)

Next ==
  \/ \E w \in Worker : Put(w) \/ Clear(w) \/ DropFlush(w)
  \/ Flush
  \/ Restart

Spec == Init /\ [][Next]_vars

\* A goroutine that called flush is run until it returns, and a mutex that is
\* free is taken by one of those that wait for it.
FairSpec == Spec /\ WF_vars(Flush)

-----------------------------------------------------------------------------
(* Properties. *)

TypeOK ==
  /\ cards \in [Key -> CardType] /\ disk \in [Key -> CardType]
  /\ snap \in [Worker -> [Key -> CardType]] /\ snapAt \in [Worker -> Nat]
  /\ lastTs \in Nat
  /\ memAt \in Nat /\ diskAt \in Nat /\ changes \in Nat
  /\ flushMu \in Worker \cup {Nobody}
  /\ pc \in [Worker -> {"idle", "flush", "writing"}]
  /\ dropped \in BOOLEAN

\* flushMu: once every flush has returned, and the last did not fail, the file
\* holds the latest map, however the changes and the writes interleaved.
SavedWhenIdle ==
  (\A w \in Worker : pc[w] = "idle") /\ ~dropped => disk = cards

\* lastTs: "latest wins" in List's order, over clocks that stand still or step
\* back and over restarts: the later of two cards has the later time stamp.
LatestWins ==
  \A k, l \in Key :
    cards[k] # Absent /\ cards[l] # Absent
      => (cards[k].n < cards[l].n <=> cards[k].ts < cards[l].ts)

\* An older snapshot never replaces a newer one on disk.
DiskNeverGoesBack == [][diskAt' >= diskAt]_vars

\* A change in memory reaches the disk, itself or under a later one, unless a
\* flush fails or the process dies first.
EventuallySaved ==
  \A n \in 1 .. MaxChanges :
    (memAt >= n) ~> (diskAt >= n \/ dropped \/ memAt < n)
=============================================================================

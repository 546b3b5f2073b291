----------------------- MODULE ObservableStoreProofs -----------------------
(***************************************************************************)
(* Proofs that the cards file of ObservableStore ends at the latest map,   *)
(* never goes back to an older one, and that time stamps order the cards   *)
(* as the changes did.                                                     *)
(***************************************************************************)
EXTENDS ObservableStore, WellFoundedInduction, TLAPS

-----------------------------------------------------------------------------
(* The time stamp a process starts with. *)

\* A set of numbers with a bound has a largest element.
LEMMA LargestElement ==
  ASSUME NEW T \in SUBSET Nat, T # {}, NEW b \in Nat, \A t \in T : t <= b
  PROVE  \E m \in T : \A t \in T : t <= m
<1> DEFINE D == {b - t : t \in T}
<1>1. \A t \in T : b - t \in Nat
  OBVIOUS
<1>2. D \in SUBSET Nat /\ D # {}
  <2>1. D \subseteq Nat
    BY <1>1
  <2>2. PICK t \in T : TRUE
    OBVIOUS
  <2>3. b - t \in D
    BY <2>2
  <2> QED
    BY <2>1, <2>3
<1>3. PICK d \in D : \A e \in D : ~(<<e, d>> \in OpToRel(<, Nat))
  <2> HIDE DEF D
  <2> QED
    BY <1>2, NatLessThanWellFounded, WFMin
<1>4. \A e \in D : d <= e
  <2> HIDE DEF D
  <2> SUFFICES ASSUME NEW e \in D PROVE d <= e
    OBVIOUS
  <2>1. d \in Nat /\ e \in Nat
    BY <1>2
  <2>2. ~(e < d)
    BY <1>3, <2>1 DEF OpToRel
  <2> QED
    BY <2>1, <2>2
<1>5. PICK m \in T : d = b - m
  OBVIOUS
<1>6. \A t \in T : b - m <= b - t
  BY <1>4, <1>5
<1> HIDE DEF D
<1> QED
  BY <1>6

\* LatestTs bounds the stamps of a map, and is no larger than any bound of them.
LEMMA LatestTsProperty ==
  ASSUME NEW m \in [Key -> CardType], NEW b \in Nat, \A k \in Key : m[k].ts <= b
  PROVE  LatestTs(m) \in Nat /\ \A k \in Key : m[k].ts <= LatestTs(m)
<1> DEFINE T == {m[k].ts : k \in Key} \cup {0}
<1>1. \A k \in Key : m[k].ts \in Nat
  BY DEF CardType
<1>2. T \in SUBSET Nat /\ T # {}
  BY <1>1
<1>3. PICK t \in T : \A u \in T : u <= t
  <2>1. \A u \in T : u <= b
    OBVIOUS
  <2> HIDE DEF T
  <2> QED
    BY <1>2, <2>1, LargestElement
<1>4. \A k \in Key : m[k].ts <= t
  BY <1>3
<1> QED
  BY <1>2, <1>3, <1>4 DEF LatestTs

-----------------------------------------------------------------------------
(* The inductive invariant. *)

\* flushMu: whoever writes the temp file holds it.
MutexInv == \A w \in Worker : pc[w] = "writing" => flushMu = w

\* The file reflects no later change than a snapshot, a snapshot no later one
\* than the map; equal numbers stand for equal maps.
NumberInv ==
  /\ diskAt <= memAt /\ memAt <= changes
  /\ diskAt = memAt => disk = cards
  /\ \A w \in Worker : pc[w] = "writing" =>
       /\ diskAt <= snapAt[w] /\ snapAt[w] <= memAt
       /\ snapAt[w] = memAt => snap[w] = cards

\* A change that no write under way will save has a flush to come.
PendingInv ==
  /\ \A w \in Worker : pc[w] = "writing" /\ snapAt[w] # memAt
       => \E v \in Worker : pc[v] = "flush"
  /\ memAt # diskAt /\ ~dropped => \E w \in Worker : pc[w] # "idle"

\* The stamps of a map order its cards as the changes did, and none is later
\* than the last one given.
Ordered(m) ==
  /\ \A k \in Key : m[k].ts <= lastTs /\ m[k].n <= changes
  /\ \A k, l \in Key : m[k] # Absent /\ m[l] # Absent
       => (m[k].n < m[l].n <=> m[k].ts < m[l].ts)

OrderInv ==
  /\ Ordered(cards) /\ Ordered(disk)
  /\ \A w \in Worker : pc[w] = "writing" => Ordered(snap[w])

IInv == TypeOK /\ MutexInv /\ NumberInv /\ PendingInv /\ OrderInv

LEMMA InitIInv == Init => IInv
<1> SUFFICES ASSUME Init PROVE IInv
  OBVIOUS
<1>1. \A k \in Key : Empty[k] = Absent
  BY DEF Empty
<1>2. Empty \in [Key -> CardType] /\ Absent.ts = 0 /\ Absent.n = 0
  BY DEF Empty, CardType, Absent
<1>3. TypeOK
  BY <1>2, ObservableAssumption DEF Init, TypeOK
<1>4. MutexInv /\ NumberInv /\ PendingInv
  BY DEF Init, MutexInv, NumberInv, PendingInv
<1>5. OrderInv
  BY <1>1, <1>2 DEF Init, OrderInv, Ordered
<1> QED
  BY <1>3, <1>4, <1>5 DEF IInv

\* A change leaves every map but cards as it is, and gives it a new number.
LEMMA ChangedIInv ==
  ASSUME IInv, NEW w \in Worker, Changed(w), pc[w] = "idle",
         cards' \in [Key -> CardType], lastTs' \in Nat, lastTs <= lastTs',
         Ordered(cards)'
  PROVE  IInv'
<1> USE DEF IInv
<1>1. TypeOK'
  BY DEF TypeOK, Changed, diskVars, snapVars
<1>2. MutexInv'
  BY DEF TypeOK, MutexInv, Changed
<1>3. NumberInv'
  BY DEF TypeOK, NumberInv, Changed, diskVars, snapVars
<1>4. PendingInv'
  BY DEF TypeOK, PendingInv, Changed
<1>5. ASSUME NEW m \in [Key -> CardType], Ordered(m)
      PROVE  \A k \in Key : m[k].ts <= lastTs' /\ m[k].n <= changes'
  BY <1>5 DEF Ordered, TypeOK, Changed, CardType
<1>6. Ordered(disk)'
  BY <1>5 DEF OrderInv, Ordered, TypeOK, Changed, diskVars
<1>7. ASSUME NEW v \in Worker, pc'[v] = "writing" PROVE Ordered(snap[v])'
  <2>1. Ordered(snap[v])
    BY <1>7 DEF OrderInv, TypeOK, Changed
  <2> QED
    BY <1>5, <2>1 DEF Ordered, TypeOK, Changed, snapVars
<1> QED
  BY <1>1, <1>2, <1>3, <1>4, <1>6, <1>7 DEF OrderInv

LEMMA PutIInv ==
  ASSUME IInv, NEW w \in Worker, Put(w)
  PROVE  IInv'
<1> USE DEF IInv
<1>1. PICK k \in Key, now \in 0 .. MaxClock :
        /\ lastTs' = IF now > lastTs THEN now ELSE lastTs + 1
        /\ cards' = [cards EXCEPT ![k] = [ts |-> lastTs', n |-> changes + 1]]
  BY DEF Put
<1>2. lastTs' \in Nat /\ lastTs < lastTs' /\ changes' = changes + 1
  BY <1>1, ObservableAssumption DEF TypeOK, Put, Changed
<1>3. cards' \in [Key -> CardType]
  BY <1>1, <1>2 DEF TypeOK, CardType
<1>4. cards'[k].ts = lastTs' /\ cards'[k].n = changes + 1
  BY <1>1 DEF TypeOK
<1>5. \A l \in Key \ {k} : cards'[l] = cards[l]
  BY <1>1 DEF TypeOK
<1>6. \A l \in Key \ {k} : /\ cards[l].ts \in Nat /\ cards[l].ts < lastTs'
                           /\ cards[l].n \in Nat /\ cards[l].n < changes + 1
  BY <1>2 DEF TypeOK, CardType, OrderInv, Ordered
<1>7. Ordered(cards)'
  <2>1. \A l \in Key : cards'[l].ts <= lastTs' /\ cards'[l].n <= changes'
    BY <1>2, <1>4, <1>5, <1>6 DEF TypeOK
  <2>2. ASSUME NEW l \in Key, NEW m \in Key, cards'[l] # Absent, cards'[m] # Absent
        PROVE  cards'[l].n < cards'[m].n <=> cards'[l].ts < cards'[m].ts
    <3>1. CASE l = k /\ m = k
      BY <3>1, <1>2, <1>4 DEF TypeOK
    <3>2. CASE l = k /\ m # k
      BY <3>2, <1>2, <1>4, <1>5, <1>6 DEF TypeOK
    <3>3. CASE l # k /\ m = k
      BY <3>3, <1>2, <1>4, <1>5, <1>6 DEF TypeOK
    <3>4. CASE l # k /\ m # k
      BY <3>4, <2>2, <1>5 DEF OrderInv, Ordered
    <3> QED
      BY <3>1, <3>2, <3>3, <3>4
  <2> QED
    BY <2>1, <2>2 DEF Ordered, Absent
<1>8. pc[w] = "idle" /\ Changed(w) /\ lastTs <= lastTs'
  BY <1>2 DEF Put, TypeOK
<1> HIDE DEF IInv
<1> QED
  BY <1>2, <1>3, <1>7, <1>8, ChangedIInv

LEMMA ClearIInv ==
  ASSUME IInv, NEW w \in Worker, Clear(w)
  PROVE  IInv'
<1> USE DEF IInv
<1>1. PICK k \in Key : cards' = [cards EXCEPT ![k] = Absent]
  BY DEF Clear
<1>2. Absent \in CardType /\ Absent.ts = 0 /\ Absent.n = 0
  BY DEF Absent, CardType
<1>3. cards' \in [Key -> CardType]
  BY <1>1, <1>2 DEF TypeOK
<1>4. \A l \in Key : cards'[l] = Absent \/ cards'[l] = cards[l]
  BY <1>1 DEF TypeOK
<1>5. lastTs' = lastTs /\ changes' = changes + 1
  BY DEF Clear, Changed
<1>6. \A l \in Key : cards[l].n \in Nat
  BY DEF TypeOK, CardType
<1>7. Ordered(cards)'
  <2>1. \A l \in Key : cards'[l].ts <= lastTs' /\ cards'[l].n <= changes'
    BY <1>2, <1>4, <1>5, <1>6 DEF OrderInv, Ordered, TypeOK
  <2>2. \A l \in Key : cards'[l] # Absent => cards'[l] = cards[l] /\ cards[l] # Absent
    BY <1>4
  <2>3. \A l, m \in Key : cards[l] # Absent /\ cards[m] # Absent
          => (cards[l].n < cards[m].n <=> cards[l].ts < cards[m].ts)
    BY DEF OrderInv, Ordered
  <2> HIDE DEF IInv
  <2> QED
    BY <2>1, <2>2, <2>3 DEF Ordered, Absent
<1>8. pc[w] = "idle" /\ Changed(w) /\ lastTs' \in Nat /\ lastTs <= lastTs'
  BY <1>5 DEF Clear, TypeOK
<1> HIDE DEF IInv
<1> QED
  BY <1>3, <1>7, <1>8, ChangedIInv

LEMMA TakeSnapshotIInv ==
  ASSUME IInv, NEW w \in Worker, TakeSnapshot(w)
  PROVE  IInv'
<1> USE DEF IInv, TakeSnapshot, Snapshot, memVars, diskVars
<1>1. \A v \in Worker : pc'[v] = "writing" => v = w
  BY ObservableAssumption DEF TypeOK, MutexInv
<1>2. snap'[w] = cards /\ snapAt'[w] = memAt
  BY DEF TypeOK
<1>3. TypeOK'
  BY DEF TypeOK
<1>4. MutexInv'
  BY <1>1 DEF MutexInv
<1>5. NumberInv'
  BY <1>1, <1>2 DEF NumberInv, TypeOK
<1>6. PendingInv'
  BY <1>1, <1>2 DEF PendingInv, TypeOK
<1>7. OrderInv'
  BY <1>1, <1>2 DEF OrderInv, Ordered
<1> QED
  BY <1>3, <1>4, <1>5, <1>6, <1>7

LEMMA RenameIInv ==
  ASSUME IInv, NEW w \in Worker, Rename(w)
  PROVE  IInv'
<1> USE DEF IInv, Rename, memVars, snapVars
<1>1. \A v \in Worker : pc'[v] # "writing"
  BY DEF TypeOK, MutexInv
<1>2. TypeOK'
  BY DEF TypeOK
<1>3. MutexInv'
  BY <1>1 DEF MutexInv
<1>4. NumberInv'
  BY <1>1 DEF NumberInv
<1>5. PendingInv'
  <2>1. CASE snapAt[w] = memAt
    BY <1>1, <2>1 DEF PendingInv
  <2>2. CASE snapAt[w] # memAt
    <3>1. PICK v \in Worker : pc[v] = "flush"
      BY <2>2 DEF PendingInv
    <3>2. pc'[v] = "flush"
      BY <3>1 DEF TypeOK
    <3> QED
      BY <1>1, <3>2 DEF PendingInv
  <2> QED
    BY <2>1, <2>2
<1>6. OrderInv'
  BY <1>1 DEF OrderInv, Ordered
<1> QED
  BY <1>2, <1>3, <1>4, <1>5, <1>6

LEMMA DropFlushIInv ==
  ASSUME IInv, NEW w \in Worker, DropFlush(w)
  PROVE  IInv'
<1> USE DEF IInv, DropFlush, memVars, diskVars, snapVars
<1>1. \A v \in Worker : pc'[v] # "writing"
  BY DEF TypeOK, MutexInv
<1>2. TypeOK'
  BY DEF TypeOK
<1>3. MutexInv' /\ NumberInv' /\ PendingInv'
  BY <1>1 DEF MutexInv, NumberInv, PendingInv
<1>4. OrderInv'
  BY <1>1 DEF OrderInv, Ordered
<1> QED
  BY <1>2, <1>3, <1>4

LEMMA RestartIInv ==
  ASSUME IInv, Restart
  PROVE  IInv'
<1> USE DEF IInv, Restart, diskVars, snapVars
<1>1. \A v \in Worker : pc'[v] = "idle"
  OBVIOUS
<1>2. lastTs' \in Nat /\ \A k \in Key : disk[k].ts <= lastTs'
  BY LatestTsProperty DEF TypeOK, OrderInv, Ordered
<1>3. TypeOK'
  BY <1>2 DEF TypeOK
<1>4. MutexInv' /\ PendingInv'
  BY <1>1 DEF MutexInv, PendingInv
<1>5. NumberInv'
  BY <1>1 DEF NumberInv, TypeOK
<1>6. OrderInv'
  BY <1>1, <1>2 DEF OrderInv, Ordered
<1> QED
  BY <1>3, <1>4, <1>5, <1>6

LEMMA StutterIInv ==
  ASSUME IInv, UNCHANGED vars
  PROVE  IInv'
BY DEF IInv, TypeOK, MutexInv, NumberInv, PendingInv, OrderInv, Ordered,
       vars, memVars, diskVars, snapVars

LEMMA NextIInv == IInv /\ [Next]_vars => IInv'
BY PutIInv, ClearIInv, DropFlushIInv, TakeSnapshotIInv, RenameIInv,
   RestartIInv, StutterIInv DEF Next, Flush

LEMMA Invariance == Spec => []IInv
BY InitIInv, NextIInv, PTL DEF Spec

-----------------------------------------------------------------------------
(* Theorems. *)

\* The type invariant.
THEOREM TypeCorrect == Spec => []TypeOK
<1>1. IInv => TypeOK
  BY DEF IInv
<1> QED
  BY <1>1, Invariance, PTL

\* flushMu keeps snapshot, write and rename together, and every producer
\* flushes after its change: once all have returned, and the last flush did
\* not fail, the file holds the latest map.
THEOREM FileIsLatestWhenIdle == Spec => []SavedWhenIdle
<1>1. IInv => SavedWhenIdle
  BY DEF IInv, PendingInv, NumberInv, SavedWhenIdle
<1> QED
  BY <1>1, Invariance, PTL

\* lastTs: the later of two cards has the later time stamp, whatever the clock
\* does and however often the session is resumed.
THEOREM LatestCardWins == Spec => []LatestWins
<1>1. IInv => LatestWins
  BY DEF IInv, OrderInv, Ordered, LatestWins
<1> QED
  BY <1>1, Invariance, PTL

\* flushMu: no rename puts an older map over a newer one.
THEOREM FileOnlyAdvances == Spec => DiskNeverGoesBack
<1>1. IInv /\ [Next]_vars => diskAt' >= diskAt
  <2> SUFFICES ASSUME IInv, [Next]_vars PROVE diskAt' >= diskAt
    OBVIOUS
  <2>1. diskAt' = diskAt \/ \E w \in Worker : Rename(w)
    BY DEF Next, Flush, Put, Clear, Changed, DropFlush, TakeSnapshot, Restart,
           vars, diskVars
  <2> QED
    BY <2>1 DEF IInv, TypeOK, NumberInv, Rename
<1>2. IInv /\ [Next]_vars => [diskAt' >= diskAt]_vars
  BY <1>1
<1> QED
  BY <1>2, Invariance, PTL DEF Spec, DiskNeverGoesBack
=============================================================================

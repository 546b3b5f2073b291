--------------------------- MODULE SessionProofs ---------------------------
(***************************************************************************)
(* Proofs about a running session and the transcripts it writes            *)
(* (MCSession): of AgentSession, that nothing a session took is forgotten, *)
(* that its contexts are in place and its card tells when it runs; of      *)
(* SessionStore, that a transcript keeps one writer, whose memory is what  *)
(* a reload gives, and that no entry is lost.                              *)
(***************************************************************************)
EXTENDS MCSession, FiniteSetTheorems, SequenceTheorems, TLAPS


-----------------------------------------------------------------------------
(* Sequences: the set of their items, how many of them are in a set.        *)

LEMMA SetOfConcat ==
  ASSUME NEW S, NEW s \in Seq(S), NEW t \in Seq(S)
  PROVE  ToSet(s \o t) = ToSet(s) \cup ToSet(t)
<1>1. DOMAIN s = 1 .. Len(s) /\ DOMAIN t = 1 .. Len(t) /\ DOMAIN (s \o t) = 1 .. Len(s) + Len(t)
  BY ConcatProperties, LenProperties
<1>2. ASSUME NEW i \in 1 .. Len(t)
      PROVE  (s \o t)[i + Len(s)] = t[i] /\ i + Len(s) \in 1 .. Len(s) + Len(t)
  BY ConcatProperties, LenProperties
<1>3. ASSUME NEW i \in 1 .. Len(s)
      PROVE  (s \o t)[i] = s[i] /\ i \in 1 .. Len(s) + Len(t)
  BY ConcatProperties, LenProperties
<1>4. ASSUME NEW i \in 1 .. Len(s) + Len(t)
      PROVE  \/ i \in 1 .. Len(s) /\ (s \o t)[i] = s[i]
             \/ i - Len(s) \in 1 .. Len(t) /\ (s \o t)[i] = t[i - Len(s)]
  BY ConcatProperties, LenProperties
<1>5. ToSet(s \o t) \subseteq ToSet(s) \cup ToSet(t)
  BY <1>1, <1>4 DEF ToSet
<1>6. ToSet(s) \subseteq ToSet(s \o t)
  BY <1>1, <1>3 DEF ToSet
<1>7. ToSet(t) \subseteq ToSet(s \o t)
  BY <1>1, <1>2 DEF ToSet
<1> QED
  BY <1>5, <1>6, <1>7

LEMMA SetOfAppend ==
  ASSUME NEW S, NEW s \in Seq(S), NEW x \in S
  PROVE  ToSet(Append(s, x)) = ToSet(s) \cup {x}
<1>1. Append(s, x) = s \o <<x>> /\ <<x>> \in Seq(S)
  BY AppendIsConcat
<1>2. ToSet(<<x>>) = {x}
  BY DEF ToSet
<1>3. ToSet(s \o <<x>>) = ToSet(s) \cup ToSet(<<x>>)
  BY <1>1, SetOfConcat
<1> QED
  BY <1>1, <1>2, <1>3

LEMMA SetOfFew ==
  /\ ToSet(<<>>) = {}
  /\ \A x : ToSet(<<x>>) = {x}
BY DEF ToSet

LEMMA SplitsAtHead ==
  ASSUME NEW S, NEW s \in Seq(S), s # <<>>
  PROVE  /\ Head(s) \in S /\ Tail(s) \in Seq(S)
         /\ s = <<Head(s)>> \o Tail(s)
<1>1. /\ Head(s) \in S /\ Tail(s) \in Seq(S) /\ Len(Tail(s)) = Len(s) - 1
      /\ \A i \in 1 .. Len(Tail(s)) : Tail(s)[i] = s[i + 1]
  BY HeadTailProperties
<1>2. <<Head(s)>> \in Seq(S) /\ Len(<<Head(s)>>) = 1 /\ <<Head(s)>>[1] = s[1]
  BY <1>1
<1>3. Len(s) \in Nat
  BY LenProperties
<1>4. /\ <<Head(s)>> \o Tail(s) \in Seq(S)
      /\ Len(<<Head(s)>> \o Tail(s)) = Len(s)
      /\ \A i \in 1 .. Len(s) : (<<Head(s)>> \o Tail(s))[i] =
            IF i <= 1 THEN <<Head(s)>>[i] ELSE Tail(s)[i - 1]
  BY <1>1, <1>2, <1>3, ConcatProperties
<1>5. \A i \in 1 .. Len(s) : (<<Head(s)>> \o Tail(s))[i] = s[i]
  BY <1>1, <1>2, <1>3, <1>4
<1> QED
  BY <1>1, <1>4, <1>5, SeqEqual

LEMMA SetOfHeadTail ==
  ASSUME NEW S, NEW s \in Seq(S), s # <<>>
  PROVE  ToSet(s) = {Head(s)} \cup ToSet(Tail(s))
<1>1. /\ Head(s) \in S /\ Tail(s) \in Seq(S)
      /\ s = <<Head(s)>> \o Tail(s)
  BY SplitsAtHead
<1>2. <<Head(s)>> \in Seq(S)
  BY <1>1
<1>3. ToSet(<<Head(s)>> \o Tail(s)) = ToSet(<<Head(s)>>) \cup ToSet(Tail(s))
  BY <1>1, <1>2, SetOfConcat
<1> QED
  BY <1>1, <1>3, SetOfFew

LEMMA SetOfType ==
  ASSUME NEW S, NEW s \in Seq(S)
  PROVE  ToSet(s) \subseteq S /\ (s # <<>> => ToSet(s) # {})
<1>1. Len(s) \in Nat /\ DOMAIN s = 1 .. Len(s) /\ \A i \in 1 .. Len(s) : s[i] \in S
  BY LenProperties, ElementOfSeq
<1>2. s # <<>> => 1 \in DOMAIN s
  BY <1>1, EmptySeq
<1> QED
  BY <1>1, <1>2 DEF ToSet

Hits(s, S) == {i \in DOMAIN s : s[i] \in S}
Number(s, S) == Cardinality({i \in DOMAIN s : s[i] \in S})

LEMMA NumberType ==
  ASSUME NEW T, NEW s \in Seq(T), NEW S
  PROVE  /\ IsFiniteSet(Hits(s, S)) /\ Number(s, S) = Cardinality(Hits(s, S)) /\ Number(s, S) \in Nat
         /\ Number(s, S) = 0 <=> ToSet(s) \cap S = {}
<1>1. DOMAIN s = 1 .. Len(s) /\ Len(s) \in Nat
  BY LenProperties
<1>2. IsFiniteSet(1 .. Len(s))
  BY <1>1, FS_Interval
<1>3. IsFiniteSet(Hits(s, S))
  BY <1>1, <1>2, FS_Subset DEF Hits
<1>4. Number(s, S) = Cardinality(Hits(s, S))
  BY DEF Number, Hits
<1>5. Cardinality(Hits(s, S)) = 0 <=> Hits(s, S) = {}
  BY <1>3, FS_EmptySet
<1>6. Hits(s, S) = {} <=> ToSet(s) \cap S = {}
  BY DEF Hits, ToSet
<1> QED
  BY <1>3, <1>4, <1>5, <1>6, FS_CardinalityType

LEMMA NumberOfConcat ==
  ASSUME NEW T, NEW s \in Seq(T), NEW t \in Seq(T), NEW S
  PROVE  Number(s \o t, S) = Number(s, S) + Number(t, S)
<1> DEFINE n == Len(s)
           later == {i + n : i \in Hits(t, S)}
<1>1. /\ DOMAIN s = 1 .. n /\ DOMAIN t = 1 .. Len(t) /\ n \in Nat /\ Len(t) \in Nat
      /\ s \o t \in Seq(T) /\ DOMAIN (s \o t) = 1 .. n + Len(t)
      /\ \A i \in 1 .. n + Len(t) : (s \o t)[i] = IF i <= n THEN s[i] ELSE t[i - n]
  BY ConcatProperties, LenProperties
<1>2. Hits(s, S) \subseteq 1 .. n /\ Hits(t, S) \subseteq 1 .. Len(t)
  BY <1>1 DEF Hits
<1>3. Hits(s \o t, S) = Hits(s, S) \cup later
  <2>1. ASSUME NEW i \in Hits(s \o t, S)
        PROVE  i \in Hits(s, S) \cup later
    <3>1. i \in 1 .. n + Len(t) /\ (s \o t)[i] \in S
      BY <1>1 DEF Hits
    <3>2. CASE i <= n
      BY <1>1, <3>1, <3>2 DEF Hits
    <3>3. CASE ~ (i <= n)
      <4>1. i - n \in 1 .. Len(t) /\ t[i - n] \in S /\ i = (i - n) + n
        BY <1>1, <3>1, <3>3
      <4> QED
        BY <1>1, <4>1 DEF Hits
    <3> QED
      BY <3>2, <3>3
  <2>2. Hits(s, S) \subseteq Hits(s \o t, S)
    <3> SUFFICES ASSUME NEW i \in Hits(s, S) PROVE i \in Hits(s \o t, S)
      OBVIOUS
    <3>1. i \in 1 .. n /\ s[i] \in S
      BY <1>1 DEF Hits
    <3>2. i \in 1 .. n + Len(t) /\ (s \o t)[i] = s[i]
      BY <1>1, <3>1
    <3> QED
      BY <1>1, <3>1, <3>2 DEF Hits
  <2>3. ASSUME NEW i \in Hits(t, S)
        PROVE  i + n \in Hits(s \o t, S)
    <3>1. i \in 1 .. Len(t) /\ t[i] \in S
      BY <1>1 DEF Hits
    <3>2. i + n \in 1 .. n + Len(t) /\ (s \o t)[i + n] = t[i]
      BY <1>1, <3>1
    <3> QED
      BY <1>1, <3>1, <3>2 DEF Hits
  <2> QED
    BY <2>1, <2>2, <2>3
<1>4. IsFiniteSet(Hits(s, S)) /\ IsFiniteSet(Hits(t, S)) /\ Number(s, S) \in Nat /\ Number(t, S) \in Nat
  BY NumberType
<1>5. IsFiniteSet(later) /\ Cardinality(later) = Number(t, S)
  <2> DEFINE f == [i \in Hits(t, S) |-> i + n]
  <2>1. \A i, j \in Hits(t, S) : i + n = j + n => i = j
    BY <1>1, <1>2
  <2>2. f \in Bijection(Hits(t, S), later)
    <3>1. f \in [Hits(t, S) -> later]
      OBVIOUS
    <3>2. \A i, j \in Hits(t, S) : f[i] = f[j] => i = j
      BY <2>1
    <3>3. \A y \in later : \E i \in Hits(t, S) : f[i] = y
      OBVIOUS
    <3> QED
      BY <3>1, <3>2, <3>3 DEF Bijection, Injection, Surjection, IsInjective
  <2>3. ExistsBijection(Hits(t, S), later)
    BY <2>2 DEF ExistsBijection
  <2> QED
    BY <1>4, <2>3, FS_Bijection, NumberType
<1>6. Hits(s, S) \cap later = {}
  <2> SUFFICES ASSUME NEW i \in Hits(s, S), NEW j \in Hits(t, S), i = j + n PROVE FALSE
    OBVIOUS
  <2> QED
    BY <1>1, <1>2
<1>7. Cardinality(Hits(s \o t, S)) = Number(s, S) + Number(t, S)
  <2>1. Cardinality(Hits(s, S) \cup later)
          = Cardinality(Hits(s, S)) + Cardinality(later) - Cardinality({})
    BY <1>4, <1>5, <1>6, FS_Union
  <2>2. Cardinality(Hits(s, S)) = Number(s, S)
    BY NumberType
  <2> HIDE DEF later
  <2> QED
    BY <1>3, <1>4, <1>5, <2>1, <2>2, FS_EmptySet
<1> QED
  BY <1>1, <1>7, NumberType

LEMMA NumberOfFew ==
  ASSUME NEW S
  PROVE  /\ Number(<<>>, S) = 0
         /\ \A x : Number(<<x>>, S) = IF x \in S THEN 1 ELSE 0
<1>1. Hits(<<>>, S) = {}
  BY DEF Hits
<1>2. ASSUME NEW x PROVE Hits(<<x>>, S) = IF x \in S THEN {1} ELSE {}
  BY DEF Hits
<1>3. /\ Number(<<>>, S) = Cardinality(Hits(<<>>, S))
      /\ \A x : Number(<<x>>, S) = Cardinality(Hits(<<x>>, S))
  BY DEF Number, Hits
<1> QED
  BY <1>1, <1>2, <1>3, FS_EmptySet, FS_Singleton

LEMMA NumberOfAppend ==
  ASSUME NEW T, NEW s \in Seq(T), NEW x \in T, NEW S
  PROVE  Number(Append(s, x), S) = Number(s, S) + IF x \in S THEN 1 ELSE 0
<1>1. Append(s, x) = s \o <<x>> /\ <<x>> \in Seq(T)
  BY AppendIsConcat
<1>2. Number(s \o <<x>>, S) = Number(s, S) + Number(<<x>>, S)
  BY <1>1, NumberOfConcat
<1> QED
  BY <1>1, <1>2, NumberOfFew

LEMMA NumberOfHeadTail ==
  ASSUME NEW T, NEW s \in Seq(T), s # <<>>, NEW S
  PROVE  Number(s, S) = Number(Tail(s), S) + IF Head(s) \in S THEN 1 ELSE 0
<1>1. /\ Head(s) \in T /\ Tail(s) \in Seq(T)
      /\ s = <<Head(s)>> \o Tail(s)
  BY SplitsAtHead
<1>2. <<Head(s)>> \in Seq(T)
  BY <1>1
<1>3. Number(<<Head(s)>> \o Tail(s), S) = Number(<<Head(s)>>, S) + Number(Tail(s), S)
  BY <1>1, <1>2, NumberOfConcat
<1>4. Number(<<Head(s)>>, S) = IF Head(s) \in S THEN 1 ELSE 0
  BY NumberOfFew
<1>5. Number(Tail(s), S) \in Nat
  BY <1>1, NumberType
<1>6. Number(s, S) = Number(<<Head(s)>> \o Tail(s), S)
  BY <1>1, Zenon
<1> HIDE <1>1
<1> QED
  BY <1>3, <1>4, <1>5, <1>6

LEMMA NumberGrows ==
  ASSUME NEW T, NEW s \in Seq(T), NEW S, NEW U, S \subseteq U
  PROVE  Number(s, S) <= Number(s, U)
<1>1. Hits(s, S) \subseteq Hits(s, U)
  BY DEF Hits
<1> QED
  BY <1>1, NumberType, FS_Subset

LEMMA CountIsNumber ==
  ASSUME NEW s, NEW x
  PROVE  Count(s, x) = Number(s, {x})
<1>1. {i \in DOMAIN s : s[i] = x} = {i \in DOMAIN s : s[i] \in {x}}
  OBVIOUS
<1> QED
  BY <1>1 DEF Count, Number

-----------------------------------------------------------------------------
(* Pick: the items at some positions, in the order of these.                *)

Rank(P, p) == Cardinality({q \in P : q < p})
Nth(P, i) == CHOOSE p \in P : Cardinality({q \in P : q < p}) = i - 1

LEMMA RankType ==
  ASSUME NEW P \in SUBSET Nat, IsFiniteSet(P), NEW p \in P
  PROVE  /\ Cardinality(P) \in Nat /\ Rank(P, p) \in 0 .. Cardinality(P) - 1
         /\ \A q \in P : q < p => Rank(P, q) < Rank(P, p)
<1> DEFINE Below(q) == {x \in P : x < q}
<1>1. ASSUME NEW q \in P
      PROVE  IsFiniteSet(Below(q)) /\ Rank(P, q) = Cardinality(Below(q)) /\ Rank(P, q) \in Nat
  <2>1. IsFiniteSet(Below(q))
    BY FS_Subset
  <2> QED
    BY <2>1, FS_CardinalityType DEF Rank
<1>2. Rank(P, p) < Cardinality(P)
  <2>1. Below(p) \subseteq P /\ Below(p) # P
    <3>1. ~ (p < p)
      OBVIOUS
    <3> QED
      BY <3>1
  <2>2. Cardinality(Below(p)) <= Cardinality(P) /\ Cardinality(Below(p)) # Cardinality(P)
    BY <2>1, FS_Subset
  <2>3. Cardinality(Below(p)) \in Nat /\ Cardinality(P) \in Nat /\ Rank(P, p) = Cardinality(Below(p))
    BY <1>1, FS_CardinalityType
  <2> HIDE DEF Below
  <2> QED
    BY <2>2, <2>3
<1>3. ASSUME NEW q \in P, q < p
      PROVE  Rank(P, q) < Rank(P, p)
  <2>1. Below(q) \subseteq Below(p)
    <3> SUFFICES ASSUME NEW x \in P, x < q PROVE x < p
      OBVIOUS
    <3>1. x \in Nat /\ q \in Nat /\ p \in Nat
      OBVIOUS
    <3> QED
      BY <1>3, <3>1
  <2>2. q \in Below(p) /\ q \notin Below(q)
    BY <1>3
  <2>3. Cardinality(Below(q)) <= Cardinality(Below(p)) /\ Cardinality(Below(q)) # Cardinality(Below(p))
    <3> HIDE DEF Below
    <3> QED
      BY <2>1, <2>2, <1>1, FS_Subset
  <2> QED
    BY <2>3, <1>1
<1>4. Cardinality(P) \in Nat /\ Rank(P, p) \in Nat
  BY <1>1, FS_CardinalityType
<1> HIDE DEF Below
<1>5. Rank(P, p) \in 0 .. Cardinality(P) - 1
  BY <1>2, <1>4
<1> QED
  BY <1>3, <1>4, <1>5

LEMMA NthIsRanked ==
  ASSUME NEW P \in SUBSET Nat, IsFiniteSet(P)
  PROVE  /\ \A i \in 1 .. Cardinality(P) : Nth(P, i) \in P /\ Rank(P, Nth(P, i)) = i - 1
         /\ \A p \in P : Rank(P, p) + 1 \in 1 .. Cardinality(P) /\ Nth(P, Rank(P, p) + 1) = p
<1> DEFINE n == Cardinality(P)
           f == [p \in P |-> Rank(P, p)]
<1>1. n \in Nat
  BY FS_CardinalityType
<1>2. \A p, q \in P : Rank(P, p) = Rank(P, q) => p = q
  <2> SUFFICES ASSUME NEW p \in P, NEW q \in P, Rank(P, p) = Rank(P, q), p # q
               PROVE  FALSE
    OBVIOUS
  <2>1. p < q \/ q < p
    OBVIOUS
  <2>2. Rank(P, p) \in Nat /\ Rank(P, q) \in Nat
    BY <1>1, RankType
  <2> QED
    BY <2>1, <2>2, RankType
<1>3. f \in Injection(P, 0 .. n - 1)
  <2>1. f \in [P -> 0 .. n - 1]
    BY RankType
  <2> QED
    BY <2>1, <1>2 DEF Injection, IsInjective
<1>4. IsFiniteSet(0 .. n - 1) /\ Cardinality(0 .. n - 1) = n
  <2>1. /\ IsFiniteSet(0 .. n - 1)
        /\ Cardinality(0 .. n - 1) = IF 0 > n - 1 THEN 0 ELSE (n - 1) - 0 + 1
    <3>1. 0 \in Int /\ n - 1 \in Int
      BY <1>1
    <3> QED
      BY <3>1, FS_Interval
  <2> QED
    BY <1>1, <2>1
<1>5. f \in Surjection(P, 0 .. n - 1)
  BY <1>3, <1>4, FS_Injection
<1>6. ASSUME NEW i \in 1 .. n
      PROVE  Nth(P, i) \in P /\ Rank(P, Nth(P, i)) = i - 1
  <2>1. i - 1 \in 0 .. n - 1
    BY <1>1
  <2>2. PICK p \in P : f[p] = i - 1
    BY <1>5, <2>1 DEF Surjection
  <2>3. \E q \in P : Cardinality({x \in P : x < q}) = i - 1
    BY <2>2 DEF Rank
  <2> QED
    BY <2>3 DEF Nth, Rank
<1>7. ASSUME NEW p \in P
      PROVE  Rank(P, p) + 1 \in 1 .. n /\ Nth(P, Rank(P, p) + 1) = p
  <2>1. Rank(P, p) \in 0 .. n - 1
    BY RankType
  <2>2. Rank(P, p) + 1 \in 1 .. n /\ (Rank(P, p) + 1) - 1 = Rank(P, p)
    BY <1>1, <2>1
  <2> QED
    BY <2>2, <1>2, <1>6
<1> QED
  BY <1>6, <1>7

LEMMA PickType ==
  ASSUME NEW T, NEW s, NEW P \in SUBSET Nat, IsFiniteSet(P), \A p \in P : s[p] \in T
  PROVE  /\ Pick(s, P) \in Seq(T) /\ Len(Pick(s, P)) = Cardinality(P)
         /\ \A i \in 1 .. Cardinality(P) : Pick(s, P)[i] = s[Nth(P, i)]
         /\ ToSet(Pick(s, P)) = {s[p] : p \in P}
<1> DEFINE n == Cardinality(P)
<1>1. n \in Nat
  BY FS_CardinalityType
<1>2. Pick(s, P) = [i \in 1 .. n |-> s[Nth(P, i)]]
  BY DEF Pick, Nth
<1>3. Pick(s, P) \in [1 .. n -> T]
  BY <1>2, NthIsRanked
<1>4. Pick(s, P) \in Seq(T)
  BY <1>1, <1>3, SeqDef
<1>5. Len(Pick(s, P)) = n
  BY <1>1, <1>3, <1>4, LenProperties
<1>6. ToSet(Pick(s, P)) \subseteq {s[p] : p \in P}
  <2>1. ToSet(Pick(s, P)) = {s[Nth(P, i)] : i \in 1 .. n}
    BY <1>2 DEF ToSet
  <2>2. \A i \in 1 .. n : Nth(P, i) \in P
    BY NthIsRanked
  <2> QED
    BY <2>1, <2>2
<1>7. {s[p] : p \in P} \subseteq ToSet(Pick(s, P))
  <2> SUFFICES ASSUME NEW p \in P PROVE s[p] \in ToSet(Pick(s, P))
    OBVIOUS
  <2>1. Rank(P, p) + 1 \in 1 .. n /\ Nth(P, Rank(P, p) + 1) = p
    BY NthIsRanked
  <2>2. Pick(s, P)[Rank(P, p) + 1] = s[p] /\ Rank(P, p) + 1 \in DOMAIN Pick(s, P)
    BY <1>2, <2>1
  <2> QED
    BY <2>2 DEF ToSet
<1> QED
  BY <1>2, <1>4, <1>5, <1>6, <1>7

LEMMA NumberOfPick ==
  ASSUME NEW T, NEW s, NEW P \in SUBSET Nat, IsFiniteSet(P), Pick(s, P) \in Seq(T), NEW S,
         NEW Q, \A p : p \in Q <=> p \in P /\ s[p] \in S
  PROVE  Number(Pick(s, P), S) = Cardinality(Q)
<1> DEFINE H == Hits(Pick(s, P), S)
           g == [i \in H |-> Nth(P, i)]
<1>1. /\ Cardinality(P) \in Nat /\ DOMAIN Pick(s, P) = 1 .. Cardinality(P)
      /\ \A i \in 1 .. Cardinality(P) : Pick(s, P)[i] = s[Nth(P, i)]
  <2>1. Pick(s, P) = [i \in 1 .. Cardinality(P) |-> s[Nth(P, i)]]
    BY DEF Pick, Nth
  <2> QED
    BY <2>1, FS_CardinalityType
<1>2. ASSUME NEW i \in H PROVE i \in 1 .. Cardinality(P) /\ Nth(P, i) \in Q
  BY <1>1, NthIsRanked DEF Hits
<1>3. \A i, j \in H : g[i] = g[j] => i = j
  <2> SUFFICES ASSUME NEW i \in H, NEW j \in H, Nth(P, i) = Nth(P, j) PROVE i = j
    OBVIOUS
  <2>1. i - 1 = j - 1
    BY <1>2, NthIsRanked
  <2> QED
    BY <2>1, <1>1, <1>2
<1>4. \A p \in Q : \E i \in H : g[i] = p
  <2> SUFFICES ASSUME NEW p \in Q PROVE \E i \in H : Nth(P, i) = p
    OBVIOUS
  <2>1. Rank(P, p) + 1 \in 1 .. Cardinality(P) /\ Nth(P, Rank(P, p) + 1) = p
    BY NthIsRanked
  <2>2. Rank(P, p) + 1 \in H
    BY <1>1, <2>1 DEF Hits
  <2> QED
    BY <2>1, <2>2
<1>5. g \in [H -> Q]
  BY <1>2
<1>6. g \in Bijection(H, Q)
  BY <1>3, <1>4, <1>5 DEF Bijection, Injection, Surjection, IsInjective
<1>7. ExistsBijection(H, Q)
  BY <1>6 DEF ExistsBijection
<1> HIDE DEF H
<1>8. IsFiniteSet(H) /\ Number(Pick(s, P), S) = Cardinality(H)
  BY <1>1, NumberType DEF H
<1>9. Cardinality(Q) = Cardinality(H)
  BY <1>7, <1>8, FS_Bijection
<1> QED
  BY <1>8, <1>9

NoReply(h) == {i \in DOMAIN h : h[i] \notin Reply}
Replayed(h) == Pick(h, {i \in DOMAIN h : h[i] \notin Reply})

LEMMA ReplayedType ==
  ASSUME NEW T, NEW h \in Seq(T)
  PROVE  /\ NoReply(h) \in SUBSET Nat /\ IsFiniteSet(NoReply(h)) /\ NoReply(h) \subseteq 1 .. Len(h)
         /\ Replayed(h) = Pick(h, NoReply(h)) /\ Replayed(h) \in Seq(T \ Reply)
         /\ Len(Replayed(h)) = Cardinality(NoReply(h))
<1>1. DOMAIN h = 1 .. Len(h) /\ Len(h) \in Nat /\ \A i \in 1 .. Len(h) : h[i] \in T
  BY LenProperties, ElementOfSeq
<1>2. IsFiniteSet(NoReply(h)) /\ NoReply(h) \subseteq 1 .. Len(h)
  <2>1. NoReply(h) \subseteq 1 .. Len(h)
    BY <1>1 DEF NoReply
  <2>2. IsFiniteSet(1 .. Len(h))
    BY <1>1, FS_Interval
  <2> QED
    BY <2>1, <2>2, FS_Subset
<1>3. \A p \in NoReply(h) : h[p] \in T \ Reply
  BY <1>1 DEF NoReply
<1>4. NoReply(h) \in SUBSET Nat
  BY <1>1, <1>2
<1>5. Pick(h, NoReply(h)) \in Seq(T \ Reply) /\ Len(Pick(h, NoReply(h))) = Cardinality(NoReply(h))
  BY <1>2, <1>3, <1>4, PickType
<1> QED
  BY <1>2, <1>4, <1>5 DEF Replayed, NoReply

\* Of one more item, the replay shows the item, unless it is a reply.
LEMMA ReplayedAppend ==
  ASSUME NEW T, NEW h \in Seq(T), NEW x \in T
  PROVE  Replayed(Append(h, x)) = IF x \in Reply THEN Replayed(h) ELSE Append(Replayed(h), x)
<1> DEFINE n == Len(h)
           g == Append(h, x)
           P == NoReply(h)
           Q == NoReply(g)
           c == Cardinality(P)
<1>1. /\ n \in Nat /\ DOMAIN h = 1 .. n /\ g \in Seq(T) /\ DOMAIN g = 1 .. n + 1
      /\ \A i \in 1 .. n : g[i] = h[i]
      /\ g[n + 1] = x
  BY AppendProperties, LenProperties
<1>2. /\ P \in SUBSET Nat /\ IsFiniteSet(P) /\ P \subseteq 1 .. n /\ c \in Nat
      /\ Replayed(h) = Pick(h, P) /\ Replayed(h) \in Seq(T) /\ Len(Replayed(h)) = c
  <2>1. /\ P \in SUBSET Nat /\ IsFiniteSet(P) /\ P \subseteq 1 .. n
        /\ Replayed(h) = Pick(h, P) /\ Replayed(h) \in Seq(T \ Reply) /\ Len(Replayed(h)) = c
    BY ReplayedType
  <2>2. Replayed(h) \in Seq(T)
    BY <2>1, SeqMonotonic
  <2> QED
    BY <2>1, <2>2, FS_CardinalityType
<1>3. /\ Q \in SUBSET Nat /\ IsFiniteSet(Q)
      /\ Replayed(g) = Pick(g, Q) /\ Replayed(g) \in Seq(T) /\ Len(Replayed(g)) = Cardinality(Q)
  BY <1>1, ReplayedType, SeqMonotonic
<1>4. Q = IF x \in Reply THEN P ELSE P \cup {n + 1}
  <2>1. \A i \in 1 .. n + 1 : i \in Q <=> g[i] \notin Reply
    BY <1>1 DEF NoReply
  <2>2. \A i \in 1 .. n : i \in P <=> h[i] \notin Reply
    BY <1>1 DEF NoReply
  <2>3. Q \subseteq 1 .. n + 1
    BY <1>1 DEF NoReply
  <2>4. \A i \in 1 .. n : i \in Q <=> i \in P
    BY <1>1, <2>1, <2>2
  <2>5. n + 1 \in Q <=> x \notin Reply
    BY <1>1, <2>1
  <2>6. 1 .. n + 1 = (1 .. n) \cup {n + 1} /\ n + 1 \notin 1 .. n
    BY <1>1
  <2> HIDE DEF P, Q
  <2>7. CASE x \in Reply
    <3>1. Q \subseteq P
      BY <2>3, <2>4, <2>5, <2>6, <2>7
    <3>2. P \subseteq Q
      BY <1>2, <2>4
    <3> QED
      BY <2>7, <3>1, <3>2
  <2>8. CASE x \notin Reply
    BY <1>2, <2>3, <2>4, <2>5, <2>6, <2>8
  <2> QED
    BY <2>7, <2>8
<1>5. \A p \in P : Rank(Q, p) = Rank(P, p) /\ p \in Q /\ h[p] \in T /\ g[p] = h[p]
  <2> SUFFICES ASSUME NEW p \in P
               PROVE  Rank(Q, p) = Rank(P, p) /\ p \in Q /\ h[p] \in T /\ g[p] = h[p]
    OBVIOUS
  <2>1. p \in 1 .. n
    BY <1>2
  <2>2. ~ (n + 1 < p)
    BY <1>1, <2>1
  <2> HIDE DEF P, Q
  <2>3. {q \in Q : q < p} = {q \in P : q < p}
    BY <1>4, <2>2
  <2> QED
    BY <1>1, <1>4, <2>1, <2>3, ElementOfSeq DEF Rank
<1> HIDE DEF P, Q
<1>6. \A i \in 1 .. c : Nth(P, i) \in P /\ Nth(Q, i) = Nth(P, i) /\ Pick(g, Q)[i] = Pick(h, P)[i]
  <2> SUFFICES ASSUME NEW i \in 1 .. c
               PROVE  Nth(P, i) \in P /\ Nth(Q, i) = Nth(P, i) /\ Pick(g, Q)[i] = Pick(h, P)[i]
    OBVIOUS
  <2>1. Nth(P, i) \in P /\ Rank(P, Nth(P, i)) = i - 1
    BY <1>2, NthIsRanked
  <2>2. Nth(P, i) \in Q /\ Rank(Q, Nth(P, i)) = i - 1
    BY <1>5, <2>1
  <2>3. (i - 1) + 1 = i
    BY <1>2
  <2>4. i \in 1 .. Cardinality(Q) /\ Nth(Q, i) = Nth(P, i)
    BY <1>3, <2>2, <2>3, NthIsRanked
  <2>5. /\ Pick(h, P) = [j \in 1 .. Cardinality(P) |-> h[Nth(P, j)]]
        /\ Pick(g, Q) = [j \in 1 .. Cardinality(Q) |-> g[Nth(Q, j)]]
    BY DEF Pick, Nth
  <2>6. Pick(h, P)[i] = h[Nth(P, i)] /\ Pick(g, Q)[i] = g[Nth(Q, i)]
    BY <2>4, <2>5
  <2> QED
    BY <1>5, <2>1, <2>4, <2>6
<1>7. CASE x \in Reply
  <2>1. Q = P
    BY <1>4, <1>7
  <2>2. Replayed(g) = Replayed(h)
    BY <1>2, <1>3, <1>6, <2>1, SeqEqual
  <2> QED
    BY <1>7, <2>2
<1>8. CASE x \notin Reply
  <2>1. Q = P \cup {n + 1} /\ n + 1 \notin P /\ n + 1 \in Q
    BY <1>1, <1>2, <1>4, <1>8
  <2>2. Cardinality(Q) = c + 1
    BY <1>2, <2>1, FS_AddElement
  <2>3. Rank(Q, n + 1) = c
    <3>1. \A p \in P : p < n + 1
      BY <1>1, <1>2
    <3>2. {q \in Q : q < n + 1} = P
      BY <1>1, <2>1, <3>1
    <3> QED
      BY <3>2 DEF Rank
  <2>4. Nth(Q, c + 1) = n + 1 /\ c + 1 \in 1 .. Cardinality(Q)
    BY <1>2, <1>3, <2>1, <2>2, <2>3, NthIsRanked
  <2>5. Pick(g, Q)[c + 1] = x
    <3>1. Pick(g, Q) = [j \in 1 .. Cardinality(Q) |-> g[Nth(Q, j)]]
      BY DEF Pick, Nth
    <3> QED
      BY <1>1, <2>4, <3>1
  <2>6. /\ Append(Replayed(h), x) \in Seq(T) /\ Len(Append(Replayed(h), x)) = c + 1
        /\ \A i \in 1 .. c : Append(Replayed(h), x)[i] = Replayed(h)[i]
        /\ Append(Replayed(h), x)[c + 1] = x
    BY <1>2, AppendProperties
  <2>7. \A i \in 1 .. c + 1 : Replayed(g)[i] = Append(Replayed(h), x)[i]
    BY <1>2, <1>3, <1>6, <2>5, <2>6
  <2>8. Replayed(g) = Append(Replayed(h), x)
    BY <1>2, <1>3, <2>2, <2>6, <2>7, SeqEqual
  <2> QED
    BY <1>8, <2>8
<1> QED
  BY <1>7, <1>8

-----------------------------------------------------------------------------
(* The inductive invariant. *)

\* Where a run has what it delivers next, and the marks of its contexts.
ShapeInv ==
  /\ ToSet(contexts) \subseteq inFlight
  /\ input # <<>> => loop \in {"start", "deliver"}
  /\ loop \in {"none", "ended"} => contexts = <<>>
  /\ ToSet(input) \cap Context \subseteq inFlight

\* Which restarts are hand-offs, and which of them hold messages.
RightKind(r) ==
  /\ pc[r] = "unsent" <=> kind[r] = "none"
  /\ pc[r] \in {"abort", "idle", "take", "prepend", "carry", "prompt"} => kind[r] = "handoff"
  /\ hold[r] # <<>> => Underway(r) \/ kind[r] = "new"
KindInv == \A r \in Restart : RightKind(r)

\* Who will change a card that says running.
RunningInv ==
  ~late /\ status = "running" =>
    \/ loop \notin {"none", "ended"}
    \/ \E c \in Caller : pc[c] \in {"accepted", "send", "fallback", "refuse"}

\* A hand-off between its request and its reset.
Leaving(r) ==
  kind[r] = "handoff" /\ pc[r] \in {"queues", "stop", "stopped", "again", "reset", "erase"}

\* No run is on while a restart resets.
Quiet(r) == Leaving(r) \/ pc[r] \in {"take", "again", "reset", "erase"}
QuietInv == raced \/ \A r \in Restart : Quiet(r) => ~Streaming

\* What is persisted, with what is being persisted, is the history, unless a
\* restart has just emptied the transcript.
Erasing == \E r \in Restart : pc[r] = "erase"
ReplayInv ==
  raced \/ behind \/
    /\ persisting # None => loop \in {"none", "ended"}
    /\ IF Erasing
         THEN transcript = <<>> /\ persisting = None
         ELSE Replayed(history) =
                IF persisting = None THEN transcript ELSE Append(transcript, persisting)

\* The items on their way to a history, or not to get there.
Requested == IF pending = None THEN <<>> ELSE pending.carried
Lanes == ToSet(steer) \cup ToSet(followUps) \cup ToSet(input) \cup ToSet(Requested)
Afoot == Lanes \cup gone \cup UNION {ToSet(hold[r]) : r \in Restart}
Going(m) == Copies(m) \cap Afoot # {}

\* NothingForgotten, in these terms.
KeptInv ==
  raced \/ \A m \in Message : pc[m] \in {"wait", "done"} =>
     Going(m) \/ Copies(m) \cap ToSet(history) # {} \/ HadAgain(m)

\* What a session is still to have is on its way; what was carried was due.
DueInv ==
  \A m \in Message :
    /\ due[m] > seen[m] => due[m] = seen[m] + 1 /\ Going(m)
    /\ Copies(m) \cap lastCarried # {} => due[m] > 0

\* What nobody answered may go with the history that a hand-off erases.
OweInv ==
  raced \/ \A r \in Restart : Leaving(r) =>
    \A m \in Message : \A i \in DOMAIN history :
      history[i] \in Copies(m) /\ (\A j \in Answers : j < i) => Going(m) \/ HadAgain(m)

\* How many items of S are on their way to a history; Held is what the hand-off r
\* holds beside them.
Moving(S) ==
  Number(steer, S) + Number(followUps, S) + Number(input, S) + Number(Requested, S)
Held(r) == IF r \in Restart /\ kind[r] = "handoff" THEN hold[r] ELSE <<>>
Travelling(S, r) == Moving(S) + Number(Held(r), S)

\* A message that was not taken is nowhere.
FreshInv ==
  \A m \in Message : pc[m] \notin {"wait", "done"} =>
    /\ seen[m] = 0 /\ Moving(Copies(m)) = 0 /\ Number(history, Copies(m)) = 0
    /\ \A r \in Restart : Number(hold[r], Copies(m)) = 0

\* Hand-offs that do not overlap.
AloneInv == entangled \/ \A r, q \in Restart : Underway(r) /\ Underway(q) => r = q

\* The copies of a message that the next hand-off would carry.
Uncarried(m) ==
  IF \E r \in Restart : Leaving(r) THEN 0 ELSE Number(history, Copies(m) \ lastCarried)

\* CarriedOnce, with what is on its way and what is still to be carried.
Counted(m, r) ==
  /\ seen[m] + Travelling(Copies(m), r) + Uncarried(m) <= 2
  /\ seen[m] = 0 => Travelling(Copies(m), r) <= 1 /\ Number(history, Copies(m)) = 0
CountInv ==
  raced \/ entangled \/ \A m \in Message, r \in Restart \cup {None} : Counted(m, r)

\* What is on its way to a second session was carried by the last hand-off.
New(m) == Copies(m) \ lastCarried
MarkedInv ==
  raced \/ entangled \/ \A m \in Message : seen[m] > 0 =>
    /\ \A r \in Restart \cup {None} : Travelling(New(m), r) = 0
    /\ pending # None => Number(Queued, Copies(m)) = 0

-----------------------------------------------------------------------------
(* Type correctness. *)

LEMMA Kinds ==
  /\ Message \subseteq Sent
  /\ \A m \in Message : Noted(m) \in Sent \ Message /\ Copies(m) \subseteq Sent
  /\ Sent \cap Context = {} /\ Sent \cap Restart = {} /\ Sent \cap Reply = {}
  /\ Context \cap Reply = {} /\ Prompt \notin Sent \cup Context \cup Reply \cup {None}
  /\ None \notin Sent \cup Context \cup Restart \cup Request
  /\ Briefing \in Context /\ Restart \cap Message = {} /\ Prompt \notin Message
<1>1. \A m \in Message : Noted(m) \in Sent \ Message /\ Copies(m) \subseteq Sent
  BY SessionAssumption DEF Sent, Copies
<1>2. \A m \in Message : Noted(m) \notin Reply
  BY DEF Noted, Reply
<1>3. Sent \cap Reply = {}
  BY <1>2, SessionAssumption DEF Sent
<1> QED
  BY <1>1, <1>3, SessionAssumption DEF Sent

LEMMA SeqOps ==
  ASSUME NEW S
  PROVE  /\ <<>> \in Seq(S) /\ \A x \in S : <<x>> \in Seq(S)
         /\ \A s \in Seq(S), x \in S : Append(s, x) \in Seq(S)
         /\ \A s, t \in Seq(S) : s \o t \in Seq(S)
         /\ \A s \in Seq(S) : s # <<>> => Head(s) \in S /\ Tail(s) \in Seq(S)
BY AppendProperties, ConcatProperties, HeadTailProperties

LEMMA SeqKinds ==
  ASSUME TypeOK
  PROVE  /\ steer \in Seq(Sent \cup {Prompt}) /\ Queued \in Seq(Sent \cup {Prompt})
         /\ Requested \in Seq(Sent \cup {Prompt})
         /\ steer \in Seq(Item \ Reply) /\ followUps \in Seq(Item \ Reply)
         /\ contexts \in Seq(Item \ Reply) /\ Queued \in Seq(Item \ Reply)
         /\ steer \in Seq(Item) /\ followUps \in Seq(Item) /\ contexts \in Seq(Item)
         /\ Queued \in Seq(Item) /\ input \in Seq(Item) /\ history \in Seq(Item)
         /\ transcript \in Seq(Item) /\ Requested \in Seq(Item)
         /\ \A r \in Restart : hold[r] \in Seq(Item) /\ hold[r] \in Seq(Sent \cup {Prompt})
<1>1. /\ Message \subseteq Sent \cup {Prompt} /\ Sent \cup {Prompt} \subseteq Item \ Reply
      /\ Context \subseteq Item \ Reply /\ Item \ Reply \subseteq Item
  BY Kinds DEF Item
<1>2. /\ steer \in Seq(Sent \cup {Prompt}) /\ followUps \in Seq(Sent \cup {Prompt})
      /\ \A r \in Restart : hold[r] \in Seq(Sent \cup {Prompt})
  BY <1>1, SeqMonotonic DEF TypeOK, AgentTypes, SessionTypes, CallTypes, MonitorTypes
<1>3. Queued \in Seq(Sent \cup {Prompt})
  BY <1>2, ConcatProperties DEF Queued
<1>4. Requested \in Seq(Sent \cup {Prompt})
  <2>1. CASE pending = None
    BY <2>1, EmptySeq DEF Requested
  <2>2. CASE pending # None
    BY <2>2 DEF Requested, TypeOK, AgentTypes, SessionTypes, CallTypes, MonitorTypes, Request
  <2> QED
    BY <2>1, <2>2
<1>5. /\ steer \in Seq(Item \ Reply) /\ followUps \in Seq(Item \ Reply) /\ Queued \in Seq(Item \ Reply)
      /\ Requested \in Seq(Item \ Reply) /\ \A r \in Restart : hold[r] \in Seq(Item \ Reply)
  BY <1>1, <1>2, <1>3, <1>4, SeqMonotonic
<1>6. contexts \in Seq(Item \ Reply) /\ input \in Seq(Item \ Reply) /\ transcript \in Seq(Item \ Reply)
  BY <1>1, SeqMonotonic DEF TypeOK, AgentTypes, SessionTypes, CallTypes, MonitorTypes
<1>7. history \in Seq(Item)
  BY DEF TypeOK, AgentTypes, SessionTypes, CallTypes, MonitorTypes
<1>8. \A s \in Seq(Item \ Reply) : s \in Seq(Item)
  BY <1>1, SeqMonotonic
<1> QED
  BY <1>2, <1>3, <1>4, <1>5, <1>6, <1>7, <1>8

Earlier == {i \in Unanswered : history[i] \notin Message \ pending.before}
NotedAt == [i \in DOMAIN history |-> IF history[i] \in Message THEN Noted(history[i]) ELSE history[i]]

LEMMA CarriedParts ==
  ASSUME TypeOK, pending # None
  PROVE  /\ Unanswered \in SUBSET Nat /\ IsFiniteSet(Unanswered) /\ Unanswered \subseteq DOMAIN history
         /\ Earlier \in SUBSET Nat /\ IsFiniteSet(Earlier)
         /\ Unanswered \ Earlier \in SUBSET Nat /\ IsFiniteSet(Unanswered \ Earlier)
         /\ \A i \in Unanswered : history[i] \in Sent \cup {Prompt} /\ NotedAt[i] \in Sent \cup {Prompt}
         /\ pending.carried \in Seq(Sent \cup {Prompt})
         /\ Pick(NotedAt, Earlier) \in Seq(Sent \cup {Prompt})
         /\ Pick(history, Unanswered \ Earlier) \in Seq(Sent \cup {Prompt})
         /\ Carried = Pick(NotedAt, Earlier) \o pending.carried \o Pick(history, Unanswered \ Earlier)
         /\ Carried \in Seq(Sent \cup {Prompt})
<1> DEFINE S == Sent \cup {Prompt}
<1>1. DOMAIN history = 1 .. Len(history) /\ Len(history) \in Nat
  BY LenProperties DEF TypeOK, AgentTypes, SessionTypes, CallTypes, MonitorTypes
<1>2. Unanswered \subseteq DOMAIN history /\ \A i \in Unanswered : history[i] \in S
  BY DEF Unanswered
<1>3. IsFiniteSet(1 .. Len(history))
  BY <1>1, FS_Interval
<1>4. Unanswered \in SUBSET Nat /\ IsFiniteSet(Unanswered)
  BY <1>1, <1>2, <1>3, FS_Subset
<1>5. Earlier \subseteq Unanswered
  BY DEF Earlier
<1>6. /\ Earlier \in SUBSET Nat /\ IsFiniteSet(Earlier)
      /\ Unanswered \ Earlier \in SUBSET Nat /\ IsFiniteSet(Unanswered \ Earlier)
  BY <1>4, <1>5, FS_Subset
<1>7. \A i \in Unanswered : NotedAt[i] \in S
  BY <1>2, Kinds DEF NotedAt
<1>8. pending.carried \in Seq(S)
  BY DEF TypeOK, AgentTypes, SessionTypes, CallTypes, MonitorTypes, Request
<1>9. Pick(NotedAt, Earlier) \in Seq(S)
  BY <1>5, <1>6, <1>7, PickType
<1>10. Pick(history, Unanswered \ Earlier) \in Seq(S)
  BY <1>2, <1>6, PickType
<1>11. Carried = Pick(NotedAt, Earlier) \o pending.carried \o Pick(history, Unanswered \ Earlier)
  BY DEF Carried, Earlier, NotedAt
<1>12. Carried \in Seq(S)
  <2>1. Pick(NotedAt, Earlier) \o pending.carried \in Seq(S)
    BY <1>8, <1>9, ConcatProperties
  <2> QED
    BY <1>10, <1>11, <2>1, ConcatProperties
<1> QED
  BY <1>2, <1>4, <1>6, <1>7, <1>8, <1>9, <1>10, <1>11, <1>12

LEMMA NotesAreCopies ==
  ASSUME TypeOK, NEW m \in Message, NEW i \in DOMAIN history
  PROVE  history[i] \in Copies(m) <=> NotedAt[i] \in Copies(m)
<1>1. NotedAt[i] = IF history[i] \in Message THEN Noted(history[i]) ELSE history[i]
  BY DEF NotedAt
<1>2. \A k \in Message : Noted(k) \in {m, Noted(m)} => k = m
  BY Kinds DEF Noted
<1>3. Noted(m) \notin Message
  BY Kinds
<1> QED
  BY <1>1, <1>2, <1>3 DEF Copies

\* What a hand-off carries is what was queued at its request, and every
\* message that nobody answered, unless the last one carried it.
LEMMA CarriedIs ==
  ASSUME TypeOK, pending # None
  PROVE  /\ ToSet(pending.carried) \subseteq ToSet(Carried)
         /\ \A m \in Message, i \in Unanswered :
              history[i] \in Copies(m) => Copies(m) \cap ToSet(Carried) # {}
         /\ \A m \in Message :
              Copies(m) \cap (ToSet(pending.carried) \cup ToSet(history)) = {}
                => Copies(m) \cap ToSet(Carried) = {}
<1> DEFINE S == Sent \cup {Prompt}
           A == Pick(NotedAt, Earlier)
           C == Pick(history, Unanswered \ Earlier)
<1>1. /\ Unanswered \subseteq DOMAIN history /\ Earlier \in SUBSET Nat /\ IsFiniteSet(Earlier)
      /\ Unanswered \ Earlier \in SUBSET Nat /\ IsFiniteSet(Unanswered \ Earlier)
      /\ \A i \in Unanswered : history[i] \in S /\ NotedAt[i] \in S
      /\ pending.carried \in Seq(S) /\ A \in Seq(S) /\ C \in Seq(S)
      /\ Carried = A \o pending.carried \o C
  BY CarriedParts
<1>2. Earlier \subseteq Unanswered
  BY DEF Earlier
<1>3. ToSet(A) = {NotedAt[i] : i \in Earlier} /\ ToSet(C) = {history[i] : i \in Unanswered \ Earlier}
  <2>1. \A i \in Earlier : NotedAt[i] \in S
    BY <1>1, <1>2
  <2>2. \A i \in Unanswered \ Earlier : history[i] \in S
    BY <1>1
  <2>3. ToSet(A) = {NotedAt[i] : i \in Earlier}
    BY <1>1, <2>1, PickType
  <2>4. ToSet(C) = {history[i] : i \in Unanswered \ Earlier}
    BY <1>1, <2>2, PickType
  <2> QED
    BY <2>3, <2>4
<1>4. ToSet(Carried) = ToSet(A) \cup ToSet(pending.carried) \cup ToSet(C)
  <2>1. ToSet(A \o pending.carried) = ToSet(A) \cup ToSet(pending.carried)
    BY <1>1, SetOfConcat
  <2>2. A \o pending.carried \in Seq(S)
    BY <1>1, ConcatProperties
  <2>3. ToSet((A \o pending.carried) \o C) = ToSet(A \o pending.carried) \cup ToSet(C)
    <3> DEFINE B == A \o pending.carried
    <3>1. B \in Seq(S) /\ C \in Seq(S)
      BY <1>1, <2>2
    <3> HIDE DEF B, A, C, S
    <3>2. ToSet(B \o C) = ToSet(B) \cup ToSet(C)
      BY <3>1, SetOfConcat
    <3> QED
      BY <3>2 DEF B
  <2> QED
    BY <1>1, <2>1, <2>3
<1>5. \A m \in Message, i \in Unanswered : history[i] \in Copies(m) <=> NotedAt[i] \in Copies(m)
  BY <1>1, NotesAreCopies
<1> HIDE DEF A, C
<1>6. \A m \in Message, i \in Unanswered :
        history[i] \in Copies(m) => Copies(m) \cap ToSet(Carried) # {}
  BY <1>3, <1>4, <1>5
<1>7. ASSUME NEW m \in Message, Copies(m) \cap (ToSet(pending.carried) \cup ToSet(history)) = {}
      PROVE  Copies(m) \cap ToSet(Carried) = {}
  <2>1. \A i \in Unanswered : history[i] \notin Copies(m)
    BY <1>1, <1>7 DEF ToSet
  <2> QED
    BY <1>2, <1>3, <1>4, <1>5, <1>7, <2>1
<1> QED
  BY <1>4, <1>6, <1>7

LEMMA Places ==
  /\ "unsent" \in Place /\ "steer" \in Place /\ "followUp" \in Place /\ "inject" \in Place
  /\ "accepted" \in Place /\ "send" \in Place /\ "fallback" \in Place /\ "refuse" \in Place
  /\ "wait" \in Place /\ "done" \in Place /\ "refused" \in Place /\ "dropped" \in Place
  /\ "abort" \in Place /\ "idle" \in Place /\ "take" \in Place /\ "queues" \in Place
  /\ "stop" \in Place /\ "stopped" \in Place /\ "again" \in Place /\ "reset" \in Place
  /\ "erase" \in Place /\ "prepend" \in Place /\ "carry" \in Place /\ "prompt" \in Place
BY DEF Place

LEMMA InitTypes == Init => TypeOK
<1> SUFFICES ASSUME Init PROVE TypeOK
  OBVIOUS
<1>1. /\ input \in Seq(Item \ Reply) /\ history \in Seq(Item) /\ transcript \in Seq(Item \ Reply)
      /\ steer \in Seq(Message) /\ followUps \in Seq(Sent \cup {Prompt}) /\ contexts \in Seq(Context)
      /\ hold \in [Restart -> Seq(Sent \cup {Prompt})]
  BY SeqOps DEF Init
<1>20. AgentTypes
  BY <1>1 DEF Init, TypeOK, AgentTypes
<1>21. SessionTypes
  BY <1>1 DEF Init, TypeOK, SessionTypes
<1>22. CallTypes
  BY <1>1, Places DEF Init, TypeOK, CallTypes
<1>23. MonitorTypes
  BY <1>1 DEF Init, TypeOK, MonitorTypes
<1> QED
  BY <1>20, <1>21, <1>22, <1>23 DEF TypeOK

LEMMA FollowUpType ==
  ASSUME TypeOK, NEW ms \in Seq(Sent \cup {Prompt}), FollowUp(ms)
  PROVE  followUps' \in Seq(Sent \cup {Prompt}) /\ late' \in BOOLEAN
BY SeqOps DEF TypeOK, AgentTypes, SessionTypes, CallTypes, MonitorTypes, FollowUp

LEMMA TextType ==
  ASSUME NEW c \in Caller
  PROVE  /\ Text(c) \in Sent \cup {Prompt} /\ <<Text(c)>> \in Seq(Sent \cup {Prompt})
         /\ <<Text(c)>> \in Seq(Item \ Reply)
         /\ c \in Restart => Text(c) = Prompt
         /\ c \in Message => Text(c) = c
<1>1. Text(c) \in Sent \cup {Prompt} /\ Sent \cup {Prompt} \subseteq Item \ Reply
  BY Kinds DEF Text, Caller, Item
<1> QED
  BY <1>1, Kinds, SeqOps DEF Text, Caller

LEMMA BeginRunType ==
  ASSUME TypeOK, NEW ms \in Seq(Item \ Reply), BeginRun(ms)
  PROVE  loop' = "start" /\ cancelled' = FALSE /\ input' \in Seq(Item \ Reply)
         /\ raced' \in BOOLEAN /\ behind' \in BOOLEAN
BY DEF TypeOK, AgentTypes, SessionTypes, CallTypes, MonitorTypes, BeginRun

LEMMA AgentKeepsTypes ==
  ASSUME TypeOK, Agent
  PROVE  TypeOK'
<1>1. CASE RunStarts
  <2>20. AgentTypes'
    BY <1>1 DEF RunStarts, contextVars, bridgeVars, callVars, monitors, TypeOK, AgentTypes
  <2>21. SessionTypes'
    BY <1>1 DEF RunStarts, contextVars, bridgeVars, callVars, monitors, TypeOK, SessionTypes
  <2>22. CallTypes'
    BY <1>1, Places DEF RunStarts, contextVars, bridgeVars, callVars, monitors, TypeOK, CallTypes
  <2>23. MonitorTypes'
    BY <1>1 DEF RunStarts, contextVars, bridgeVars, callVars, monitors, TypeOK, MonitorTypes
  <2> QED
    BY <2>20, <2>21, <2>22, <2>23 DEF TypeOK
<1>2. CASE Deliver
  <2>1. Head(input) \in Item \ Reply /\ Tail(input) \in Seq(Item \ Reply)
    BY <1>2, SeqOps DEF Deliver, TypeOK, AgentTypes, SessionTypes, CallTypes, MonitorTypes
  <2>2. history' \in Seq(Item) /\ transcript' \in Seq(Item \ Reply) /\ input' \in Seq(Item \ Reply)
    BY <1>2, <2>1, SeqOps DEF Deliver, TypeOK, AgentTypes, SessionTypes, CallTypes, MonitorTypes
  <2>3. seen' \in [Message -> Nat]
    <3>1. seen' = [m \in Message |-> IF Head(input) \in Copies(m) THEN seen[m] + 1 ELSE seen[m]]
      BY <1>2 DEF Deliver
    <3>2. \A m \in Message : seen[m] \in Nat
      BY DEF TypeOK, MonitorTypes
    <3> QED
      BY <3>1, <3>2
  <2>20. AgentTypes'
    BY <1>2, <2>2, <2>3 DEF Deliver, cardVars, bridgeVars, callVars, TypeOK, AgentTypes
  <2>21. SessionTypes'
    BY <1>2, <2>2, <2>3 DEF Deliver, cardVars, bridgeVars, callVars, TypeOK, SessionTypes
  <2>22. CallTypes'
    BY <1>2, <2>2, <2>3, Places DEF Deliver, cardVars, bridgeVars, callVars, TypeOK, CallTypes
  <2>23. MonitorTypes'
    BY <1>2, <2>2, <2>3 DEF Deliver, cardVars, bridgeVars, callVars, TypeOK, MonitorTypes
  <2> QED
    BY <2>20, <2>21, <2>22, <2>23 DEF TypeOK
<1>3. CASE ModelReplies
  <2>1. PICK reply \in {"answer", "tool", "failed", "aborted"} :
          history' = Append(history, [reply |-> reply])
    BY <1>3 DEF ModelReplies
  <2>2. [reply |-> reply] \in Item
    BY DEF Item, Reply
  <2>3. history' \in Seq(Item)
    BY <2>1, <2>2, SeqOps DEF TypeOK, AgentTypes, SessionTypes, CallTypes, MonitorTypes
  <2>4. err' \in {"", "aborted", "error"} /\ loop' \in {"tools", "settle"}
    BY <1>3 DEF ModelReplies
  <2>5. replies' \in Nat
    <3>1. replies' = replies + 1 /\ replies \in Nat
      BY <1>3 DEF ModelReplies, TypeOK, MonitorTypes
    <3> QED
      BY <3>1
  <2>20. AgentTypes'
    BY <1>3, <2>3, <2>4, <2>5 DEF ModelReplies, contextVars, bridgeVars, callVars, TypeOK, AgentTypes
  <2>21. SessionTypes'
    BY <1>3, <2>3, <2>4, <2>5 DEF ModelReplies, contextVars, bridgeVars, callVars, TypeOK, SessionTypes
  <2>22. CallTypes'
    BY <1>3, <2>3, <2>4, Places DEF ModelReplies, contextVars, bridgeVars, callVars, TypeOK, CallTypes
  <2>23. MonitorTypes'
    BY <1>3, <2>3, <2>4, <2>5 DEF ModelReplies, contextVars, bridgeVars, callVars, TypeOK, MonitorTypes
  <2> QED
    BY <2>20, <2>21, <2>22, <2>23 DEF TypeOK
<1>4. CASE ToolsEnd
  <2>1. contexts \o steer \in Seq(Item \ Reply)
    BY SeqKinds, SeqOps
  <2>2. input' \in Seq(Item \ Reply) /\ contexts' \in Seq(Context) /\ steer' \in Seq(Message)
        /\ loop' \in {"settle", "request", "deliver"}
    BY <1>4, <2>1, SeqOps DEF ToolsEnd, TypeOK, AgentTypes, SessionTypes, CallTypes, MonitorTypes
  <2>20. AgentTypes'
    BY <1>4, <2>2 DEF ToolsEnd, cardVars, contextVars, bridgeVars, callVars, monitors, TypeOK, AgentTypes
  <2>21. SessionTypes'
    BY <1>4, <2>2 DEF ToolsEnd, cardVars, contextVars, bridgeVars, callVars, monitors, TypeOK, SessionTypes
  <2>22. CallTypes'
    BY <1>4, <2>2, Places DEF ToolsEnd, cardVars, contextVars, bridgeVars, callVars, monitors, TypeOK, CallTypes
  <2>23. MonitorTypes'
    BY <1>4, <2>2 DEF ToolsEnd, cardVars, contextVars, bridgeVars, callVars, monitors, TypeOK, MonitorTypes
  <2> QED
    BY <2>20, <2>21, <2>22, <2>23 DEF TypeOK
<1>5. CASE Settle
  <2>1. input' \in Seq(Item \ Reply)
    BY <1>5, SeqKinds DEF Settle, Queued
  <2>2. steer' \in Seq(Message) /\ followUps' \in Seq(Sent \cup {Prompt}) /\ loop' \in {"end", "deliver"}
    BY <1>5, SeqOps DEF Settle
  <2>20. AgentTypes'
    BY <1>5, <2>1, <2>2 DEF Settle, cardVars, contextVars, bridgeVars, callVars, monitors, TypeOK, AgentTypes
  <2>21. SessionTypes'
    BY <1>5, <2>1, <2>2 DEF Settle, cardVars, contextVars, bridgeVars, callVars, monitors, TypeOK, SessionTypes
  <2>22. CallTypes'
    BY <1>5, <2>1, <2>2, Places DEF Settle, cardVars, contextVars, bridgeVars, callVars, monitors, TypeOK, CallTypes
  <2>23. MonitorTypes'
    BY <1>5, <2>1, <2>2 DEF Settle, cardVars, contextVars, bridgeVars, callVars, monitors, TypeOK, MonitorTypes
  <2> QED
    BY <2>20, <2>21, <2>22, <2>23 DEF TypeOK
<1>6. CASE RunEnds
  <2>1. history' \in Seq(Item) /\ transcript' \in Seq(Item \ Reply) /\ contexts' \in Seq(Context)
    BY <1>6, SeqKinds, SeqOps DEF RunEnds, TypeOK, AgentTypes, SessionTypes, CallTypes, MonitorTypes
  <2>20. AgentTypes'
    BY <1>6, <2>1 DEF RunEnds, bridgeVars, callVars, monitors, TypeOK, AgentTypes
  <2>21. SessionTypes'
    BY <1>6, <2>1 DEF RunEnds, bridgeVars, callVars, monitors, TypeOK, SessionTypes
  <2>22. CallTypes'
    BY <1>6, <2>1, Places DEF RunEnds, bridgeVars, callVars, monitors, TypeOK, CallTypes
  <2>23. MonitorTypes'
    BY <1>6, <2>1 DEF RunEnds, bridgeVars, callVars, monitors, TypeOK, MonitorTypes
  <2> QED
    BY <2>20, <2>21, <2>22, <2>23 DEF TypeOK
<1>7. CASE AgentIdles
  <2>20. AgentTypes'
    BY <1>7 DEF AgentIdles, cardVars, contextVars, bridgeVars, callVars, monitors, TypeOK, AgentTypes
  <2>21. SessionTypes'
    BY <1>7 DEF AgentIdles, cardVars, contextVars, bridgeVars, callVars, monitors, TypeOK, SessionTypes
  <2>22. CallTypes'
    BY <1>7, Places DEF AgentIdles, cardVars, contextVars, bridgeVars, callVars, monitors, TypeOK, CallTypes
  <2>23. MonitorTypes'
    BY <1>7 DEF AgentIdles, cardVars, contextVars, bridgeVars, callVars, monitors, TypeOK, MonitorTypes
  <2> QED
    BY <2>20, <2>21, <2>22, <2>23 DEF TypeOK
<1> QED
  BY <1>1, <1>2, <1>3, <1>4, <1>5, <1>6, <1>7 DEF Agent

LEMMA PromptTypes ==
  ASSUME TypeOK, NEW c \in Caller, PromptStep(c)
  PROVE  TypeOK'
<1>1. CASE CheckStreaming(c)
  <2>1. followUps' \in Seq(Sent \cup {Prompt}) /\ late' \in BOOLEAN
    BY <1>1, FollowUpType, TextType DEF CheckStreaming, TypeOK, AgentTypes, SessionTypes, CallTypes, MonitorTypes
  <2>20. AgentTypes'
    BY <1>1, <2>1 DEF CheckStreaming, Goto, cardVars, contextVars, bridgeVars, TypeOK, AgentTypes
  <2>21. SessionTypes'
    BY <1>1, <2>1 DEF CheckStreaming, Goto, cardVars, contextVars, bridgeVars, TypeOK, SessionTypes
  <2>22. CallTypes'
    BY <1>1, <2>1, Places DEF CheckStreaming, Goto, cardVars, contextVars, bridgeVars, TypeOK, CallTypes
  <2>23. MonitorTypes'
    BY <1>1, <2>1 DEF CheckStreaming, Goto, cardVars, contextVars, bridgeVars, TypeOK, MonitorTypes
  <2> QED
    BY <2>20, <2>21, <2>22, <2>23 DEF TypeOK
<1>2. CASE Send(c)
  <2>1. /\ loop' = "start" \/ loop' = loop
        /\ cancelled' \in BOOLEAN /\ input' \in Seq(Item \ Reply) /\ raced' \in BOOLEAN /\ behind' \in BOOLEAN
    BY <1>2, BeginRunType, TextType DEF Send, TypeOK, AgentTypes, SessionTypes, CallTypes, MonitorTypes
  <2>20. AgentTypes'
    BY <1>2, <2>1 DEF Send, Goto, cardVars, contextVars, bridgeVars, TypeOK, AgentTypes
  <2>21. SessionTypes'
    BY <1>2, <2>1 DEF Send, Goto, cardVars, contextVars, bridgeVars, TypeOK, SessionTypes
  <2>22. CallTypes'
    BY <1>2, <2>1, Places DEF Send, Goto, cardVars, contextVars, bridgeVars, TypeOK, CallTypes
  <2>23. MonitorTypes'
    BY <1>2, <2>1 DEF Send, Goto, cardVars, contextVars, bridgeVars, TypeOK, MonitorTypes
  <2> QED
    BY <2>20, <2>21, <2>22, <2>23 DEF TypeOK
<1>3. CASE Fallback(c)
  <2>1. followUps' \in Seq(Sent \cup {Prompt}) /\ late' \in BOOLEAN
    BY <1>3, FollowUpType, TextType DEF Fallback, TypeOK, AgentTypes, SessionTypes, CallTypes, MonitorTypes
  <2>20. AgentTypes'
    BY <1>3, <2>1 DEF Fallback, Goto, cardVars, contextVars, bridgeVars, TypeOK, AgentTypes
  <2>21. SessionTypes'
    BY <1>3, <2>1 DEF Fallback, Goto, cardVars, contextVars, bridgeVars, TypeOK, SessionTypes
  <2>22. CallTypes'
    BY <1>3, <2>1, Places DEF Fallback, Goto, cardVars, contextVars, bridgeVars, TypeOK, CallTypes
  <2>23. MonitorTypes'
    BY <1>3, <2>1 DEF Fallback, Goto, cardVars, contextVars, bridgeVars, TypeOK, MonitorTypes
  <2> QED
    BY <2>20, <2>21, <2>22, <2>23 DEF TypeOK
<1>4. CASE Refuse(c)
  <2>20. AgentTypes'
    BY <1>4 DEF Refuse, Goto, agentVars, contextVars, bridgeVars, monitors, TypeOK, AgentTypes
  <2>21. SessionTypes'
    BY <1>4 DEF Refuse, Goto, agentVars, contextVars, bridgeVars, monitors, TypeOK, SessionTypes
  <2>22. CallTypes'
    BY <1>4, Places DEF Refuse, Goto, agentVars, contextVars, bridgeVars, monitors, TypeOK, CallTypes
  <2>23. MonitorTypes'
    BY <1>4 DEF Refuse, Goto, agentVars, contextVars, bridgeVars, monitors, TypeOK, MonitorTypes
  <2> QED
    BY <2>20, <2>21, <2>22, <2>23 DEF TypeOK
<1>5. CASE WaitForIdle(c)
  <2>20. AgentTypes'
    BY <1>5 DEF WaitForIdle, Goto, agentVars, cardVars, contextVars, bridgeVars, monitors, TypeOK, AgentTypes
  <2>21. SessionTypes'
    BY <1>5 DEF WaitForIdle, Goto, agentVars, cardVars, contextVars, bridgeVars, monitors, TypeOK, SessionTypes
  <2>22. CallTypes'
    BY <1>5, Places DEF WaitForIdle, Goto, agentVars, cardVars, contextVars, bridgeVars, monitors, TypeOK, CallTypes
  <2>23. MonitorTypes'
    BY <1>5 DEF WaitForIdle, Goto, agentVars, cardVars, contextVars, bridgeVars, monitors, TypeOK, MonitorTypes
  <2> QED
    BY <2>20, <2>21, <2>22, <2>23 DEF TypeOK
<1> QED
  BY <1>1, <1>2, <1>3, <1>4, <1>5 DEF PromptStep

LEMMA MessageTypes ==
  ASSUME TypeOK, NEW m \in Message,
         Submit(m) \/ SendUserMessage(m) \/ Queue(m) \/ Inject(m) \/ InjectedRun(m)
  PROVE  TypeOK'
<1> m \in Caller /\ m \in Sent \cup {Prompt} /\ m \in Item \ Reply
  BY Kinds DEF Caller, Item
<1>1. CASE Submit(m)
  <2>20. AgentTypes'
    BY <1>1 DEF Submit, Accept, Goto, agentVars, contextVars, bridgeVars, monitors, TypeOK, AgentTypes
  <2>21. SessionTypes'
    BY <1>1 DEF Submit, Accept, Goto, agentVars, contextVars, bridgeVars, monitors, TypeOK, SessionTypes
  <2>22. CallTypes'
    BY <1>1, Places DEF Submit, Accept, Goto, agentVars, contextVars, bridgeVars, monitors, TypeOK, CallTypes
  <2>23. MonitorTypes'
    BY <1>1 DEF Submit, Accept, Goto, agentVars, contextVars, bridgeVars, monitors, TypeOK, MonitorTypes
  <2> QED
    BY <2>20, <2>21, <2>22, <2>23 DEF TypeOK
<1>2. CASE SendUserMessage(m)
  <2>20. AgentTypes'
    BY <1>2 DEF SendUserMessage, Goto, agentVars, cardVars, contextVars, bridgeVars, monitors, TypeOK, AgentTypes
  <2>21. SessionTypes'
    BY <1>2 DEF SendUserMessage, Goto, agentVars, cardVars, contextVars, bridgeVars, monitors, TypeOK, SessionTypes
  <2>22. CallTypes'
    BY <1>2, Places DEF SendUserMessage, Goto, agentVars, cardVars, contextVars, bridgeVars, monitors, TypeOK, CallTypes
  <2>23. MonitorTypes'
    BY <1>2 DEF SendUserMessage, Goto, agentVars, cardVars, contextVars, bridgeVars, monitors, TypeOK, MonitorTypes
  <2> QED
    BY <2>20, <2>21, <2>22, <2>23 DEF TypeOK
<1>3. CASE Queue(m)
  <2>1. steer' \in Seq(Message) /\ followUps' \in Seq(Sent \cup {Prompt}) /\ late' \in BOOLEAN
    <3>1. CASE At(m, "steer")
      <4>1. steer' = Append(steer, m) /\ UNCHANGED followUps /\ late' = (late \/ loop \in {"end", "ended"})
        BY <1>3, <3>1 DEF Queue, At
      <4>2. steer \in Seq(Message) /\ followUps \in Seq(Sent \cup {Prompt}) /\ late \in BOOLEAN
        BY DEF TypeOK, AgentTypes, MonitorTypes
      <4> QED
        BY <4>1, <4>2, SeqOps
    <3>2. CASE At(m, "followUp")
      <4>1. FollowUp(<<m>>) /\ UNCHANGED steer /\ <<m>> \in Seq(Sent \cup {Prompt})
        BY <1>3, <3>2, SeqOps DEF Queue, At
      <4> QED
        BY <4>1, FollowUpType DEF TypeOK, AgentTypes
    <3> QED
      BY <1>3, <3>1, <3>2 DEF Queue
  <2>20. AgentTypes'
    BY <1>3, <2>1 DEF Queue, Goto, cardVars, contextVars, bridgeVars, TypeOK, AgentTypes
  <2>21. SessionTypes'
    BY <1>3, <2>1 DEF Queue, Goto, cardVars, contextVars, bridgeVars, TypeOK, SessionTypes
  <2>22. CallTypes'
    BY <1>3, <2>1, Places DEF Queue, Goto, cardVars, contextVars, bridgeVars, TypeOK, CallTypes
  <2>23. MonitorTypes'
    BY <1>3, <2>1 DEF Queue, Goto, cardVars, contextVars, bridgeVars, TypeOK, MonitorTypes
  <2> QED
    BY <2>20, <2>21, <2>22, <2>23 DEF TypeOK
<1>4. CASE Inject(m)
  <2>20. AgentTypes'
    BY <1>4 DEF Inject, Goto, agentVars, cardVars, contextVars, bridgeVars, monitors, TypeOK, AgentTypes
  <2>21. SessionTypes'
    BY <1>4 DEF Inject, Goto, agentVars, cardVars, contextVars, bridgeVars, monitors, TypeOK, SessionTypes
  <2>22. CallTypes'
    BY <1>4, Places DEF Inject, Goto, agentVars, cardVars, contextVars, bridgeVars, monitors, TypeOK, CallTypes
  <2>23. MonitorTypes'
    BY <1>4 DEF Inject, Goto, agentVars, cardVars, contextVars, bridgeVars, monitors, TypeOK, MonitorTypes
  <2> QED
    BY <2>20, <2>21, <2>22, <2>23 DEF TypeOK
<1>5. CASE InjectedRun(m)
  <2>1. /\ loop' = "start" \/ loop' = loop
        /\ cancelled' \in BOOLEAN /\ input' \in Seq(Item \ Reply) /\ raced' \in BOOLEAN /\ behind' \in BOOLEAN
    BY <1>5, BeginRunType, SeqOps DEF InjectedRun, TypeOK, AgentTypes, SessionTypes, CallTypes, MonitorTypes
  <2>20. AgentTypes'
    BY <1>5, <2>1 DEF InjectedRun, Goto, cardVars, contextVars, bridgeVars, TypeOK, AgentTypes
  <2>21. SessionTypes'
    BY <1>5, <2>1 DEF InjectedRun, Goto, cardVars, contextVars, bridgeVars, TypeOK, SessionTypes
  <2>22. CallTypes'
    BY <1>5, <2>1, Places DEF InjectedRun, Goto, cardVars, contextVars, bridgeVars, TypeOK, CallTypes
  <2>23. MonitorTypes'
    BY <1>5, <2>1 DEF InjectedRun, Goto, cardVars, contextVars, bridgeVars, TypeOK, MonitorTypes
  <2> QED
    BY <2>20, <2>21, <2>22, <2>23 DEF TypeOK
<1> QED
  BY <1>1, <1>2, <1>3, <1>4, <1>5

LEMMA PrependType ==
  ASSUME TypeOK, NEW c \in Context, Prepend(c)
  PROVE  /\ contexts' \in Seq(Context) /\ history' \in Seq(Item) /\ inFlight' \subseteq Context
         /\ persisting' \in Context \cup {None} /\ behind' \in BOOLEAN
<1>1. c \in Item
  BY DEF Item
<1>2. Append(contexts, c) \in Seq(Context) /\ Append(history, c) \in Seq(Item)
  BY <1>1, SeqOps DEF TypeOK, AgentTypes
<1>3. contexts' \in Seq(Context) /\ history' \in Seq(Item)
  BY <1>2 DEF Prepend, TypeOK, AgentTypes
<1>4. inFlight' \subseteq Context /\ persisting' \in Context \cup {None} /\ behind' \in BOOLEAN
  BY DEF Prepend, TypeOK, SessionTypes, MonitorTypes
<1> QED
  BY <1>3, <1>4

LEMMA OtherTypes ==
  ASSUME TypeOK, Dequeue \/ Escape \/ SetModel \/ Persist \/ \E c \in Context : PrependContext(c)
  PROVE  TypeOK'
<1>1. CASE Dequeue
  <2>1. ToSet(followUps) \subseteq Item /\ <<>> \in Seq(Sent \cup {Prompt})
    BY SeqKinds, SetOfType, SeqOps
  <2>20. AgentTypes'
    BY <1>1, <2>1 DEF Dequeue, cardVars, contextVars, bridgeVars, callVars, TypeOK, AgentTypes
  <2>21. SessionTypes'
    BY <1>1, <2>1 DEF Dequeue, cardVars, contextVars, bridgeVars, callVars, TypeOK, SessionTypes
  <2>22. CallTypes'
    BY <1>1, <2>1, Places DEF Dequeue, cardVars, contextVars, bridgeVars, callVars, TypeOK, CallTypes
  <2>23. MonitorTypes'
    BY <1>1, <2>1 DEF Dequeue, cardVars, contextVars, bridgeVars, callVars, TypeOK, MonitorTypes
  <2> QED
    BY <2>20, <2>21, <2>22, <2>23 DEF TypeOK
<1>2. CASE Escape
  <2>20. AgentTypes'
    BY <1>2 DEF Escape, AbortRun, contextVars, bridgeVars, callVars, monitors, TypeOK, AgentTypes
  <2>21. SessionTypes'
    BY <1>2 DEF Escape, AbortRun, contextVars, bridgeVars, callVars, monitors, TypeOK, SessionTypes
  <2>22. CallTypes'
    BY <1>2, Places DEF Escape, AbortRun, contextVars, bridgeVars, callVars, monitors, TypeOK, CallTypes
  <2>23. MonitorTypes'
    BY <1>2 DEF Escape, AbortRun, contextVars, bridgeVars, callVars, monitors, TypeOK, MonitorTypes
  <2> QED
    BY <2>20, <2>21, <2>22, <2>23 DEF TypeOK
<1>3. CASE SetModel
  <2>20. AgentTypes'
    BY <1>3 DEF SetModel, contextVars, bridgeVars, callVars, monitors, TypeOK, AgentTypes
  <2>21. SessionTypes'
    BY <1>3 DEF SetModel, contextVars, bridgeVars, callVars, monitors, TypeOK, SessionTypes
  <2>22. CallTypes'
    BY <1>3, Places DEF SetModel, contextVars, bridgeVars, callVars, monitors, TypeOK, CallTypes
  <2>23. MonitorTypes'
    BY <1>3 DEF SetModel, contextVars, bridgeVars, callVars, monitors, TypeOK, MonitorTypes
  <2> QED
    BY <2>20, <2>21, <2>22, <2>23 DEF TypeOK
<1>4. CASE Persist
  <2>1. transcript' \in Seq(Item \ Reply)
    BY <1>4, SeqOps, Kinds DEF Persist, TypeOK, AgentTypes, SessionTypes, CallTypes, MonitorTypes, Item
  <2>20. AgentTypes'
    BY <1>4, <2>1 DEF Persist, agentVars, cardVars, bridgeVars, callVars, monitors, TypeOK, AgentTypes
  <2>21. SessionTypes'
    BY <1>4, <2>1 DEF Persist, agentVars, cardVars, bridgeVars, callVars, monitors, TypeOK, SessionTypes
  <2>22. CallTypes'
    BY <1>4, <2>1, Places DEF Persist, agentVars, cardVars, bridgeVars, callVars, monitors, TypeOK, CallTypes
  <2>23. MonitorTypes'
    BY <1>4, <2>1 DEF Persist, agentVars, cardVars, bridgeVars, callVars, monitors, TypeOK, MonitorTypes
  <2> QED
    BY <2>20, <2>21, <2>22, <2>23 DEF TypeOK
<1>5. ASSUME NEW c \in Context, PrependContext(c) PROVE TypeOK'
  <2>20. AgentTypes'
    BY <1>5, PrependType DEF PrependContext, cardVars, bridgeVars, callVars, TypeOK, AgentTypes
  <2>21. SessionTypes'
    BY <1>5, PrependType DEF PrependContext, cardVars, bridgeVars, callVars, TypeOK, SessionTypes
  <2>22. CallTypes'
    BY <1>5, PrependType, Places DEF PrependContext, cardVars, bridgeVars, callVars, TypeOK, CallTypes
  <2>23. MonitorTypes'
    BY <1>5, PrependType DEF PrependContext, cardVars, bridgeVars, callVars, TypeOK, MonitorTypes
  <2> QED
    BY <2>20, <2>21, <2>22, <2>23 DEF TypeOK
<1> QED
  BY <1>1, <1>2, <1>3, <1>4, <1>5

LEMMA RestartTypes ==
  ASSUME TypeOK, NEW r \in Restart, RestartStep(r)
  PROVE  TypeOK'
<1> r \in Caller
  BY DEF Caller
<1>0. <<>> \in Seq(Message) /\ <<>> \in Seq(Sent \cup {Prompt}) /\ <<>> \in Seq(Item) /\ <<>> \in Seq(Item \ Reply)
  BY SeqOps
<1>1. CASE RestartSession(r)
  <2>1. Requested \o Queued \in Seq(Sent \cup {Prompt})
    BY SeqKinds, SeqOps
  <2>2. pending' = [carried |-> Requested \o Queued, before |-> Submitted]
    BY <1>1 DEF RestartSession, Requested
  <2>3. Submitted \subseteq Message
    BY DEF Submitted
  <2>4. pending' \in Request
    BY <2>1, <2>2, <2>3 DEF Request
  <2>20. AgentTypes'
    BY <1>0, <1>1, <2>4 DEF RestartSession, Goto, cardVars, contextVars, monitors, TypeOK, AgentTypes
  <2>21. SessionTypes'
    BY <1>0, <1>1, <2>4 DEF RestartSession, Goto, cardVars, contextVars, monitors, TypeOK, SessionTypes
  <2>22. CallTypes'
    BY <1>0, <1>1, <2>4, Places DEF RestartSession, Goto, cardVars, contextVars, monitors, TypeOK, CallTypes
  <2>23. MonitorTypes'
    BY <1>0, <1>1, <2>4 DEF RestartSession, Goto, cardVars, contextVars, monitors, TypeOK, MonitorTypes
  <2> QED
    BY <2>20, <2>21, <2>22, <2>23 DEF TypeOK
<1>2. CASE RestartAborts(r)
  <2>20. AgentTypes'
    BY <1>2 DEF RestartAborts, AbortRun, Goto, contextVars, bridgeVars, monitors, TypeOK, AgentTypes
  <2>21. SessionTypes'
    BY <1>2 DEF RestartAborts, AbortRun, Goto, contextVars, bridgeVars, monitors, TypeOK, SessionTypes
  <2>22. CallTypes'
    BY <1>2, Places DEF RestartAborts, AbortRun, Goto, contextVars, bridgeVars, monitors, TypeOK, CallTypes
  <2>23. MonitorTypes'
    BY <1>2 DEF RestartAborts, AbortRun, Goto, contextVars, bridgeVars, monitors, TypeOK, MonitorTypes
  <2> QED
    BY <2>20, <2>21, <2>22, <2>23 DEF TypeOK
<1>3. CASE RestartWaits(r)
  <2>20. AgentTypes'
    BY <1>3 DEF RestartWaits, Goto, agentVars, cardVars, contextVars, bridgeVars, monitors, TypeOK, AgentTypes
  <2>21. SessionTypes'
    BY <1>3 DEF RestartWaits, Goto, agentVars, cardVars, contextVars, bridgeVars, monitors, TypeOK, SessionTypes
  <2>22. CallTypes'
    BY <1>3, Places DEF RestartWaits, Goto, agentVars, cardVars, contextVars, bridgeVars, monitors, TypeOK, CallTypes
  <2>23. MonitorTypes'
    BY <1>3 DEF RestartWaits, Goto, agentVars, cardVars, contextVars, bridgeVars, monitors, TypeOK, MonitorTypes
  <2> QED
    BY <2>20, <2>21, <2>22, <2>23 DEF TypeOK
<1>4. CASE TakePendingRestart(r)
  <2>1. CASE pending = None
    <3>20. AgentTypes'
      BY <1>4, <2>1 DEF TakePendingRestart, Goto, agentVars, cardVars, contextVars, bridgeVars, TypeOK, AgentTypes
    <3>21. SessionTypes'
      BY <1>4, <2>1 DEF TakePendingRestart, Goto, agentVars, cardVars, contextVars, bridgeVars, TypeOK, SessionTypes
    <3>22. CallTypes'
      BY <1>4, <2>1, Places DEF TakePendingRestart, Goto, agentVars, cardVars, contextVars, bridgeVars, TypeOK, CallTypes
    <3>23. MonitorTypes'
      BY <1>4, <2>1 DEF TakePendingRestart, Goto, agentVars, cardVars, contextVars, bridgeVars, TypeOK, MonitorTypes
    <3> QED
      BY <3>20, <3>21, <3>22, <3>23 DEF TypeOK
  <2>2. CASE pending # None
    <3>1. Carried \in Seq(Sent \cup {Prompt})
      BY <2>2, CarriedParts
    <3>2. ToSet(Carried) \subseteq Sent \cup {Prompt}
      BY <3>1, SetOfType
    <3>3. hold' \in [Restart -> Seq(Sent \cup {Prompt})] /\ due' \in [Message -> Nat] /\ entangled' \in BOOLEAN
      <4>1. hold' = [hold EXCEPT ![r] = Carried] /\ hold \in [Restart -> Seq(Sent \cup {Prompt})]
        BY <1>4, <2>2 DEF TakePendingRestart, TypeOK, CallTypes
      <4>2. /\ due' = [m \in Message |-> IF Copies(m) \cap ToSet(Carried) = {} THEN due[m] ELSE seen[m] + 1]
            /\ \A m \in Message : due[m] \in Nat /\ seen[m] \in Nat
        BY <1>4, <2>2 DEF TakePendingRestart, TypeOK, MonitorTypes
      <4>3. entangled' \in BOOLEAN
        BY <1>4, <2>2 DEF TakePendingRestart, TypeOK, MonitorTypes
      <4>4. due' \in [Message -> Nat]
        BY <4>2
      <4> QED
        BY <3>1, <4>1, <4>3, <4>4
    <3>20. AgentTypes'
      BY <1>4, <2>2, <3>2, <3>3 DEF TakePendingRestart, Goto, agentVars, cardVars, contextVars, TypeOK, AgentTypes
    <3>21. SessionTypes'
      BY <1>4, <2>2, <3>2, <3>3 DEF TakePendingRestart, Goto, agentVars, cardVars, contextVars, TypeOK, SessionTypes
    <3>22. CallTypes'
      BY <1>4, <2>2, <3>2, <3>3, Places DEF TakePendingRestart, Goto, agentVars, cardVars, contextVars, TypeOK, CallTypes
    <3>23. MonitorTypes'
      BY <1>4, <2>2, <3>2, <3>3 DEF TakePendingRestart, Goto, agentVars, cardVars, contextVars, TypeOK, MonitorTypes
    <3> QED
      BY <3>20, <3>21, <3>22, <3>23 DEF TypeOK
  <2> QED
    BY <2>1, <2>2
<1>5. CASE StartNew(r)
  <2>20. AgentTypes'
    BY <1>5 DEF StartNew, Goto, agentVars, cardVars, contextVars, bridgeVars, monitors, TypeOK, AgentTypes
  <2>21. SessionTypes'
    BY <1>5 DEF StartNew, Goto, agentVars, cardVars, contextVars, bridgeVars, monitors, TypeOK, SessionTypes
  <2>22. CallTypes'
    BY <1>5, Places DEF StartNew, Goto, agentVars, cardVars, contextVars, bridgeVars, monitors, TypeOK, CallTypes
  <2>23. MonitorTypes'
    BY <1>5 DEF StartNew, Goto, agentVars, cardVars, contextVars, bridgeVars, monitors, TypeOK, MonitorTypes
  <2> QED
    BY <2>20, <2>21, <2>22, <2>23 DEF TypeOK
<1>6. CASE TakeQueues(r)
  <2>1. hold[r] \o Queued \in Seq(Sent \cup {Prompt})
    BY SeqKinds, SeqOps
  <2>2. hold' \in [Restart -> Seq(Sent \cup {Prompt})]
    BY <1>6, <2>1 DEF TakeQueues, TypeOK, AgentTypes, SessionTypes, CallTypes, MonitorTypes
  <2>20. AgentTypes'
    BY <1>0, <1>6, <2>2 DEF TakeQueues, Goto, cardVars, contextVars, bridgeVars, monitors, TypeOK, AgentTypes
  <2>21. SessionTypes'
    BY <1>0, <1>6, <2>2 DEF TakeQueues, Goto, cardVars, contextVars, bridgeVars, monitors, TypeOK, SessionTypes
  <2>22. CallTypes'
    BY <1>0, <1>6, <2>2, Places DEF TakeQueues, Goto, cardVars, contextVars, bridgeVars, monitors, TypeOK, CallTypes
  <2>23. MonitorTypes'
    BY <1>0, <1>6, <2>2 DEF TakeQueues, Goto, cardVars, contextVars, bridgeVars, monitors, TypeOK, MonitorTypes
  <2> QED
    BY <2>20, <2>21, <2>22, <2>23 DEF TypeOK
<1>7. CASE StopRun(r)
  <2>20. AgentTypes'
    BY <1>7 DEF StopRun, AbortRun, Goto, contextVars, bridgeVars, monitors, TypeOK, AgentTypes
  <2>21. SessionTypes'
    BY <1>7 DEF StopRun, AbortRun, Goto, contextVars, bridgeVars, monitors, TypeOK, SessionTypes
  <2>22. CallTypes'
    BY <1>7, Places DEF StopRun, AbortRun, Goto, contextVars, bridgeVars, monitors, TypeOK, CallTypes
  <2>23. MonitorTypes'
    BY <1>7 DEF StopRun, AbortRun, Goto, contextVars, bridgeVars, monitors, TypeOK, MonitorTypes
  <2> QED
    BY <2>20, <2>21, <2>22, <2>23 DEF TypeOK
<1>8. CASE RunStopped(r)
  <2>20. AgentTypes'
    BY <1>8 DEF RunStopped, Goto, agentVars, cardVars, contextVars, bridgeVars, monitors, TypeOK, AgentTypes
  <2>21. SessionTypes'
    BY <1>8 DEF RunStopped, Goto, agentVars, cardVars, contextVars, bridgeVars, monitors, TypeOK, SessionTypes
  <2>22. CallTypes'
    BY <1>8, Places DEF RunStopped, Goto, agentVars, cardVars, contextVars, bridgeVars, monitors, TypeOK, CallTypes
  <2>23. MonitorTypes'
    BY <1>8 DEF RunStopped, Goto, agentVars, cardVars, contextVars, bridgeVars, monitors, TypeOK, MonitorTypes
  <2> QED
    BY <2>20, <2>21, <2>22, <2>23 DEF TypeOK
<1>9. CASE NewTranscript(r)
  <2>20. AgentTypes'
    BY <1>0, <1>9 DEF NewTranscript, Goto, agentVars, cardVars, contextVars, bridgeVars, TypeOK, AgentTypes
  <2>21. SessionTypes'
    BY <1>0, <1>9 DEF NewTranscript, Goto, agentVars, cardVars, contextVars, bridgeVars, TypeOK, SessionTypes
  <2>22. CallTypes'
    BY <1>0, <1>9, Places DEF NewTranscript, Goto, agentVars, cardVars, contextVars, bridgeVars, TypeOK, CallTypes
  <2>23. MonitorTypes'
    BY <1>0, <1>9 DEF NewTranscript, Goto, agentVars, cardVars, contextVars, bridgeVars, TypeOK, MonitorTypes
  <2> QED
    BY <2>20, <2>21, <2>22, <2>23 DEF TypeOK
<1>10. CASE Erase(r)
  <2>1. ToSet(history) \subseteq Item /\ ToSet(hold[r]) \subseteq Item
    BY SeqKinds, SetOfType
  <2>2. gone' \subseteq Item
    BY <1>10, <2>1 DEF Erase, TypeOK, AgentTypes, SessionTypes, CallTypes, MonitorTypes
  <2>3. hold' \in [Restart -> Seq(Sent \cup {Prompt})]
    BY <1>0, <1>10 DEF Erase, TypeOK, AgentTypes, SessionTypes, CallTypes, MonitorTypes
  <2>20. AgentTypes'
    BY <1>0, <1>10, <2>2, <2>3 DEF Erase, Goto, cardVars, contextVars, bridgeVars, TypeOK, AgentTypes
  <2>21. SessionTypes'
    BY <1>0, <1>10, <2>2, <2>3 DEF Erase, Goto, cardVars, contextVars, bridgeVars, TypeOK, SessionTypes
  <2>22. CallTypes'
    BY <1>0, <1>10, <2>2, <2>3, Places DEF Erase, Goto, cardVars, contextVars, bridgeVars, TypeOK, CallTypes
  <2>23. MonitorTypes'
    BY <1>0, <1>10, <2>2, <2>3 DEF Erase, Goto, cardVars, contextVars, bridgeVars, TypeOK, MonitorTypes
  <2> QED
    BY <2>20, <2>21, <2>22, <2>23 DEF TypeOK
<1>11. CASE Brief(r)
  <2>1. /\ contexts' \in Seq(Context) /\ history' \in Seq(Item) /\ inFlight' \subseteq Context
        /\ persisting' \in Context \cup {None} /\ behind' \in BOOLEAN
    BY <1>11, PrependType, Kinds DEF Brief, TypeOK, AgentTypes, SessionTypes, CallTypes, MonitorTypes
  <2>20. AgentTypes'
    BY <1>11, <2>1 DEF Brief, Goto, cardVars, bridgeVars, TypeOK, AgentTypes
  <2>21. SessionTypes'
    BY <1>11, <2>1 DEF Brief, Goto, cardVars, bridgeVars, TypeOK, SessionTypes
  <2>22. CallTypes'
    BY <1>11, <2>1, Places DEF Brief, Goto, cardVars, bridgeVars, TypeOK, CallTypes
  <2>23. MonitorTypes'
    BY <1>11, <2>1 DEF Brief, Goto, cardVars, bridgeVars, TypeOK, MonitorTypes
  <2> QED
    BY <2>20, <2>21, <2>22, <2>23 DEF TypeOK
<1>12. CASE Carry(r)
  <2>1. followUps' \in Seq(Sent \cup {Prompt}) /\ late' \in BOOLEAN
    BY <1>12, FollowUpType, SeqKinds DEF Carry
  <2>2. hold' \in [Restart -> Seq(Sent \cup {Prompt})]
    BY <1>0, <1>12 DEF Carry, TypeOK, AgentTypes, SessionTypes, CallTypes, MonitorTypes
  <2>20. AgentTypes'
    BY <1>12, <2>1, <2>2 DEF Carry, Goto, cardVars, contextVars, bridgeVars, TypeOK, AgentTypes
  <2>21. SessionTypes'
    BY <1>12, <2>1, <2>2 DEF Carry, Goto, cardVars, contextVars, bridgeVars, TypeOK, SessionTypes
  <2>22. CallTypes'
    BY <1>12, <2>1, <2>2, Places DEF Carry, Goto, cardVars, contextVars, bridgeVars, TypeOK, CallTypes
  <2>23. MonitorTypes'
    BY <1>12, <2>1, <2>2 DEF Carry, Goto, cardVars, contextVars, bridgeVars, TypeOK, MonitorTypes
  <2> QED
    BY <2>20, <2>21, <2>22, <2>23 DEF TypeOK
<1>13. CASE RestartPrompts(r)
  <2>20. AgentTypes'
    BY <1>13 DEF RestartPrompts, Accept, Goto, agentVars, contextVars, bridgeVars, monitors, TypeOK, AgentTypes
  <2>21. SessionTypes'
    BY <1>13 DEF RestartPrompts, Accept, Goto, agentVars, contextVars, bridgeVars, monitors, TypeOK, SessionTypes
  <2>22. CallTypes'
    BY <1>13, Places DEF RestartPrompts, Accept, Goto, agentVars, contextVars, bridgeVars, monitors, TypeOK, CallTypes
  <2>23. MonitorTypes'
    BY <1>13 DEF RestartPrompts, Accept, Goto, agentVars, contextVars, bridgeVars, monitors, TypeOK, MonitorTypes
  <2> QED
    BY <2>20, <2>21, <2>22, <2>23 DEF TypeOK
<1> QED
  BY <1>1, <1>2, <1>3, <1>4, <1>5, <1>6, <1>7, <1>8, <1>9, <1>10, <1>11, <1>12, <1>13 DEF RestartStep

LEMMA StepTypes == TypeOK /\ [Next]_vars => TypeOK'
<1> SUFFICES ASSUME TypeOK, [Next]_vars PROVE TypeOK'
  OBVIOUS
<1>1. CASE UNCHANGED vars
  <2>20. AgentTypes'
    BY <1>1 DEF vars, agentVars, cardVars, contextVars, bridgeVars, callVars, monitors, TypeOK, AgentTypes
  <2>21. SessionTypes'
    BY <1>1 DEF vars, agentVars, cardVars, contextVars, bridgeVars, callVars, monitors, TypeOK, SessionTypes
  <2>22. CallTypes'
    BY <1>1, Places DEF vars, agentVars, cardVars, contextVars, bridgeVars, callVars, monitors, TypeOK, CallTypes
  <2>23. MonitorTypes'
    BY <1>1 DEF vars, agentVars, cardVars, contextVars, bridgeVars, callVars, monitors, TypeOK, MonitorTypes
  <2> QED
    BY <2>20, <2>21, <2>22, <2>23 DEF TypeOK
<1>2. CASE Next
  BY <1>2, AgentKeepsTypes, PromptTypes, MessageTypes, OtherTypes, RestartTypes DEF Next
<1> QED
  BY <1>1, <1>2

-----------------------------------------------------------------------------
(* The card: who will change one that says running.                         *)

Busy(c) == pc[c] \in {"accepted", "send", "fallback", "refuse"}

LEMMA GoesOn ==
  ASSUME RunningInv, late => late', status' = "running" => status = "running",
         loop \notin {"none", "ended"} => loop' \notin {"none", "ended"},
         \A c \in Caller : Busy(c) => Busy(c)'
  PROVE  RunningInv'
BY DEF RunningInv, Busy

\* Whoever is not prompting may go anywhere.
LEMMA OthersStayBusy ==
  ASSUME CallTypes, NEW c \in Caller, ~Busy(c), NEW step, Goto(c, step)
  PROVE  \A d \in Caller : Busy(d) => Busy(d)'
BY DEF CallTypes, Busy, Goto

LEMMA Went ==
  ASSUME CallTypes, NEW c \in Caller, NEW step, Goto(c, step)
  PROVE  pc'[c] = step /\ \A d \in Caller : d # c => pc'[d] = pc[d]
BY DEF CallTypes, Goto

LEMMA AcceptSaysSo ==
  ASSUME CallTypes, NEW c \in Caller, Accept(c)
  PROVE  RunningInv'
<1>1. CASE model
  BY <1>1, Went DEF Accept, RunningInv
<1>2. CASE ~model
  BY <1>2 DEF Accept, RunningInv
<1> QED
  BY <1>1, <1>2

LEMMA RunningStep ==
  ASSUME TypeOK, RunningInv, [Next]_vars
  PROVE  RunningInv'
<1> USE DEF TypeOK
<1>1. CASE UNCHANGED <<pc, loop, late, status>>
  BY <1>1 DEF RunningInv
<1>2. CASE Agent
  <2>1. CASE RunEnds
    BY <2>1 DEF RunEnds, RunningInv
  <2>2. CASE RunStarts \/ Deliver \/ ModelReplies \/ ToolsEnd \/ Settle
    <3>1. loop' \notin {"none", "ended"}
      BY <2>2 DEF RunStarts, Deliver, ModelReplies, ToolsEnd, Settle
    <3> QED
      BY <3>1 DEF RunningInv
  <2>3. CASE AgentIdles
    <3>1. UNCHANGED <<pc, late, status>> /\ loop = "ended" /\ loop' = "none"
      BY <2>3 DEF AgentIdles, cardVars, callVars, monitors
    <3> QED
      BY <3>1 DEF RunningInv
  <2> QED
    BY <1>2, <2>1, <2>2, <2>3 DEF Agent
<1>3. ASSUME NEW c \in Caller, PromptStep(c)
      PROVE  RunningInv'
  <2>1. ASSUME Streaming, FollowUp(<<Text(c)>>), UNCHANGED loop
        PROVE  RunningInv'
    <3>1. late' \/ loop' \notin {"none", "ended"}
      BY <2>1 DEF FollowUp, Streaming
    <3> QED
      BY <3>1 DEF RunningInv
  <2>2. ASSUME NEW step \in {"send", "fallback", "refuse"}, Goto(c, step)
        PROVE  RunningInv'
    BY <2>2, Went DEF RunningInv
  <2>3. CASE CheckStreaming(c)
    BY <2>1, <2>2, <2>3 DEF CheckStreaming
  <2>4. CASE Send(c)
    <3>1. CASE CanRun
      BY <2>4, <3>1 DEF Send, BeginRun, RunningInv
    <3>2. CASE ~CanRun
      BY <2>2, <2>4, <3>2 DEF Send
    <3> QED
      BY <3>1, <3>2
  <2>5. CASE Fallback(c)
    BY <2>1, <2>2, <2>5 DEF Fallback
  <2>6. CASE Refuse(c)
    BY <2>6 DEF Refuse, RunningInv
  <2>7. CASE WaitForIdle(c)
    <3>1. ~Busy(c) /\ Goto(c, "done") /\ UNCHANGED <<loop, late, status>>
      BY <2>7 DEF WaitForIdle, Busy, At, agentVars, cardVars, monitors
    <3> QED
      BY <3>1, OthersStayBusy, GoesOn
  <2> QED
    BY <1>3, <2>3, <2>4, <2>5, <2>6, <2>7 DEF PromptStep
<1>4. ASSUME NEW m \in Message, Submit(m) \/ SendUserMessage(m) \/ Queue(m) \/ Inject(m) \/ InjectedRun(m)
      PROVE  RunningInv'
  <2> m \in Caller
    BY DEF Caller
  <2>1. CASE Submit(m)
    BY <2>1, AcceptSaysSo DEF Submit
  <2>2. CASE SendUserMessage(m)
    <3>1. ~Busy(m) /\ (Goto(m, "steer") \/ Goto(m, "followUp")) /\ UNCHANGED <<loop, late, status>>
      BY <2>2 DEF SendUserMessage, Busy, At, agentVars, cardVars, monitors
    <3> QED
      BY <3>1, OthersStayBusy, GoesOn
  <2>3. CASE Queue(m)
    <3>1. ~Busy(m) /\ Goto(m, "done") /\ UNCHANGED <<loop, status>>
      BY <2>3 DEF Queue, Busy, At, cardVars
    <3>2. late => late'
      BY <2>3 DEF Queue, FollowUp
    <3> QED
      BY <3>1, <3>2, OthersStayBusy, GoesOn
  <2>4. CASE Inject(m)
    <3>1. ~Busy(m) /\ (\E step \in Place : Goto(m, step)) /\ UNCHANGED <<loop, late, status>>
      BY <2>4, Places DEF Inject, Busy, At, agentVars, cardVars, monitors
    <3> QED
      BY <3>1, OthersStayBusy, GoesOn
  <2>5. CASE InjectedRun(m)
    <3>1. CASE CanRun
      BY <2>5, <3>1 DEF InjectedRun, BeginRun, RunningInv
    <3>2. CASE ~CanRun
      <4>1. ~Busy(m) /\ Goto(m, "dropped") /\ UNCHANGED <<loop, late, status>>
        BY <2>5, <3>2 DEF InjectedRun, Busy, At, cardVars
      <4> QED
        BY <4>1, OthersStayBusy, GoesOn
    <3> QED
      BY <3>1, <3>2
  <2> QED
    BY <1>4, <2>1, <2>2, <2>3, <2>4, <2>5
<1>5. CASE Dequeue \/ Escape \/ SetModel \/ Persist \/ \E c \in Context : PrependContext(c)
  <2>1. UNCHANGED <<loop, late, pc>>
    BY <1>5 DEF Dequeue, Escape, SetModel, Persist, PrependContext, agentVars, callVars, monitors
  <2>2. status' = "running" => status = "running"
    BY <1>5 DEF Dequeue, Escape, AbortRun, SetModel, Persist, PrependContext, cardVars
  <2> QED
    BY <2>1, <2>2 DEF RunningInv
<1>6. ASSUME NEW r \in Restart, RestartStep(r)
      PROVE  RunningInv'
  <2> r \in Caller
    BY DEF Caller
  <2>1. CASE RestartPrompts(r)
    BY <2>1, AcceptSaysSo DEF RestartPrompts
  <2>2. CASE ~RestartPrompts(r)
    <3>1. ~Busy(r) /\ (late => late') /\ UNCHANGED <<loop, status>>
      <4>1. CASE RestartSession(r) \/ RestartAborts(r) \/ RestartWaits(r) \/ TakePendingRestart(r)
        BY <4>1 DEF RestartSession, RestartAborts, RestartWaits, TakePendingRestart, Busy, At,
           agentVars, cardVars, monitors
      <4>2. CASE StartNew(r) \/ TakeQueues(r) \/ StopRun(r) \/ RunStopped(r)
        BY <4>2 DEF StartNew, TakeQueues, StopRun, RunStopped, Busy, At, agentVars, cardVars, monitors
      <4>3. CASE NewTranscript(r) \/ Erase(r) \/ Brief(r)
        BY <4>3 DEF NewTranscript, Erase, Brief, Busy, At, agentVars, cardVars
      <4>4. CASE Carry(r)
        <5>1. At(r, "carry") /\ FollowUp(hold[r]) /\ UNCHANGED <<loop, status>>
          BY <4>4 DEF Carry, cardVars
        <5> QED
          BY <5>1 DEF At, FollowUp, Busy
      <4> QED
        BY <1>6, <2>2, <4>1, <4>2, <4>3, <4>4 DEF RestartStep
    <3>2. \E step \in Place : Goto(r, step)
      BY <1>6, <2>2, Places DEF RestartStep, RestartSession, RestartAborts, RestartWaits,
         TakePendingRestart, StartNew, TakeQueues, StopRun, RunStopped, NewTranscript, Erase,
         Brief, Carry
    <3> QED
      BY <3>1, <3>2, OthersStayBusy, GoesOn
  <2> QED
    BY <2>1, <2>2
<1> QED
  BY <1>1, <1>2, <1>3, <1>4, <1>5, <1>6 DEF Next, vars, agentVars, cardVars, callVars, monitors

\* NotRunningForever.
LEMMA RunningIsSeen ==
  ASSUME RunningInv
  PROVE  NotRunningForever
BY DEF RunningInv, NotRunningForever, Streaming

LEMMA InitRunning == Init => RunningInv
BY DEF Init, RunningInv

-----------------------------------------------------------------------------
(* The conversation: what the run delivers, and the contexts.               *)

convVars == <<loop, input, contexts, history, inFlight>>

\* The steps that touch the conversation.
LEMMA ConversationSteps ==
  ASSUME TypeOK, [Next]_vars
  PROVE  \/ UNCHANGED convVars
         \/ Agent
         \/ \E c \in Caller : /\ CanRun /\ BeginRun(<<Text(c)>>)
                              /\ UNCHANGED <<contexts, history, inFlight>>
                              /\ Send(c) \/ (c \in Message /\ InjectedRun(c))
         \/ \E c \in Context : Prepend(c) /\ UNCHANGED <<loop, input>>
         \/ \E r \in Restart : Erase(r)
<1>1. CASE UNCHANGED vars
  BY <1>1 DEF vars, agentVars, contextVars, convVars
<1>2. ASSUME NEW c \in Caller, PromptStep(c)
      PROVE  \/ UNCHANGED convVars
             \/ /\ CanRun /\ BeginRun(<<Text(c)>>) /\ Send(c)
                /\ UNCHANGED <<contexts, history, inFlight>>
  <2>1. CASE Send(c)
    BY <2>1 DEF Send, contextVars, convVars
  <2>2. CASE CheckStreaming(c) \/ Fallback(c) \/ Refuse(c) \/ WaitForIdle(c)
    BY <2>2 DEF CheckStreaming, Fallback, Refuse, WaitForIdle, agentVars, contextVars, convVars
  <2> QED
    BY <1>2, <2>1, <2>2 DEF PromptStep
<1>3. ASSUME NEW m \in Message, Submit(m) \/ SendUserMessage(m) \/ Queue(m) \/ Inject(m) \/ InjectedRun(m)
      PROVE  \/ UNCHANGED convVars
             \/ /\ CanRun /\ BeginRun(<<Text(m)>>) /\ InjectedRun(m)
                /\ UNCHANGED <<contexts, history, inFlight>>
  <2>1. CASE InjectedRun(m)
    <3>1. Text(m) = m
      BY TextType DEF Caller
    <3> QED
      BY <2>1, <3>1 DEF InjectedRun, contextVars, convVars
  <2>2. CASE Submit(m) \/ SendUserMessage(m) \/ Queue(m) \/ Inject(m)
    BY <2>2 DEF Submit, SendUserMessage, Queue, Inject, agentVars, contextVars, convVars
  <2> QED
    BY <1>3, <2>1, <2>2
<1>4. CASE Dequeue \/ Escape \/ SetModel \/ Persist
  BY <1>4 DEF Dequeue, Escape, SetModel, Persist, agentVars, contextVars, convVars
<1>5. ASSUME NEW c \in Context, PrependContext(c)
      PROVE  Prepend(c) /\ UNCHANGED <<loop, input>>
  BY <1>5 DEF PrependContext
<1>6. ASSUME NEW r \in Restart, RestartStep(r)
      PROVE  \/ UNCHANGED convVars
             \/ Prepend(Briefing) /\ UNCHANGED <<loop, input>>
             \/ Erase(r)
  <2>1. CASE Brief(r)
    BY <2>1 DEF Brief, convVars
  <2>2. CASE RestartSession(r) \/ RestartAborts(r) \/ RestartWaits(r) \/ TakePendingRestart(r) \/ StartNew(r)
    BY <2>2 DEF RestartSession, RestartAborts, RestartWaits, TakePendingRestart, StartNew,
       agentVars, contextVars, convVars
  <2>3. CASE TakeQueues(r) \/ StopRun(r) \/ RunStopped(r) \/ NewTranscript(r) \/ Carry(r) \/ RestartPrompts(r)
    BY <2>3 DEF TakeQueues, StopRun, RunStopped, NewTranscript, Carry, RestartPrompts,
       agentVars, contextVars, convVars
  <2> QED
    BY <1>6, <2>1, <2>2, <2>3 DEF RestartStep
<1>7. CASE \E m \in Message : Submit(m) \/ SendUserMessage(m) \/ Queue(m) \/ Inject(m) \/ InjectedRun(m)
  BY <1>3, <1>7 DEF Caller
<1>8. CASE \E r \in Restart : RestartStep(r)
  <2>1. Briefing \in Context
    BY Kinds
  <2> QED
    BY <1>6, <1>8, <2>1
<1> QED
  BY <1>1, <1>2, <1>4, <1>5, <1>7, <1>8 DEF Next

-----------------------------------------------------------------------------
(* A context is in the conversation once.                                   *)

Times(c) == Number(history, {c}) + Number(contexts, {c}) + Number(input, {c})
Once == \A c \in Context : Times(c) <= 1

LEMMA OnceIsContextOnce == ContextOnce <=> Once
BY CountIsNumber DEF ContextOnce, Once, Times

LEMMA NoContextIn ==
  ASSUME NEW c \in Context
  PROVE  /\ \A s \in Seq(Sent \cup {Prompt}) : Number(s, {c}) = 0
         /\ \A s \in Seq(Message) : Number(s, {c}) = 0
         /\ Number(<<>>, {c}) = 0
<1>1. c \notin Sent \cup {Prompt} /\ Message \subseteq Sent
  BY Kinds
<1>2. ASSUME NEW s \in Seq(Sent \cup {Prompt})
      PROVE  Number(s, {c}) = 0
  <2>1. ToSet(s) \subseteq Sent \cup {Prompt}
    BY SetOfType
  <2>2. ToSet(s) \cap {c} = {}
    BY <1>1, <2>1
  <2> QED
    BY <2>2, NumberType
<1>3. ASSUME NEW s \in Seq(Message)
      PROVE  Number(s, {c}) = 0
  <2>1. s \in Seq(Sent \cup {Prompt})
    BY <1>1, SeqMonotonic
  <2> QED
    BY <1>2, <2>1
<1> QED
  BY <1>2, <1>3, NumberOfFew

LEMMA TimesType ==
  ASSUME TypeOK, NEW c
  PROVE  /\ Number(history, {c}) \in Nat /\ Number(contexts, {c}) \in Nat /\ Number(input, {c}) \in Nat
         /\ Number(history, {c}) = 0 <=> c \notin ToSet(history)
         /\ Number(contexts, {c}) = 0 <=> c \notin ToSet(contexts)
         /\ Number(input, {c}) = 0 <=> c \notin ToSet(input)
<1>1. \A s \in Seq(Item) : Number(s, {c}) \in Nat /\ (Number(s, {c}) = 0 <=> c \notin ToSet(s))
  <2> SUFFICES ASSUME NEW s \in Seq(Item)
               PROVE  Number(s, {c}) \in Nat /\ (Number(s, {c}) = 0 <=> c \notin ToSet(s))
    OBVIOUS
  <2>1. Number(s, {c}) \in Nat /\ (Number(s, {c}) = 0 <=> ToSet(s) \cap {c} = {})
    BY NumberType
  <2> QED
    BY <2>1
<1> QED
  BY <1>1, SeqKinds

\* A context the run is to deliver is in none of the other places.
LEMMA DeliveredOnce ==
  ASSUME TypeOK, Once, input # <<>>, Head(input) \in Context
  PROVE  Head(input) \notin ToSet(contexts) \cup ToSet(Tail(input)) \cup ToSet(history)
<1> DEFINE c == Head(input)
<1>1. Tail(input) \in Seq(Item) /\ input \in Seq(Item)
  BY SeqKinds, SeqOps
<1>2. Number(input, {c}) = Number(Tail(input), {c}) + 1
  BY <1>1, NumberOfHeadTail
<1>3. Number(Tail(input), {c}) \in Nat /\ (Number(Tail(input), {c}) = 0 <=> ToSet(Tail(input)) \cap {c} = {})
  BY <1>1, NumberType
<1>4. Number(history, {c}) + Number(contexts, {c}) + Number(input, {c}) <= 1
  BY DEF Once, Times
<1>7. /\ Number(history, {c}) \in Nat /\ Number(contexts, {c}) \in Nat /\ Number(input, {c}) \in Nat
      /\ Number(history, {c}) = 0 <=> c \notin ToSet(history)
      /\ Number(contexts, {c}) = 0 <=> c \notin ToSet(contexts)
  BY TimesType
<1> HIDE DEF c
<1>5. /\ Number(Tail(input), {c}) = 0 /\ Number(contexts, {c}) = 0 /\ Number(history, {c}) = 0
  BY <1>2, <1>3, <1>4, <1>7
<1>6. c \notin ToSet(Tail(input)) /\ c \notin ToSet(contexts) /\ c \notin ToSet(history)
  BY <1>3, <1>5, <1>7
<1> QED
  BY <1>6 DEF c

LEMMA OnceStep ==
  ASSUME TypeOK, ShapeInv, Once, [Next]_vars
  PROVE  Once'
<1> SUFFICES ASSUME NEW c \in Context PROVE Times(c)' <= 1
  BY DEF Once
<1>0. /\ Times(c) <= 1 /\ Number(history, {c}) \in Nat /\ Number(contexts, {c}) \in Nat
      /\ Number(input, {c}) \in Nat
  BY TimesType DEF Once
<1>1. CASE UNCHANGED <<input, contexts, history>>
  BY <1>0, <1>1 DEF Times
<1>2. CASE Agent
  <2>1. CASE RunStarts \/ AgentIdles
    BY <1>1, <2>1 DEF RunStarts, AgentIdles
  <2>2. CASE Deliver
    <3> DEFINE x == Head(input)
    <3>1. input # <<>> /\ history' = Append(history, x) /\ input' = Tail(input) /\ contexts' = contexts
      BY <2>2 DEF Deliver
    <3>2. x \in Item /\ Tail(input) \in Seq(Item) /\ input \in Seq(Item) /\ history \in Seq(Item)
      BY <3>1, SeqKinds, SeqOps
    <3>3. Number(input, {c}) = Number(Tail(input), {c}) + IF x \in {c} THEN 1 ELSE 0
      BY <3>1, <3>2, NumberOfHeadTail
    <3>4. Number(Append(history, x), {c}) = Number(history, {c}) + IF x \in {c} THEN 1 ELSE 0
      BY <3>2, NumberOfAppend
    <3>5. Number(Tail(input), {c}) \in Nat
      BY <3>2, NumberType
    <3>6. Times(c)' = Number(Append(history, x), {c}) + Number(contexts, {c}) + Number(Tail(input), {c})
      BY <3>1 DEF Times
    <3> HIDE DEF x
    <3> QED
      BY <1>0, <3>3, <3>4, <3>5, <3>6 DEF Times
  <2>3. CASE ModelReplies
    <3>1. PICK reply \in {"answer", "tool", "failed", "aborted"} :
            history' = Append(history, [reply |-> reply])
      BY <2>3 DEF ModelReplies
    <3>2. [reply |-> reply] \in Item /\ [reply |-> reply] # c
      BY Kinds DEF Item, Reply
    <3>3. Number(Append(history, [reply |-> reply]), {c}) = Number(history, {c}) + 0
      BY <3>2, SeqKinds, NumberOfAppend
    <3>4. UNCHANGED <<input, contexts>>
      BY <2>3 DEF ModelReplies
    <3> QED
      BY <1>0, <3>1, <3>3, <3>4 DEF Times
  <2>4. CASE ToolsEnd
    <3>1. CASE cancelled
      BY <1>1, <2>4, <3>1 DEF ToolsEnd
    <3>2. CASE ~cancelled
      <4>1. input' = contexts \o steer /\ contexts' = <<>> /\ history' = history
        BY <2>4, <3>2 DEF ToolsEnd
      <4>2. Number(contexts \o steer, {c}) = Number(contexts, {c}) + Number(steer, {c})
        BY SeqKinds, NumberOfConcat
      <4>3. Number(steer, {c}) = 0 /\ Number(<<>>, {c}) = 0
        BY NoContextIn DEF TypeOK, AgentTypes
      <4>4. Times(c)' = Number(history, {c}) + Number(<<>>, {c}) + Number(contexts \o steer, {c})
        BY <4>1 DEF Times
      <4> QED
        BY <1>0, <4>2, <4>3, <4>4 DEF Times
    <3> QED
      BY <3>1, <3>2
  <2>5. CASE Settle
    <3>1. input' = Queued /\ contexts' = contexts /\ history' = history
      BY <2>5 DEF Settle, Queued
    <3>2. Number(Queued, {c}) = 0
      BY SeqKinds, NoContextIn
    <3>3. Times(c)' = Number(history, {c}) + Number(contexts, {c}) + Number(Queued, {c})
      BY <3>1 DEF Times
    <3> QED
      BY <1>0, <3>2, <3>3 DEF Times
  <2>6. CASE RunEnds
    <3>1. history' = history \o contexts /\ contexts' = <<>> /\ input' = input
      BY <2>6 DEF RunEnds
    <3>2. Number(history \o contexts, {c}) = Number(history, {c}) + Number(contexts, {c})
      BY SeqKinds, NumberOfConcat
    <3>3. Times(c)' = Number(history \o contexts, {c}) + Number(<<>>, {c}) + Number(input, {c})
      BY <3>1 DEF Times
    <3> QED
      BY <1>0, <3>2, <3>3, NoContextIn DEF Times
  <2> QED
    BY <1>2, <2>1, <2>2, <2>3, <2>4, <2>5, <2>6 DEF Agent
<1>3. ASSUME NEW d \in Caller, BeginRun(<<Text(d)>>), UNCHANGED <<contexts, history>>
      PROVE  Times(c)' <= 1
  <2>1. input' = <<Text(d)>> /\ <<Text(d)>> \in Seq(Sent \cup {Prompt})
    BY <1>3, TextType DEF BeginRun
  <2>2. Number(<<Text(d)>>, {c}) = 0
    BY <2>1, NoContextIn
  <2>3. Times(c)' = Number(history, {c}) + Number(contexts, {c}) + Number(<<Text(d)>>, {c})
    BY <1>3, <2>1 DEF Times
  <2> QED
    BY <1>0, <2>2, <2>3 DEF Times
<1>4. ASSUME NEW d \in Context, Prepend(d), UNCHANGED input
      PROVE  Times(c)' <= 1
  <2>1. CASE Known(d)
    BY <1>1, <1>4, <2>1 DEF Prepend
  <2>2. CASE ~Known(d)
    <3>1. d \notin ToSet(history) /\ d \notin ToSet(contexts) /\ d \notin ToSet(input)
      BY <2>2 DEF Known, ShapeInv
    <3>2. d = c => Number(history, {c}) = 0 /\ Number(contexts, {c}) = 0 /\ Number(input, {c}) = 0
      BY <3>1, TimesType
    <3>3. \/ contexts' = Append(contexts, d) /\ history' = history
          \/ history' = Append(history, d) /\ contexts' = contexts
      BY <1>4, <2>2 DEF Prepend
    <3>4. d \in Item /\ d \in Context
      BY DEF Item
    <3>5. /\ Number(Append(contexts, d), {c}) = Number(contexts, {c}) + IF d \in {c} THEN 1 ELSE 0
          /\ Number(Append(history, d), {c}) = Number(history, {c}) + IF d \in {c} THEN 1 ELSE 0
      BY <3>4, SeqKinds, NumberOfAppend
    <3>6. \/ Times(c)' = Number(history, {c}) + Number(Append(contexts, d), {c}) + Number(input, {c})
          \/ Times(c)' = Number(Append(history, d), {c}) + Number(contexts, {c}) + Number(input, {c})
      BY <1>4, <3>3 DEF Times
    <3> QED
      BY <1>0, <3>2, <3>5, <3>6 DEF Times
  <2> QED
    BY <2>1, <2>2
<1>5. ASSUME NEW r \in Restart, Erase(r)
      PROVE  Times(c)' <= 1
  <2>1. Times(c)' = Number(<<>>, {c}) + Number(contexts, {c}) + Number(input, {c})
    BY <1>5 DEF Erase, Times
  <2> QED
    BY <1>0, <2>1, NoContextIn DEF Times
<1> QED
  BY <1>1, <1>2, <1>3, <1>4, <1>5, ConversationSteps DEF convVars

-----------------------------------------------------------------------------
(* What a run has to deliver, and the marks of its contexts.                *)

LEMMA ShapeStep ==
  ASSUME TypeOK, ShapeInv, Once, [Next]_vars
  PROVE  ShapeInv'
<1>1. CASE UNCHANGED convVars
  BY <1>1 DEF convVars, ShapeInv
<1>2. CASE Agent
  <2>1. CASE RunStarts
    BY <2>1 DEF RunStarts, contextVars, ShapeInv
  <2>2. CASE Deliver
    <3> DEFINE x == Head(input)
    <3>1. /\ input # <<>> /\ inFlight' = inFlight \ {x} /\ input' = Tail(input) /\ contexts' = contexts
          /\ loop = "deliver" /\ loop' = IF Len(input) = 1 THEN "request" ELSE "deliver"
      BY <2>2 DEF Deliver
    <3>2. ToSet(input) = {x} \cup ToSet(Tail(input))
      BY <3>1, SeqKinds, SetOfHeadTail
    <3>3. x \in Context => x \notin ToSet(contexts) \cup ToSet(Tail(input))
      BY <3>1, DeliveredOnce
    <3>4. ToSet(contexts) \subseteq Context
      BY SetOfType DEF TypeOK, AgentTypes
    <3>5. input' # <<>> => loop' = "deliver"
      <4>1. input \in Seq(Item) /\ (Len(input) = 1 => Len(Tail(input)) = 0)
        BY <3>1, SeqKinds, HeadTailProperties
      <4>2. Tail(input) \in Seq(Item) /\ (Len(input) = 1 => Tail(input) = <<>>)
        BY <3>1, <4>1, SeqOps, EmptySeq
      <4> QED
        BY <3>1, <4>2
    <3> HIDE DEF x
    <3>6. ToSet(contexts)' \subseteq inFlight' /\ ToSet(input)' \cap Context \subseteq inFlight'
      BY <3>1, <3>2, <3>3, <3>4 DEF ShapeInv
    <3>7. loop' \notin {"none", "ended"}
      BY <3>1
    <3> QED
      BY <3>1, <3>5, <3>6, <3>7 DEF ShapeInv
  <2>3. CASE ModelReplies
    BY <2>3 DEF ModelReplies, contextVars, ShapeInv
  <2>4. CASE ToolsEnd
    <3>1. CASE cancelled
      BY <2>4, <3>1 DEF ToolsEnd, contextVars, ShapeInv
    <3>2. CASE ~cancelled
      <4>1. /\ input' = contexts \o steer /\ contexts' = <<>> /\ inFlight' = inFlight
            /\ loop' = IF contexts \o steer = <<>> THEN "request" ELSE "deliver"
        BY <2>4, <3>2 DEF ToolsEnd, contextVars
      <4>2. ToSet(contexts \o steer) = ToSet(contexts) \cup ToSet(steer)
        BY SeqKinds, SetOfConcat
      <4>3. ToSet(steer) \cap Context = {}
        BY SeqKinds, SetOfType, Kinds
      <4> QED
        BY <4>1, <4>2, <4>3, SetOfFew DEF ShapeInv
    <3> QED
      BY <3>1, <3>2
  <2>5. CASE Settle
    <3>1. input' = Queued /\ contexts' = contexts /\ inFlight' = inFlight
          /\ loop' = IF Queued = <<>> THEN "end" ELSE "deliver"
      BY <2>5 DEF Settle, Queued, contextVars
    <3>2. ToSet(Queued) \cap Context = {}
      BY SeqKinds, SetOfType, Kinds
    <3> QED
      BY <3>1, <3>2 DEF ShapeInv
  <2>6. CASE RunEnds
    <3>1. input = <<>> /\ UNCHANGED input /\ contexts' = <<>> /\ loop' = "ended"
      BY <2>6 DEF RunEnds, ShapeInv
    <3> QED
      BY <3>1, SetOfFew DEF ShapeInv
  <2>7. CASE AgentIdles
    BY <2>7 DEF AgentIdles, contextVars, ShapeInv
  <2> QED
    BY <1>2, <2>1, <2>2, <2>3, <2>4, <2>5, <2>6, <2>7 DEF Agent
<1>3. ASSUME NEW d \in Caller, CanRun, BeginRun(<<Text(d)>>), UNCHANGED <<contexts, history, inFlight>>
      PROVE  ShapeInv'
  <2>1. input' = <<Text(d)>> /\ loop' = "start" /\ Text(d) \notin Context
    BY <1>3, TextType, Kinds DEF BeginRun
  <2>2. ToSet(input') \cap Context = {}
    BY <2>1, SetOfFew
  <2> QED
    BY <1>3, <2>1, <2>2 DEF ShapeInv
<1>4. ASSUME NEW d \in Context, Prepend(d), UNCHANGED <<loop, input>>
      PROVE  ShapeInv'
  <2>1. \/ UNCHANGED <<contexts, inFlight>>
        \/ /\ contexts' = Append(contexts, d) /\ inFlight' = inFlight \cup {d}
           /\ loop \notin {"none", "ended"}
    BY <1>4 DEF Prepend, Streaming
  <2>2. ToSet(Append(contexts, d)) = ToSet(contexts) \cup {d}
    BY SetOfAppend DEF TypeOK, AgentTypes
  <2> QED
    BY <1>4, <2>1, <2>2 DEF ShapeInv
<1>5. ASSUME NEW r \in Restart, Erase(r)
      PROVE  ShapeInv'
  <2>1. UNCHANGED <<loop, input, contexts, inFlight>>
    BY <1>5 DEF Erase, contextVars
  <2> QED
    BY <2>1 DEF ShapeInv
<1> QED
  BY <1>1, <1>2, <1>3, <1>4, <1>5, ConversationSteps

LEMMA InitShape == Init => ShapeInv /\ Once
<1> SUFFICES ASSUME Init PROVE ShapeInv /\ Once
  OBVIOUS
<1>1. ShapeInv
  BY SetOfFew DEF Init, ShapeInv
<1>2. Once
  <2>1. history = <<>> /\ contexts = <<>> /\ input = <<>>
    BY DEF Init
  <2>2. ASSUME NEW c \in Context PROVE Times(c) <= 1
    <3>1. Times(c) = Number(<<>>, {c}) + Number(<<>>, {c}) + Number(<<>>, {c})
      BY <2>1 DEF Times
    <3>2. Number(<<>>, {c}) = 0
      BY NumberOfFew
    <3> QED
      BY <3>1, <3>2
  <2> QED
    BY <2>2 DEF Once
<1> QED
  BY <1>1, <1>2

LEMMA ShapeIsMarked == ASSUME ShapeInv PROVE Marked
BY DEF ShapeInv, Marked, Streaming

-----------------------------------------------------------------------------
(* Restarts: their kinds, and that no run is on while one resets.           *)

\* Only a restart's own steps move it.
LEMMA RestartSteps ==
  ASSUME TypeOK, [Next]_vars
  PROVE  \/ UNCHANGED <<kind, hold>> /\ \A q \in Restart : pc'[q] = pc[q]
         \/ \E r \in Restart : PromptStep(r)
         \/ \E r \in Restart : RestartStep(r)
<1> USE DEF TypeOK
<1>1. CASE UNCHANGED vars
  BY <1>1 DEF vars, callVars
<1>2. CASE Agent
  <2>1. UNCHANGED callVars
    BY <1>2 DEF Agent, RunStarts, Deliver, ModelReplies, ToolsEnd, Settle, RunEnds, AgentIdles
  <2> QED
    BY <2>1 DEF callVars
<1>3. CASE Dequeue \/ Escape \/ SetModel \/ Persist \/ \E c \in Context : PrependContext(c)
  <2>1. UNCHANGED callVars
    BY <1>3 DEF Dequeue, Escape, SetModel, Persist, PrependContext
  <2> QED
    BY <2>1 DEF callVars
<1>4. ASSUME NEW m \in Message, Submit(m) \/ SendUserMessage(m) \/ Queue(m) \/ Inject(m) \/ InjectedRun(m)
      PROVE  UNCHANGED <<kind, hold>> /\ \A q \in Restart : pc'[q] = pc[q]
  <2>1. UNCHANGED <<kind, hold>>
    BY <1>4 DEF Submit, SendUserMessage, Queue, Inject, InjectedRun
  <2>2. \E step \in Place : Goto(m, step)
    BY <1>4, Places DEF Submit, Accept, SendUserMessage, Queue, Inject, InjectedRun
  <2>3. m \in Caller /\ m \notin Restart /\ Restart \subseteq Caller
    BY Kinds DEF Caller
  <2> QED
    BY <2>1, <2>2, <2>3, Went
<1>5. ASSUME NEW m \in Message, PromptStep(m)
      PROVE  UNCHANGED <<kind, hold>> /\ \A q \in Restart : pc'[q] = pc[q]
  <2>1. UNCHANGED <<kind, hold>>
    BY <1>5 DEF PromptStep, CheckStreaming, Send, Fallback, Refuse, WaitForIdle
  <2>2. \E step \in Place : Goto(m, step)
    BY <1>5, Places DEF PromptStep, CheckStreaming, Send, Fallback, Refuse, WaitForIdle
  <2>3. m \in Caller /\ m \notin Restart /\ Restart \subseteq Caller
    BY Kinds DEF Caller
  <2> QED
    BY <2>1, <2>2, <2>3, Went
<1>6. CASE \E c \in Caller : PromptStep(c)
  BY <1>5, <1>6 DEF Caller
<1>7. CASE \E m \in Message : Submit(m) \/ SendUserMessage(m) \/ Queue(m) \/ Inject(m) \/ InjectedRun(m)
  BY <1>4, <1>7
<1> QED
  BY <1>1, <1>2, <1>3, <1>6, <1>7 DEF Next

\* A prompt's steps, by whoever prompts.
LEMMA PromptMoves ==
  ASSUME TypeOK, NEW c \in Caller, PromptStep(c)
  PROVE  /\ pc[c] \in {"accepted", "send", "fallback", "refuse", "wait"}
         /\ pc'[c] \in {"send", "wait", "done", "fallback", "refuse", "refused"}
         /\ \A d \in Caller : d # c => pc'[d] = pc[d]
         /\ UNCHANGED <<kind, hold>>
<1> USE DEF TypeOK
<1>1. pc[c] \in {"accepted", "send", "fallback", "refuse", "wait"}
  BY DEF PromptStep, CheckStreaming, Send, Fallback, Refuse, WaitForIdle, At
<1>2. UNCHANGED <<kind, hold>>
  BY DEF PromptStep, CheckStreaming, Send, Fallback, Refuse, WaitForIdle
<1>3. \E step \in {"send", "wait", "done", "fallback", "refuse", "refused"} : Goto(c, step)
  BY DEF PromptStep, CheckStreaming, Send, Fallback, Refuse, WaitForIdle
<1> QED
  BY <1>1, <1>2, <1>3, Went

LEMMA KindStep ==
  ASSUME TypeOK, KindInv, [Next]_vars
  PROVE  KindInv'
<1> SUFFICES ASSUME NEW q \in Restart PROVE RightKind(q)'
  BY DEF KindInv
<1>0. RightKind(q) /\ q \in Caller
  BY DEF KindInv, Caller
<1>1. ASSUME UNCHANGED <<kind, hold>>, pc'[q] = pc[q]
      PROVE  RightKind(q)'
  BY <1>0, <1>1 DEF RightKind, Underway
<1>2. ASSUME NEW r \in Restart, PromptStep(r)
      PROVE  RightKind(q)'
  <2>1. r \in Caller
    BY DEF Caller
  <2>2. CASE r # q
    BY <1>0, <1>1, <1>2, <2>1, <2>2, PromptMoves
  <2>3. CASE r = q
    <3>1. /\ pc[q] \in {"accepted", "send", "fallback", "refuse", "wait"}
          /\ pc'[q] \in {"send", "wait", "done", "fallback", "refuse", "refused"}
          /\ UNCHANGED <<kind, hold>>
      BY <1>2, <2>1, <2>3, PromptMoves
    <3> QED
      BY <1>0, <3>1 DEF RightKind, Underway
  <2> QED
    BY <2>2, <2>3
<1>3. ASSUME NEW r \in Restart, RestartStep(r)
      PROVE  RightKind(q)'
  <2>1. r \in Caller
    BY DEF Caller
  <2>2. kind \in [Restart -> {"none", "handoff", "new"}] /\ hold \in [Restart -> Seq(Sent \cup {Prompt})]
    BY DEF TypeOK, CallTypes
  <2>3. CASE RestartSession(r) \/ RestartAborts(r) \/ RestartWaits(r)
    <3>1. /\ pc[r] \in {"unsent", "abort", "idle"} /\ UNCHANGED hold
          /\ kind' = IF pc[r] = "unsent" THEN [kind EXCEPT ![r] = "handoff"] ELSE kind
          /\ \E step \in {"abort", "idle", "take"} : Goto(r, step)
      BY <2>3 DEF RestartSession, RestartAborts, RestartWaits, At
    <3>2. /\ pc'[r] \in {"abort", "idle", "take"}
          /\ \A d \in Caller : d # r => pc'[d] = pc[d]
      BY <2>1, <3>1, Went DEF TypeOK
    <3> QED
      BY <1>0, <2>2, <3>1, <3>2 DEF RightKind, Underway
  <2>4. CASE TakePendingRestart(r)
    <3>1. /\ pc[r] = "take" /\ UNCHANGED kind
          /\ \/ pc'[r] = "done" /\ UNCHANGED hold
             \/ pc'[r] = "queues" /\ hold' = [hold EXCEPT ![r] = Carried]
          /\ \A d \in Caller : d # r => pc'[d] = pc[d]
      BY <2>1, <2>4, Went DEF TakePendingRestart, At, TypeOK
    <3> QED
      BY <1>0, <2>2, <3>1 DEF RightKind, Underway
  <2>5. CASE StartNew(r)
    <3>1. /\ pc[r] = "unsent" /\ kind' = [kind EXCEPT ![r] = "new"] /\ UNCHANGED hold
          /\ pc'[r] = "queues" /\ \A d \in Caller : d # r => pc'[d] = pc[d]
      BY <2>1, <2>5, Went DEF StartNew, At, TypeOK
    <3> QED
      BY <1>0, <2>2, <3>1 DEF RightKind, Underway
  <2>6. CASE TakeQueues(r)
    <3>1. /\ pc[r] \in {"queues", "again"} /\ UNCHANGED kind /\ hold' = [hold EXCEPT ![r] = @ \o Queued]
          /\ pc'[r] \in {"stop", "reset"} /\ \A d \in Caller : d # r => pc'[d] = pc[d]
      BY <2>1, <2>6, Went DEF TakeQueues, At, TypeOK
    <3> QED
      BY <1>0, <2>2, <3>1 DEF RightKind, Underway
  <2>7. CASE StopRun(r) \/ RunStopped(r) \/ NewTranscript(r)
    <3>1. /\ pc[r] \in {"stop", "stopped", "reset"} /\ UNCHANGED <<kind, hold>>
          /\ \E step \in {"stopped", "again", "erase"} : Goto(r, step)
      BY <2>7 DEF StopRun, RunStopped, NewTranscript, At
    <3>2. /\ pc'[r] \in {"stopped", "again", "erase"}
          /\ \A d \in Caller : d # r => pc'[d] = pc[d]
      BY <2>1, <3>1, Went DEF TypeOK
    <3> QED
      BY <1>0, <3>1, <3>2 DEF RightKind, Underway
  <2>8. CASE Erase(r)
    <3>1. /\ pc[r] = "erase" /\ UNCHANGED kind
          /\ \/ kind[r] = "new" /\ pc'[r] = "done" /\ hold' = [hold EXCEPT ![r] = <<>>]
             \/ kind[r] # "new" /\ pc'[r] = "prepend" /\ UNCHANGED hold
          /\ \A d \in Caller : d # r => pc'[d] = pc[d]
      BY <2>1, <2>8, Went DEF Erase, At, TypeOK
    <3> QED
      BY <1>0, <2>2, <3>1 DEF RightKind, Underway
  <2>9. CASE Brief(r)
    <3>1. /\ pc[r] = "prepend" /\ UNCHANGED <<kind, hold>>
          /\ pc'[r] = "carry" /\ \A d \in Caller : d # r => pc'[d] = pc[d]
      BY <2>1, <2>9, Went DEF Brief, At, TypeOK
    <3> QED
      BY <1>0, <3>1 DEF RightKind, Underway
  <2>10. CASE Carry(r)
    <3>1. /\ pc[r] = "carry" /\ UNCHANGED kind /\ hold' = [hold EXCEPT ![r] = <<>>]
          /\ pc'[r] = "prompt" /\ \A d \in Caller : d # r => pc'[d] = pc[d]
      BY <2>1, <2>10, Went DEF Carry, At, TypeOK
    <3> QED
      BY <1>0, <2>2, <3>1 DEF RightKind, Underway
  <2>11. CASE RestartPrompts(r)
    <3>1. /\ pc[r] = "prompt" /\ UNCHANGED <<kind, hold>>
          /\ \E step \in {"accepted", "refused"} : Goto(r, step)
      BY <2>11 DEF RestartPrompts, Accept, At
    <3>2. /\ pc'[r] \in {"accepted", "refused"}
          /\ \A d \in Caller : d # r => pc'[d] = pc[d]
      BY <2>1, <3>1, Went DEF TypeOK
    <3> QED
      BY <1>0, <3>1, <3>2 DEF RightKind, Underway
  <2> QED
    BY <1>3, <2>3, <2>4, <2>5, <2>6, <2>7, <2>8, <2>9, <2>10, <2>11 DEF RestartStep
<1> QED
  BY <1>1, <1>2, <1>3, RestartSteps

LEMMA RunsBegin ==
  ASSUME TypeOK, [Next]_vars
  PROVE  /\ raced => raced'
         /\ Streaming' /\ ~Streaming =>
              /\ raced' \/ \A r \in Restart : ~Resetting(r)
              /\ UNCHANGED kind
              /\ \A r \in Restart : pc'[r] = pc[r] \/ pc'[r] = "wait"
<1> USE DEF TypeOK
<1>1. raced => raced'
  <2>1. CASE UNCHANGED raced
    BY <2>1
  <2>2. ASSUME NEW ms, BeginRun(ms) PROVE raced => raced'
    BY <2>2 DEF BeginRun
  <2>3. \/ UNCHANGED raced
        \/ \E c \in Caller : BeginRun(<<Text(c)>>)
        \/ \E m \in Message : BeginRun(<<m>>)
    <3>1. CASE UNCHANGED vars
      BY <3>1 DEF vars, monitors
    <3>2. CASE Agent
      BY <3>2 DEF Agent, RunStarts, Deliver, ModelReplies, ToolsEnd, Settle, RunEnds, AgentIdles, monitors
    <3>3. CASE Dequeue \/ Escape \/ SetModel \/ Persist \/ \E c \in Context : PrependContext(c)
      BY <3>3 DEF Dequeue, Escape, SetModel, Persist, PrependContext, monitors
    <3>4. CASE \E m \in Message : Submit(m) \/ SendUserMessage(m) \/ Queue(m) \/ Inject(m) \/ InjectedRun(m)
      <4>1. PICK m \in Message : Submit(m) \/ SendUserMessage(m) \/ Queue(m) \/ Inject(m) \/ InjectedRun(m)
        BY <3>4
      <4>2. UNCHANGED raced \/ BeginRun(<<m>>)
        BY <4>1 DEF Submit, SendUserMessage, Queue, Inject, InjectedRun, monitors
      <4> QED
        BY <4>2
    <3>5. CASE \E c \in Caller : PromptStep(c)
      BY <3>5 DEF PromptStep, CheckStreaming, Send, Fallback, Refuse, WaitForIdle, monitors
    <3>6. CASE \E r \in Restart : RestartStep(r)
      <4>1. UNCHANGED raced
        BY <3>6 DEF RestartStep, RestartSession, RestartAborts, RestartWaits, TakePendingRestart,
           StartNew, TakeQueues, StopRun, RunStopped, NewTranscript, Erase, Brief, Carry,
           RestartPrompts, monitors
      <4> QED
        BY <4>1
    <3> QED
      BY <3>1, <3>2, <3>3, <3>4, <3>5, <3>6 DEF Next
  <2> QED
    BY <2>2, <2>3
<1>2. ASSUME Streaming', ~Streaming
      PROVE  /\ raced' \/ \A r \in Restart : ~Resetting(r)
             /\ UNCHANGED kind
             /\ \A r \in Restart : pc'[r] = pc[r] \/ pc'[r] = "wait"
  <2>1. PICK c \in Caller : /\ BeginRun(<<Text(c)>>) /\ CanRun
                            /\ Send(c) \/ (c \in Message /\ InjectedRun(c))
    <3>1. loop' # loop /\ loop = "none"
      BY <1>2 DEF Streaming
    <3>2. ~Agent
      BY <3>1 DEF Agent, RunStarts, Deliver, ModelReplies, ToolsEnd, Settle, RunEnds, AgentIdles
    <3>3. \A r \in Restart : ~Erase(r)
      BY <3>1 DEF Erase
    <3> QED
      BY <3>1, <3>2, <3>3, ConversationSteps DEF convVars
  <2>2. raced' \/ \A r \in Restart : ~Resetting(r)
    BY <2>1 DEF BeginRun
  <2>3. UNCHANGED kind
    BY <2>1 DEF Send, InjectedRun
  <2>4. Goto(c, "wait") \/ (c \in Message /\ Goto(c, "done"))
    BY <2>1 DEF Send, InjectedRun
  <2>5. \A r \in Restart : r \in Caller /\ r \notin Message
    BY Kinds DEF Caller
  <2>6. \A r \in Restart : pc'[r] = pc[r] \/ pc'[r] = "wait"
    BY <2>4, <2>5, Went
  <2> QED
    BY <2>2, <2>3, <2>6
<1> QED
  BY <1>1, <1>2

LEMMA QuietStep ==
  ASSUME TypeOK, KindInv, QuietInv, [Next]_vars
  PROVE  QuietInv'
<1> SUFFICES ASSUME ~raced', NEW q \in Restart, Quiet(q)', Streaming' PROVE FALSE
  BY DEF QuietInv
<1>1. ~raced /\ q \in Caller
  BY RunsBegin DEF Caller
<1>2. Streaming
  <2> SUFFICES ASSUME ~Streaming PROVE FALSE
    OBVIOUS
  <2>1. ~Resetting(q) /\ UNCHANGED kind /\ (pc'[q] = pc[q] \/ pc'[q] = "wait")
    BY RunsBegin
  <2> QED
    BY <2>1 DEF Quiet, Leaving, Resetting
<1>3. ~Quiet(q)
  BY <1>1, <1>2 DEF QuietInv
<1>4. ~(kind'[q] = kind[q] /\ pc'[q] = pc[q])
  BY <1>3 DEF Quiet, Leaving
<1>5. PICK r \in Restart : PromptStep(r) \/ RestartStep(r)
  BY <1>4, RestartSteps
<1>6. r \in Caller
  BY DEF Caller
<1>7. ~PromptStep(r)
  <2> SUFFICES ASSUME PromptStep(r) PROVE FALSE
    OBVIOUS
  <2>1. /\ pc'[r] \in {"send", "wait", "done", "fallback", "refuse", "refused"}
        /\ \A d \in Caller : d # r => pc'[d] = pc[d]
        /\ UNCHANGED kind
    BY <1>6, PromptMoves
  <2> QED
    BY <1>1, <1>4, <2>1 DEF Quiet, Leaving
<1>8. kind \in [Restart -> {"none", "handoff", "new"}] /\ CallTypes
  BY DEF TypeOK, CallTypes
<1>9. ASSUME NEW step, Goto(r, step), UNCHANGED kind, step \notin {"take", "again", "reset", "erase"},
             Quiet(r) \/ step \notin {"queues", "stop", "stopped"}
      PROVE  FALSE
  <2>1. pc'[r] = step /\ \A d \in Caller : d # r => pc'[d] = pc[d]
    BY <1>6, <1>8, <1>9, Went
  <2> QED
    BY <1>1, <1>3, <1>4, <1>9, <2>1 DEF Quiet, Leaving
<1>10. ASSUME NEW step, Goto(r, step), UNCHANGED kind, Quiet(r) \/ (kind[r] = "new" /\ step \in {"stop", "stopped"})
       PROVE  FALSE
  <2>1. pc'[r] = step /\ \A d \in Caller : d # r => pc'[d] = pc[d]
    BY <1>6, <1>8, <1>10, Went
  <2> QED
    BY <1>1, <1>3, <1>4, <1>10, <2>1 DEF Quiet, Leaving
<1>11. kind[r] \in {"none", "handoff", "new"} /\ RightKind(r)
  BY <1>8 DEF KindInv
<1>12. ~RestartSession(r) /\ ~StartNew(r)
  <2>1. ASSUME RestartSession(r) \/ StartNew(r) PROVE FALSE
    <3>1. \/ Goto(r, "abort") /\ kind' = [kind EXCEPT ![r] = "handoff"]
          \/ Goto(r, "queues") /\ kind' = [kind EXCEPT ![r] = "new"]
      BY <2>1 DEF RestartSession, StartNew
    <3>2. pc'[r] = "abort" \/ (pc'[r] = "queues" /\ kind'[r] = "new")
      BY <1>6, <1>8, <3>1, Went
    <3>3. q # r => kind'[q] = kind[q] /\ pc'[q] = pc[q]
      BY <1>1, <1>6, <1>8, <3>1, Went
    <3> QED
      BY <1>4, <3>2, <3>3 DEF Quiet, Leaving
  <2> QED
    BY <2>1
<1>13. ~RestartAborts(r) /\ ~Brief(r) /\ ~Carry(r) /\ ~RestartPrompts(r)
  <2>1. ASSUME RestartAborts(r) \/ Brief(r) \/ Carry(r) \/ RestartPrompts(r) PROVE FALSE
    <3>1. /\ UNCHANGED kind
          /\ \E step \in {"idle", "carry", "prompt", "accepted", "refused"} : Goto(r, step)
      BY <2>1 DEF RestartAborts, Brief, Carry, RestartPrompts, Accept
    <3> QED
      BY <3>1, <1>9
  <2> QED
    BY <2>1
<1>14. ~RestartWaits(r) /\ ~RunStopped(r)
  BY <1>2 DEF RestartWaits, RunStopped
<1>15. ~TakePendingRestart(r) /\ ~NewTranscript(r) /\ ~Erase(r)
  <2>1. ASSUME TakePendingRestart(r) \/ NewTranscript(r) \/ Erase(r) PROVE FALSE
    <3>1. /\ UNCHANGED kind /\ pc[r] \in {"take", "reset", "erase"}
          /\ \E step \in {"done", "queues", "erase", "prepend"} : Goto(r, step)
      BY <2>1 DEF TakePendingRestart, NewTranscript, Erase, At
    <3> QED
      BY <3>1, <1>10 DEF Quiet
  <2> QED
    BY <2>1
<1>16. ~TakeQueues(r) /\ ~StopRun(r)
  <2>1. ASSUME TakeQueues(r) \/ StopRun(r) PROVE FALSE
    <3>1. /\ UNCHANGED kind
          /\ \/ pc[r] = "again" /\ Goto(r, "reset")
             \/ pc[r] = "queues" /\ Goto(r, "stop")
             \/ pc[r] = "stop" /\ Goto(r, "stopped")
      BY <1>2, <2>1 DEF TakeQueues, StopRun, At
    <3>2. pc[r] \in {"queues", "stop"} => kind[r] = "new" \/ Leaving(r)
      BY <1>11 DEF Leaving, RightKind
    <3> QED
      BY <3>1, <3>2, <1>10 DEF Quiet
  <2> QED
    BY <2>1
<1> QED
  BY <1>5, <1>7, <1>12, <1>13, <1>14, <1>15, <1>16 DEF RestartStep

LEMMA InitQuiet == Init => KindInv /\ QuietInv
BY DEF Init, KindInv, RightKind, QuietInv, Streaming, Caller

-----------------------------------------------------------------------------
(* What a reload replays.                                                   *)

LEMMA ReplayedEmpty == Replayed(<<>>) = <<>>
<1>1. <<>> \in Seq(Item)
  BY SeqOps
<1>2. /\ NoReply(<<>>) \subseteq 1 .. Len(<<>>) /\ Replayed(<<>>) \in Seq(Item \ Reply)
      /\ Len(Replayed(<<>>)) = Cardinality(NoReply(<<>>))
  BY <1>1, ReplayedType
<1>3. NoReply(<<>>) = {}
  BY DEF NoReply
<1>4. Len(Replayed(<<>>)) = 0
  BY <1>2, <1>3, FS_EmptySet
<1> QED
  BY <1>2, <1>4, EmptySeq

\* Of more items that are no replies, the replay shows them all.
LEMMA ReplayedConcat ==
  ASSUME NEW T, NEW h \in Seq(T), NEW t \in Seq(T \ Reply)
  PROVE  Replayed(h \o t) = Replayed(h) \o t
<1> DEFINE n == Len(h)
           k == Len(t)
           g == h \o t
           P == NoReply(h)
           Q == NoReply(g)
           c == Cardinality(P)
<1>0. t \in Seq(T)
  BY SeqMonotonic
<1>1. /\ n \in Nat /\ k \in Nat /\ DOMAIN h = 1 .. n /\ DOMAIN t = 1 .. k
      /\ g \in Seq(T) /\ DOMAIN g = 1 .. n + k
      /\ \A i \in 1 .. n : g[i] = h[i]
      /\ \A i \in 1 .. k : g[n + i] = t[i] /\ t[i] \notin Reply /\ n + i \in 1 .. n + k
  <2>1. /\ n \in Nat /\ k \in Nat /\ DOMAIN h = 1 .. n /\ DOMAIN t = 1 .. k
        /\ g \in Seq(T) /\ DOMAIN g = 1 .. n + k
        /\ \A i \in 1 .. n + k : g[i] = IF i <= n THEN h[i] ELSE t[i - n]
    BY <1>0, ConcatProperties, LenProperties
  <2>2. \A i \in 1 .. n : g[i] = h[i]
    BY <2>1
  <2>3. ASSUME NEW i \in 1 .. k
        PROVE  g[n + i] = t[i] /\ t[i] \notin Reply /\ n + i \in 1 .. n + k
    <3>1. n + i \in 1 .. n + k /\ ~(n + i <= n) /\ (n + i) - n = i
      BY <2>1
    <3>2. t[i] \in T \ Reply
      BY <2>1, ElementOfSeq
    <3> QED
      BY <2>1, <3>1, <3>2
  <2> QED
    BY <2>1, <2>2, <2>3
<1>2. /\ P \in SUBSET Nat /\ IsFiniteSet(P) /\ P \subseteq 1 .. n /\ c \in Nat
      /\ Replayed(h) = Pick(h, P) /\ Replayed(h) \in Seq(T) /\ Len(Replayed(h)) = c
  <2>1. /\ P \in SUBSET Nat /\ IsFiniteSet(P) /\ P \subseteq 1 .. n
        /\ Replayed(h) = Pick(h, P) /\ Replayed(h) \in Seq(T \ Reply) /\ Len(Replayed(h)) = c
    BY ReplayedType
  <2>2. Replayed(h) \in Seq(T)
    BY <2>1, SeqMonotonic
  <2> QED
    BY <2>1, <2>2, FS_CardinalityType
<1>3. /\ Q \in SUBSET Nat /\ IsFiniteSet(Q)
      /\ Replayed(g) = Pick(g, Q) /\ Replayed(g) \in Seq(T) /\ Len(Replayed(g)) = Cardinality(Q)
  <2>1. /\ Q \in SUBSET Nat /\ IsFiniteSet(Q)
        /\ Replayed(g) = Pick(g, Q) /\ Replayed(g) \in Seq(T \ Reply)
        /\ Len(Replayed(g)) = Cardinality(Q)
    BY <1>1, ReplayedType
  <2>2. Replayed(g) \in Seq(T)
    BY <2>1, SeqMonotonic
  <2> QED
    BY <2>1, <2>2
<1>4. Q = P \cup (n + 1 .. n + k)
  <2>1. \A i \in 1 .. n + k : i \in Q <=> g[i] \notin Reply
    BY <1>1 DEF NoReply
  <2>2. \A i \in 1 .. n : i \in P <=> h[i] \notin Reply
    BY <1>1 DEF NoReply
  <2>3. Q \subseteq 1 .. n + k
    BY <1>1 DEF NoReply
  <2> HIDE DEF P, Q, g
  <2>4. ASSUME NEW i \in 1 .. n + k
        PROVE  i \in Q <=> i \in P \cup (n + 1 .. n + k)
    <3>1. CASE i \in 1 .. n
      BY <1>1, <2>1, <2>2, <3>1
    <3>2. CASE i \in n + 1 .. n + k
      <4>1. i - n \in 1 .. k /\ n + (i - n) = i
        BY <1>1, <3>2
      <4>2. g[i] \notin Reply
        BY <1>1, <4>1
      <4> QED
        BY <2>1, <3>2, <4>2
    <3> QED
      BY <1>1, <3>1, <3>2
  <2>5. P \cup (n + 1 .. n + k) \subseteq 1 .. n + k
    <3>1. (n + 1 .. n + k) \subseteq 1 .. n + k /\ 1 .. n \subseteq 1 .. n + k
      BY <1>1
    <3>2. P \subseteq 1 .. n
      BY <1>2
    <3> QED
      BY <3>1, <3>2
  <2> QED
    BY <2>3, <2>4, <2>5
<1>5. \A p \in P : Rank(Q, p) = Rank(P, p) /\ p \in Q /\ g[p] = h[p]
  <2> SUFFICES ASSUME NEW p \in P
               PROVE  Rank(Q, p) = Rank(P, p) /\ p \in Q /\ g[p] = h[p]
    OBVIOUS
  <2>1. p \in 1 .. n
    BY <1>2
  <2>2. \A q \in n + 1 .. n + k : ~ (q < p)
    BY <1>1, <2>1
  <2> HIDE DEF P, Q, g
  <2>3. {q \in Q : q < p} = {q \in P : q < p}
    BY <1>4, <2>2
  <2> QED
    BY <1>1, <1>4, <2>1, <2>3 DEF Rank
<1> HIDE DEF P, Q, g
<1>6. \A i \in 1 .. c : i \in 1 .. Cardinality(Q) /\ Pick(g, Q)[i] = Pick(h, P)[i]
  <2> SUFFICES ASSUME NEW i \in 1 .. c
               PROVE  i \in 1 .. Cardinality(Q) /\ Pick(g, Q)[i] = Pick(h, P)[i]
    OBVIOUS
  <2>1. Nth(P, i) \in P /\ Rank(P, Nth(P, i)) = i - 1
    BY <1>2, NthIsRanked
  <2>2. Nth(P, i) \in Q /\ Rank(Q, Nth(P, i)) = i - 1
    BY <1>5, <2>1
  <2>3. (i - 1) + 1 = i
    BY <1>2
  <2>4. i \in 1 .. Cardinality(Q) /\ Nth(Q, i) = Nth(P, i)
    BY <1>3, <2>2, <2>3, NthIsRanked
  <2>5. /\ Pick(h, P) = [j \in 1 .. Cardinality(P) |-> h[Nth(P, j)]]
        /\ Pick(g, Q) = [j \in 1 .. Cardinality(Q) |-> g[Nth(Q, j)]]
    BY DEF Pick, Nth
  <2>6. Pick(h, P)[i] = h[Nth(P, i)] /\ Pick(g, Q)[i] = g[Nth(Q, i)]
    BY <2>4, <2>5
  <2> QED
    BY <1>5, <2>1, <2>4, <2>6
<1>7. \A i \in 0 .. k : Cardinality(P \cup (n + 1 .. n + i)) = c + i
  <2> SUFFICES ASSUME NEW i \in 0 .. k
               PROVE  Cardinality(P \cup (n + 1 .. n + i)) = c + i
    OBVIOUS
  <2>1. IsFiniteSet(n + 1 .. n + i) /\ Cardinality(n + 1 .. n + i) = i
    <3>1. /\ IsFiniteSet(n + 1 .. n + i)
          /\ Cardinality(n + 1 .. n + i) = IF n + 1 > n + i THEN 0 ELSE (n + i) - (n + 1) + 1
      <4>1. n + 1 \in Int /\ n + i \in Int
        BY <1>1
      <4> QED
        BY <4>1, FS_Interval
    <3> QED
      BY <1>1, <3>1
  <2>2. P \cap (n + 1 .. n + i) = {}
    BY <1>1, <1>2
  <2>3. Cardinality(P \cup (n + 1 .. n + i)) = Cardinality(P) + Cardinality(n + 1 .. n + i) - Cardinality({})
    <3> DEFINE B == n + 1 .. n + i
    <3>1. IsFiniteSet(B) /\ IsFiniteSet(P) /\ P \cap B = {}
      BY <1>2, <2>1, <2>2
    <3> HIDE DEF B
    <3>2. Cardinality(P \cup B) = Cardinality(P) + Cardinality(B) - Cardinality(P \cap B)
      BY <3>1, FS_Union
    <3>3. Cardinality(P \cup B) = Cardinality(P) + Cardinality(B) - Cardinality({})
      BY <3>1, <3>2
    <3> QED
      BY <3>3 DEF B
  <2> QED
    BY <1>2, <2>1, <2>3, FS_EmptySet
<1>8. Cardinality(Q) = c + k
  BY <1>1, <1>4, <1>7
<1>9. \A i \in 1 .. k : Pick(g, Q)[c + i] = t[i]
  <2> SUFFICES ASSUME NEW i \in 1 .. k PROVE Pick(g, Q)[c + i] = t[i]
    OBVIOUS
  <2>1. n + i \in Q
    BY <1>1, <1>4
  <2>2. {q \in Q : q < n + i} = P \cup (n + 1 .. n + (i - 1))
    <3>1. \A p \in P : p < n + i
      BY <1>1, <1>2
    <3>2. \A q \in n + 1 .. n + k : q < n + i <=> q \in n + 1 .. n + (i - 1)
      BY <1>1
    <3>3. n + 1 .. n + (i - 1) \subseteq n + 1 .. n + k
      BY <1>1
    <3> QED
      BY <1>4, <3>1, <3>2, <3>3
  <2>3. Rank(Q, n + i) = c + (i - 1)
    <3>1. i - 1 \in 0 .. k
      BY <1>1
    <3> QED
      BY <1>7, <2>2, <3>1 DEF Rank
  <2>4. (c + (i - 1)) + 1 = c + i
    BY <1>2
  <2>5. c + i \in 1 .. Cardinality(Q) /\ Nth(Q, c + i) = n + i
    BY <1>3, <2>1, <2>3, <2>4, NthIsRanked
  <2>6. Pick(g, Q) = [j \in 1 .. Cardinality(Q) |-> g[Nth(Q, j)]]
    BY DEF Pick, Nth
  <2> QED
    BY <1>1, <2>5, <2>6
<1>10. /\ Replayed(h) \o t \in Seq(T) /\ Len(Replayed(h) \o t) = c + k
       /\ \A i \in 1 .. c + k : (Replayed(h) \o t)[i] = IF i <= c THEN Replayed(h)[i] ELSE t[i - c]
  BY <1>0, <1>2, ConcatProperties
<1>11. \A i \in 1 .. c + k : Replayed(g)[i] = (Replayed(h) \o t)[i]
  <2> SUFFICES ASSUME NEW i \in 1 .. c + k
               PROVE  Replayed(g)[i] = (Replayed(h) \o t)[i]
    OBVIOUS
  <2>1. CASE i <= c
    <3>1. i \in 1 .. c
      BY <1>1, <1>2, <2>1
    <3> QED
      BY <1>2, <1>3, <1>6, <1>10, <3>1, <2>1
  <2>2. CASE ~(i <= c)
    <3>1. i - c \in 1 .. k /\ c + (i - c) = i
      BY <1>1, <1>2, <2>2
    <3>2. Pick(g, Q)[i] = t[i - c]
      BY <1>9, <3>1
    <3> QED
      BY <1>3, <1>10, <2>2, <3>2
  <2> QED
    BY <2>1, <2>2
<1>12. Replayed(g) = Replayed(h) \o t
  BY <1>3, <1>8, <1>10, <1>11, SeqEqual
<1> QED
  BY <1>12 DEF g

-----------------------------------------------------------------------------
(* The transcript and the history.                                          *)

LEMMA StaysErasing ==
  ASSUME CallTypes, NEW c \in Caller, NEW step, Goto(c, step), step # "erase", pc[c] # "erase"
  PROVE  Erasing' <=> Erasing
<1>1. /\ pc'[c] = step /\ \A d \in Caller : d # c => pc'[d] = pc[d]
      /\ Restart \subseteq Caller
  BY Went DEF Caller
<1>2. \A r \in Restart : pc'[r] = "erase" <=> pc[r] = "erase"
  BY <1>1
<1> QED
  BY <1>2 DEF Erasing

LEMMA BehindStays ==
  ASSUME TypeOK, [Next]_vars
  PROVE  (raced => raced') /\ (behind => behind')
<1>1. raced => raced'
  BY RunsBegin
<1>2. CASE UNCHANGED vars
  BY <1>1, <1>2 DEF vars, monitors
<1>3. CASE Agent
  <2>1. UNCHANGED behind
    BY <1>3 DEF Agent, RunStarts, Deliver, ModelReplies, ToolsEnd, Settle, RunEnds, AgentIdles, monitors
  <2> QED
    BY <1>1, <2>1
<1>4. CASE Dequeue \/ Escape \/ SetModel \/ Persist
  <2>1. UNCHANGED behind
    BY <1>4 DEF Dequeue, Escape, SetModel, Persist, monitors
  <2> QED
    BY <1>1, <2>1
<1>5. CASE \E c \in Context : PrependContext(c)
  BY <1>1, <1>5 DEF PrependContext, Prepend
<1>6. CASE \E m \in Message : Submit(m) \/ SendUserMessage(m) \/ Queue(m) \/ Inject(m) \/ InjectedRun(m)
  BY <1>1, <1>6 DEF Submit, SendUserMessage, Queue, Inject, InjectedRun, BeginRun, monitors
<1>7. CASE \E c \in Caller : PromptStep(c)
  <2>1. PICK c \in Caller : PromptStep(c)
    BY <1>7
  <2>2. CASE Send(c)
    BY <1>1, <2>2 DEF Send, BeginRun
  <2>3. CASE CheckStreaming(c) \/ Fallback(c) \/ Refuse(c) \/ WaitForIdle(c)
    <3>1. UNCHANGED behind
      BY <2>3 DEF CheckStreaming, Fallback, Refuse, WaitForIdle, monitors
    <3> QED
      BY <1>1, <3>1
  <2> QED
    BY <2>1, <2>2, <2>3 DEF PromptStep
<1>8. CASE \E r \in Restart : RestartStep(r)
  <2>1. PICK r \in Restart : RestartStep(r)
    BY <1>8
  <2>2. CASE Brief(r) \/ NewTranscript(r)
    <3>1. CASE behind' = behind
      BY <1>1, <3>1
    <3>2. CASE behind' = (behind \/ \E q \in Restart : pc[q] = "erase")
      BY <1>1, <3>2
    <3>3. CASE behind' = (behind \/ persisting # None)
      BY <1>1, <3>3
    <3> QED
      BY <2>2, <3>1, <3>2, <3>3 DEF Brief, Prepend, NewTranscript
  <2>3. CASE ~Brief(r) /\ ~NewTranscript(r)
    BY <1>1, <2>1, <2>3 DEF RestartStep, RestartSession, RestartAborts, RestartWaits, TakePendingRestart,
       StartNew, TakeQueues, StopRun, RunStopped, Erase, Carry, RestartPrompts, monitors
  <2> QED
    BY <2>2, <2>3
<1> QED
  BY <1>2, <1>3, <1>4, <1>5, <1>6, <1>7, <1>8 DEF Next

LEMMA ReplayStep ==
  ASSUME TypeOK, QuietInv, ReplayInv, [Next]_vars
  PROVE  ReplayInv'
<1> USE DEF TypeOK
<1> SUFFICES ASSUME ~raced', ~behind' PROVE ReplayInv'
  BY DEF ReplayInv
<1>0. /\ ~raced /\ ~behind
      /\ persisting # None => loop \in {"none", "ended"}
      /\ Erasing => transcript = <<>> /\ persisting = None
      /\ ~Erasing => Replayed(history) = IF persisting = None THEN transcript ELSE Append(transcript, persisting)
      /\ Erasing => ~Streaming
  <2>1. ~raced /\ ~behind
    BY BehindStays
  <2>2. Erasing => ~Streaming
    BY <2>1 DEF QuietInv, Quiet, Erasing
  <2> QED
    BY <2>1, <2>2 DEF ReplayInv
<1>1. ASSUME UNCHANGED <<history, transcript, persisting>>, Erasing' <=> Erasing,
             persisting # None => loop' \in {"none", "ended"}
      PROVE  ReplayInv'
  BY <1>0, <1>1 DEF ReplayInv
<1>2. ASSUME UNCHANGED <<history, transcript, persisting, loop>>, Erasing' <=> Erasing
      PROVE  ReplayInv'
  BY <1>0, <1>1, <1>2
<1>3. CASE UNCHANGED vars
  <2>1. UNCHANGED <<history, transcript, persisting, loop, pc>>
    BY <1>3 DEF vars, agentVars, contextVars, callVars
  <2> QED
    BY <1>2, <2>1 DEF Erasing
<1>4. CASE Agent
  <2>0. Erasing' <=> Erasing
    BY <1>4 DEF Erasing, Agent, RunStarts, Deliver, ModelReplies, ToolsEnd, Settle, RunEnds, AgentIdles, callVars
  <2>1. CASE RunStarts \/ ToolsEnd \/ Settle
    <3>1. UNCHANGED <<history, transcript, persisting>> /\ loop \notin {"none", "ended"}
      BY <2>1 DEF RunStarts, ToolsEnd, Settle, contextVars
    <3> QED
      BY <1>0, <1>1, <2>0, <3>1
  <2>2. CASE AgentIdles
    BY <1>1, <2>0, <2>2 DEF AgentIdles, contextVars
  <2>3. CASE Deliver
    <3>1. /\ loop = "deliver" /\ input # <<>> /\ persisting' = persisting
          /\ history' = Append(history, Head(input)) /\ transcript' = Append(transcript, Head(input))
      BY <2>3 DEF Deliver
    <3>2. persisting = None /\ ~Erasing
      BY <1>0, <3>1 DEF Streaming
    <3>3. Head(input) \in Item \ Reply /\ history \in Seq(Item)
      BY <3>1, SeqOps DEF AgentTypes
    <3>4. Replayed(Append(history, Head(input))) = Append(Replayed(history), Head(input))
      BY <3>3, ReplayedAppend
    <3> QED
      BY <1>0, <2>0, <3>1, <3>2, <3>4 DEF ReplayInv
  <2>4. CASE ModelReplies
    <3>1. PICK reply \in {"answer", "tool", "failed", "aborted"} : history' = Append(history, [reply |-> reply])
      BY <2>4 DEF ModelReplies
    <3>2. loop = "request" /\ UNCHANGED <<transcript, persisting>>
      BY <2>4 DEF ModelReplies, contextVars
    <3>3. persisting = None /\ ~Erasing
      BY <1>0, <3>2 DEF Streaming
    <3>4. [reply |-> reply] \in Reply /\ [reply |-> reply] \in Item /\ history \in Seq(Item)
      BY DEF Reply, Item, AgentTypes
    <3>5. Replayed(Append(history, [reply |-> reply])) = Replayed(history)
      BY <3>4, ReplayedAppend
    <3> QED
      BY <1>0, <2>0, <3>1, <3>2, <3>3, <3>5 DEF ReplayInv
  <2>5. CASE RunEnds
    <3>1. /\ loop = "end" /\ persisting' = persisting
          /\ history' = history \o contexts /\ transcript' = transcript \o contexts
      BY <2>5 DEF RunEnds
    <3>2. persisting = None /\ ~Erasing
      BY <1>0, <3>1 DEF Streaming
    <3>3. contexts \in Seq(Item \ Reply) /\ history \in Seq(Item)
      BY SeqKinds DEF AgentTypes
    <3>4. Replayed(history \o contexts) = Replayed(history) \o contexts
      BY <3>3, ReplayedConcat
    <3> QED
      BY <1>0, <2>0, <3>1, <3>2, <3>4 DEF ReplayInv
  <2> QED
    BY <1>4, <2>1, <2>2, <2>3, <2>4, <2>5 DEF Agent
<1>5. ASSUME NEW ms, BeginRun(ms), UNCHANGED <<history, transcript, persisting>>, Erasing' <=> Erasing
      PROVE  ReplayInv'
  <2>1. persisting = None
    BY <1>5 DEF BeginRun
  <2> QED
    BY <1>1, <1>5, <2>1
<1>6. ASSUME NEW c \in Caller, NEW step, Goto(c, step), step # "erase", pc[c] # "erase"
      PROVE  Erasing' <=> Erasing
  BY <1>6, StaysErasing
<1>7. ASSUME NEW c \in Caller, PromptStep(c)
      PROVE  ReplayInv'
  <2>1. Erasing' <=> Erasing
    <3>1. pc[c] # "erase" /\ \E step \in Place \ {"erase"} : Goto(c, step)
      BY <1>7, Places DEF PromptStep, CheckStreaming, Send, Fallback, Refuse, WaitForIdle, At
    <3> QED
      BY <1>6, <3>1
  <2>2. CASE Send(c)
    <3>1. UNCHANGED <<history, transcript, persisting>> /\ (BeginRun(<<Text(c)>>) \/ UNCHANGED loop)
      BY <2>2 DEF Send, contextVars
    <3> QED
      BY <1>2, <1>5, <2>1, <3>1
  <2>3. CASE CheckStreaming(c) \/ Fallback(c) \/ Refuse(c) \/ WaitForIdle(c)
    <3>1. UNCHANGED <<history, transcript, persisting, loop>>
      BY <2>3 DEF CheckStreaming, Fallback, Refuse, WaitForIdle, agentVars, contextVars
    <3> QED
      BY <1>2, <2>1, <3>1
  <2> QED
    BY <1>7, <2>2, <2>3 DEF PromptStep
<1>8. ASSUME NEW m \in Message, Submit(m) \/ SendUserMessage(m) \/ Queue(m) \/ Inject(m) \/ InjectedRun(m)
      PROVE  ReplayInv'
  <2> m \in Caller
    BY DEF Caller
  <2>1. Erasing' <=> Erasing
    <3>1. pc[m] # "erase" /\ \E step \in Place \ {"erase"} : Goto(m, step)
      BY <1>8, Places DEF Submit, Accept, SendUserMessage, Queue, Inject, InjectedRun, At
    <3> QED
      BY <1>6, <3>1
  <2>2. CASE InjectedRun(m)
    <3>1. UNCHANGED <<history, transcript, persisting>> /\ (BeginRun(<<m>>) \/ UNCHANGED loop)
      BY <2>2 DEF InjectedRun, contextVars
    <3> QED
      BY <1>2, <1>5, <2>1, <3>1
  <2>3. CASE Submit(m) \/ SendUserMessage(m) \/ Queue(m) \/ Inject(m)
    <3>1. UNCHANGED <<history, transcript, persisting, loop>>
      BY <2>3 DEF Submit, SendUserMessage, Queue, Inject, agentVars, contextVars
    <3> QED
      BY <1>2, <2>1, <3>1
  <2> QED
    BY <1>8, <2>2, <2>3
<1>9. CASE Dequeue \/ Escape \/ SetModel
  <2>1. UNCHANGED <<history, transcript, persisting, loop, pc>>
    BY <1>9 DEF Dequeue, Escape, SetModel, contextVars, callVars
  <2> QED
    BY <1>2, <2>1 DEF Erasing
<1>10. CASE Persist
  <2>1. /\ persisting # None /\ persisting' = None /\ transcript' = Append(transcript, persisting)
        /\ UNCHANGED <<history, pc>>
    BY <1>10 DEF Persist, agentVars, callVars
  <2>2. ~Erasing /\ ~Erasing'
    BY <1>0, <2>1 DEF Erasing
  <2> QED
    BY <1>0, <2>1, <2>2 DEF ReplayInv
<1>11. ASSUME NEW c \in Context, Prepend(c), UNCHANGED <<loop, transcript>>, Erasing' <=> Erasing
       PROVE  ReplayInv'
  <2>1. CASE UNCHANGED <<history, persisting>>
    BY <1>2, <1>11, <2>1
  <2>2. CASE ~UNCHANGED <<history, persisting>>
    <3>1. /\ persisting = None /\ history' = Append(history, c) /\ persisting' = c
          /\ ~Streaming \/ loop = "ended"
          /\ behind' = (behind \/ Erasing)
      BY <1>11, <2>2 DEF Prepend, Erasing
    <3>2. c \in Item \ Reply /\ c # None /\ history \in Seq(Item)
      BY Kinds DEF Item, AgentTypes
    <3>3. Replayed(Append(history, c)) = Append(Replayed(history), c)
      BY <3>2, ReplayedAppend
    <3>4. ~Erasing /\ loop' \in {"none", "ended"}
      BY <1>11, <3>1 DEF Streaming
    <3> QED
      BY <1>0, <1>11, <3>1, <3>2, <3>3, <3>4 DEF ReplayInv
  <2> QED
    BY <2>1, <2>2
<1>12. ASSUME NEW c \in Context, PrependContext(c)
       PROVE  ReplayInv'
  BY <1>11, <1>12 DEF PrependContext, Erasing, callVars
<1>13. ASSUME NEW r \in Restart, RestartStep(r)
       PROVE  ReplayInv'
  <2> r \in Caller
    BY DEF Caller
  <2>1. CASE NewTranscript(r)
    <3>1. /\ transcript' = <<>> /\ persisting = None /\ UNCHANGED persisting /\ Goto(r, "erase")
      BY <2>1 DEF NewTranscript, contextVars
    <3>2. Erasing'
      BY <3>1, Went DEF Erasing
    <3> QED
      BY <3>1, <3>2 DEF ReplayInv
  <2>2. CASE Erase(r)
    <3>1. Erasing
      BY <2>2 DEF Erase, At, Erasing
    <3>2. history' = <<>> /\ UNCHANGED <<transcript, persisting>>
      BY <2>2 DEF Erase, contextVars
    <3> QED
      BY <1>0, <3>1, <3>2, ReplayedEmpty DEF ReplayInv
  <2>3. CASE ~NewTranscript(r) /\ ~Erase(r)
    <3>1. Erasing' <=> Erasing
      <4>1. pc[r] # "erase" /\ \E step \in Place \ {"erase"} : Goto(r, step)
        BY <1>13, <2>3, Places DEF RestartStep, RestartSession, RestartAborts, RestartWaits,
           TakePendingRestart, StartNew, TakeQueues, StopRun, RunStopped, Brief, Carry,
           RestartPrompts, Accept, At
      <4> QED
        BY <1>6, <4>1
    <3>2. CASE Brief(r)
      <4>1. UNCHANGED <<loop, transcript>> /\ (Prepend(Briefing) \/ UNCHANGED <<history, persisting>>)
        BY <3>2 DEF Brief
      <4> QED
        BY <1>2, <1>11, <3>1, <4>1, Kinds
    <3>3. CASE ~Brief(r)
      <4>1. UNCHANGED <<history, transcript, persisting, loop>>
        BY <1>13, <2>3, <3>3 DEF RestartStep, RestartSession, RestartAborts, RestartWaits,
           TakePendingRestart, StartNew, TakeQueues, StopRun, RunStopped, Carry,
           RestartPrompts, agentVars, contextVars
      <4> QED
        BY <1>2, <3>1, <4>1
    <3> QED
      BY <3>2, <3>3
  <2> QED
    BY <2>1, <2>2, <2>3
<1> QED
  BY <1>3, <1>4, <1>7, <1>8, <1>9, <1>10, <1>12, <1>13 DEF Next

LEMMA InitReplay == Init => ReplayInv
BY ReplayedEmpty DEF Init, ReplayInv, Erasing, Caller

LEMMA ReplayIsInPlace ==
  ASSUME ReplayInv
  PROVE  ReplaysInPlace
BY DEF ReplayInv, ReplaysInPlace, Replayed, Erasing

-----------------------------------------------------------------------------
(* What is on its way to a history stays on it, until it is delivered.      *)

afootVars == <<steer, followUps, input, pending, hold, gone>>

\* What a restart's step does to the others, and to itself.
LEMMA RestartMoves ==
  ASSUME TypeOK, NEW r \in Restart, RestartStep(r)
  PROVE  /\ \A d \in Caller : d # r => pc'[d] = pc[d]
         /\ \A q \in Restart : q # r => kind'[q] = kind[q] /\ hold'[q] = hold[q]
         /\ kind'[r] = kind[r] \/ (pc[r] = "unsent" /\ pc'[r] \in {"abort", "queues"})
         /\ \/ pc[r] = "unsent" /\ pc'[r] = "abort" /\ kind'[r] = "handoff"
            \/ pc[r] = "unsent" /\ pc'[r] = "queues" /\ kind'[r] = "new"
            \/ pc[r] = "take" /\ TakePendingRestart(r) /\ (pc'[r] = "queues" <=> pending # None)
            \/ pc[r] \in {"queues", "stop", "stopped", "again", "reset"}
            \/ pc'[r] \in {"idle", "take", "done", "prepend", "carry", "prompt", "accepted", "refused"}
<1> USE DEF TypeOK
<1> r \in Caller
  BY DEF Caller
<1>1. CallTypes
  OBVIOUS
<1>2. \E step \in Place : Goto(r, step)
  BY Places DEF RestartStep, RestartSession, RestartAborts, RestartWaits,
     TakePendingRestart, StartNew, TakeQueues, StopRun, RunStopped, NewTranscript, Erase,
     Brief, Carry, RestartPrompts, Accept
<1>3. \A d \in Caller : d # r => pc'[d] = pc[d]
  BY <1>2, Went
<1>4. CASE RestartSession(r) \/ StartNew(r)
  <2>1. /\ pc[r] = "unsent" /\ hold' = hold
        /\ \/ kind' = [kind EXCEPT ![r] = "handoff"] /\ Goto(r, "abort")
           \/ kind' = [kind EXCEPT ![r] = "new"] /\ Goto(r, "queues")
    BY <1>4 DEF RestartSession, StartNew, At
  <2> QED
    BY <1>3, <2>1, Went DEF CallTypes
<1>5. CASE TakePendingRestart(r)
  <2>1. /\ pc[r] = "take" /\ kind' = kind
        /\ \/ hold' = hold /\ pending = None /\ Goto(r, "done")
           \/ hold' = [hold EXCEPT ![r] = Carried] /\ pending # None /\ Goto(r, "queues")
    BY <1>5 DEF TakePendingRestart, At
  <2> QED
    BY <1>3, <1>5, <2>1, Went DEF CallTypes
<1>6. CASE TakeQueues(r)
  <2>1. pc[r] \in {"queues", "again"} /\ kind' = kind /\ hold' = [hold EXCEPT ![r] = @ \o Queued]
    BY <1>6 DEF TakeQueues, At
  <2> QED
    BY <1>3, <2>1 DEF CallTypes
<1>7. CASE StopRun(r) \/ RunStopped(r) \/ NewTranscript(r)
  <2>1. pc[r] \in {"stop", "stopped", "reset"} /\ kind' = kind /\ hold' = hold
    BY <1>7 DEF StopRun, RunStopped, NewTranscript, At
  <2> QED
    BY <1>3, <2>1
<1>8. CASE Erase(r) \/ Carry(r)
  <2>1. /\ kind' = kind /\ (hold' = hold \/ hold' = [hold EXCEPT ![r] = <<>>])
        /\ \E step \in {"done", "prepend", "prompt"} : Goto(r, step)
    BY <1>8 DEF Erase, Carry
  <2> QED
    BY <1>3, <2>1, Went DEF CallTypes
<1>9. CASE RestartAborts(r) \/ RestartWaits(r) \/ Brief(r) \/ RestartPrompts(r)
  <2>1. /\ kind' = kind /\ hold' = hold
        /\ \E step \in {"idle", "take", "carry", "accepted", "refused"} : Goto(r, step)
    BY <1>9 DEF RestartAborts, RestartWaits, Brief, RestartPrompts, Accept
  <2> QED
    BY <1>3, <2>1, Went
<1> QED
  BY <1>4, <1>5, <1>6, <1>7, <1>8, <1>9 DEF RestartStep

\* A hand-off leaves when it takes its request.
LEMMA LeavesByTaking ==
  ASSUME TypeOK, [Next]_vars, NEW r \in Restart, Leaving(r)', ~Leaving(r)
  PROVE  TakePendingRestart(r) /\ pending # None
<1> r \in Caller
  BY DEF Caller
<1>1. ~(kind'[r] = kind[r] /\ pc'[r] = pc[r])
  BY DEF Leaving
<1>2. PICK q \in Restart : PromptStep(q) \/ RestartStep(q)
  BY <1>1, RestartSteps
<1>3. q \in Caller
  BY DEF Caller
<1>4. ~PromptStep(q)
  <2> SUFFICES ASSUME PromptStep(q) PROVE FALSE
    OBVIOUS
  <2>1. /\ pc'[q] \in {"send", "wait", "done", "fallback", "refuse", "refused"}
        /\ \A d \in Caller : d # q => pc'[d] = pc[d]
        /\ UNCHANGED kind
    BY <1>3, PromptMoves
  <2> QED
    BY <1>1, <2>1 DEF Leaving
<1>5. RestartStep(q)
  BY <1>2, <1>4
<1>6. q = r
  BY <1>1, <1>5, RestartMoves
<1>7. /\ kind'[r] = kind[r] \/ (pc[r] = "unsent" /\ pc'[r] \in {"abort", "queues"})
      /\ \/ pc[r] = "unsent" /\ pc'[r] = "abort" /\ kind'[r] = "handoff"
         \/ pc[r] = "unsent" /\ pc'[r] = "queues" /\ kind'[r] = "new"
         \/ pc[r] = "take" /\ TakePendingRestart(r) /\ (pc'[r] = "queues" <=> pending # None)
         \/ pc[r] \in {"queues", "stop", "stopped", "again", "reset"}
         \/ pc'[r] \in {"idle", "take", "done", "prepend", "carry", "prompt", "accepted", "refused"}
  BY <1>5, <1>6, RestartMoves
<1>8. TakePendingRestart(r) => pc'[r] \in {"queues", "done"}
  <2> SUFFICES ASSUME TakePendingRestart(r) PROVE pc'[r] \in {"queues", "done"}
    OBVIOUS
  <2>1. Goto(r, "queues") \/ Goto(r, "done")
    BY DEF TakePendingRestart
  <2> QED
    BY <2>1, Went DEF TypeOK
<1> QED
  BY <1>7, <1>8 DEF Leaving

-----------------------------------------------------------------------------
(* What is on its way to a history stays on it, until it is delivered.      *)

OnItsWay(x) ==
  \/ x \in ToSet(steer) \/ x \in ToSet(followUps) \/ x \in ToSet(input)
  \/ x \in ToSet(Requested) \/ x \in gone
  \/ \E r \in Restart : x \in ToSet(hold[r])

LEMMA AfootIs == \A x : x \in Afoot <=> OnItsWay(x)
BY DEF Afoot, Lanes, OnItsWay

LEMMA AfootWas == \A x : x \in Afoot' <=> OnItsWay(x)'
BY DEF Afoot, Lanes, OnItsWay

LEMMA FollowUpAdds ==
  ASSUME TypeOK, NEW ms \in Seq(Sent \cup {Prompt}), FollowUp(ms)
  PROVE  ToSet(followUps)' = ToSet(followUps) \cup ToSet(ms)
<1>1. ToSet(followUps \o ms) = ToSet(followUps) \cup ToSet(ms)
  BY SetOfConcat DEF TypeOK, AgentTypes
<1> QED
  BY <1>1 DEF FollowUp

LEMMA QueuedHas ==
  ASSUME TypeOK
  PROVE  ToSet(Queued) = ToSet(steer) \cup ToSet(followUps)
BY SeqKinds, SetOfConcat DEF Queued

LEMMA DeliverMoves ==
  ASSUME TypeOK, Deliver
  PROVE  \A x : OnItsWay(x) => OnItsWay(x)' \/ x = Head(input)
<1> SUFFICES ASSUME NEW x, OnItsWay(x), x # Head(input) PROVE OnItsWay(x)'
  OBVIOUS
<1>1. /\ UNCHANGED <<steer, followUps, pending, hold, gone>>
      /\ input' = Tail(input) /\ input # <<>>
  BY DEF Deliver, bridgeVars, callVars
<1>2. ToSet(input) = {Head(input)} \cup ToSet(Tail(input))
  BY <1>1, SeqKinds, SetOfHeadTail
<1> QED
  BY <1>1, <1>2 DEF OnItsWay, Requested

LEMMA AgentMoves ==
  ASSUME TypeOK, ShapeInv, Agent, ~Deliver
  PROVE  \A x : OnItsWay(x) => OnItsWay(x)'
<1> SUFFICES ASSUME NEW x, OnItsWay(x) PROVE OnItsWay(x)'
  OBVIOUS
<1>1. UNCHANGED <<pending, hold, gone>>
  BY DEF Agent, RunStarts, ModelReplies, ToolsEnd, Settle, RunEnds, AgentIdles,
     bridgeVars, callVars, monitors
<1>2. CASE UNCHANGED <<steer, followUps, input>>
  BY <1>1, <1>2 DEF OnItsWay, Requested
<1>3. CASE ToolsEnd /\ ~cancelled
  <2>1. input = <<>> /\ input' = contexts \o steer /\ followUps' = followUps
    BY <1>3 DEF ToolsEnd, ShapeInv
  <2>2. ToSet(contexts \o steer) = ToSet(contexts) \cup ToSet(steer)
    BY SeqKinds, SetOfConcat
  <2>3. x \notin ToSet(input)
    BY <2>1, SetOfFew
  <2> QED
    BY <1>1, <2>1, <2>2, <2>3 DEF OnItsWay, Requested
<1>4. CASE Settle
  <2>1. input = <<>> /\ input' = Queued
    BY <1>4 DEF Settle, Queued, ShapeInv
  <2>2. x \notin ToSet(input)
    BY <2>1, SetOfFew
  <2>3. x \in ToSet(steer) \cup ToSet(followUps) => x \in ToSet(input)'
    BY <2>1, QueuedHas
  <2> QED
    BY <1>1, <2>2, <2>3 DEF OnItsWay, Requested
<1>5. CASE RunStarts \/ ModelReplies \/ RunEnds \/ AgentIdles \/ (ToolsEnd /\ cancelled)
  <2>1. UNCHANGED <<steer, followUps, input>>
    BY <1>5 DEF RunStarts, ModelReplies, RunEnds, AgentIdles, ToolsEnd
  <2> QED
    BY <1>2, <2>1
<1> QED
  BY <1>3, <1>4, <1>5 DEF Agent

LEMMA RunBeginMoves ==
  ASSUME ShapeInv, CanRun, NEW ms, BeginRun(ms), UNCHANGED <<steer, followUps, pending, hold, gone>>
  PROVE  \A x : OnItsWay(x) => OnItsWay(x)'
<1>1. input = <<>>
  BY DEF ShapeInv, CanRun, Streaming
<1>2. ToSet(input) = {}
  BY <1>1, SetOfFew
<1> QED
  BY <1>2 DEF OnItsWay, Requested

LEMMA SenderMoves ==
  ASSUME TypeOK, ShapeInv, NEW c \in Caller,
         \/ PromptStep(c)
         \/ c \in Message /\ (Submit(c) \/ SendUserMessage(c) \/ Queue(c) \/ Inject(c) \/ InjectedRun(c))
  PROVE  \A x : OnItsWay(x) => OnItsWay(x)'
<1>1. UNCHANGED <<pending, hold, gone>>
  BY DEF PromptStep, CheckStreaming, Send, Fallback, Refuse, WaitForIdle, Submit, SendUserMessage,
     Queue, Inject, InjectedRun, bridgeVars, monitors
<1>2. ASSUME FollowUp(<<Text(c)>>), UNCHANGED <<steer, input>>
      PROVE  \A x : OnItsWay(x) => OnItsWay(x)'
  <2>1. ToSet(followUps)' = ToSet(followUps) \cup ToSet(<<Text(c)>>)
    BY <1>2, TextType, FollowUpAdds
  <2> QED
    BY <1>1, <1>2, <2>1 DEF OnItsWay, Requested
<1>3. ASSUME UNCHANGED <<steer, followUps, input>>
      PROVE  \A x : OnItsWay(x) => OnItsWay(x)'
  BY <1>1, <1>3 DEF OnItsWay, Requested
<1>4. CASE Send(c) \/ (c \in Message /\ InjectedRun(c))
  <2>1. UNCHANGED <<steer, followUps>> /\ (UNCHANGED input \/ (CanRun /\ \E ms : BeginRun(ms)))
    BY <1>4 DEF Send, InjectedRun
  <2> QED
    BY <1>1, <1>3, <2>1, RunBeginMoves
<1>5. CASE CheckStreaming(c) \/ Fallback(c)
  <2>1. UNCHANGED <<steer, input>> /\ (UNCHANGED followUps \/ FollowUp(<<Text(c)>>))
    BY <1>5 DEF CheckStreaming, Fallback
  <2> QED
    BY <1>2, <1>3, <2>1
<1>6. CASE Refuse(c) \/ WaitForIdle(c) \/ (c \in Message /\ (Submit(c) \/ SendUserMessage(c) \/ Inject(c)))
  <2>1. UNCHANGED <<steer, followUps, input>>
    BY <1>6 DEF Refuse, WaitForIdle, Submit, SendUserMessage, Inject, agentVars
  <2> QED
    BY <1>3, <2>1
<1>7. CASE c \in Message /\ Queue(c)
  <2>1. \/ UNCHANGED <<followUps, input>> /\ steer' = Append(steer, c)
        \/ FollowUp(<<c>>) /\ UNCHANGED <<steer, input>>
    BY <1>7 DEF Queue
  <2>2. ToSet(Append(steer, c)) = ToSet(steer) \cup {c}
    BY <1>7, SetOfAppend DEF TypeOK, AgentTypes
  <2>3. Text(c) = c
    BY <1>7, TextType
  <2>4. CASE UNCHANGED <<followUps, input>> /\ steer' = Append(steer, c)
    BY <1>1, <2>2, <2>4 DEF OnItsWay, Requested
  <2> QED
    BY <1>2, <2>1, <2>3, <2>4
<1> QED
  BY <1>4, <1>5, <1>6, <1>7 DEF PromptStep

LEMMA OtherMoves ==
  ASSUME TypeOK, Dequeue \/ Escape \/ SetModel \/ Persist \/ \E c \in Context : PrependContext(c)
  PROVE  \A x : OnItsWay(x) => OnItsWay(x)'
<1>1. CASE Dequeue
  <2>1. /\ UNCHANGED <<steer, input, pending, hold>> /\ gone' = gone \cup ToSet(followUps)
    BY <1>1 DEF Dequeue, bridgeVars, callVars
  <2> QED
    BY <2>1 DEF OnItsWay, Requested
<1>2. CASE Escape \/ SetModel \/ Persist \/ \E c \in Context : PrependContext(c)
  <2>1. UNCHANGED afootVars
    BY <1>2 DEF Escape, SetModel, Persist, PrependContext, agentVars, bridgeVars, callVars, monitors, afootVars
  <2> QED
    BY <2>1 DEF afootVars, OnItsWay, Requested
<1> QED
  BY <1>1, <1>2

\* One restart holds more, or lets go of what has another place.
LEMMA HoldMoves ==
  ASSUME CallTypes, NEW r \in Restart, NEW h, hold' = [hold EXCEPT ![r] = h], NEW x
  PROVE  /\ x \in ToSet(h) => \E q \in Restart : x \in ToSet(hold'[q])
         /\ (\E q \in Restart : x \in ToSet(hold[q])) =>
               x \in ToSet(hold[r]) \/ \E q \in Restart : x \in ToSet(hold'[q])
<1>1. hold'[r] = h /\ \A q \in Restart : q # r => hold'[q] = hold[q]
  BY DEF CallTypes
<1>2. x \in ToSet(h) => \E q \in Restart : x \in ToSet(hold'[q])
  BY <1>1
<1>3. ASSUME NEW q \in Restart, x \in ToSet(hold[q]), x \notin ToSet(hold[r])
      PROVE  \E p \in Restart : x \in ToSet(hold'[p])
  <2>1. q # r
    BY <1>3
  <2> QED
    BY <1>1, <1>3, <2>1
<1> QED
  BY <1>2, <1>3

LEMMA RestartKeeps ==
  ASSUME TypeOK, KindInv, NEW r \in Restart, RestartStep(r)
  PROVE  \A x : OnItsWay(x) => OnItsWay(x)'
<1> SUFFICES ASSUME NEW x, OnItsWay(x) PROVE OnItsWay(x)'
  OBVIOUS
<1>0. CallTypes /\ RightKind(r)
  BY DEF TypeOK, KindInv
<1>1. CASE RestartSession(r)
  <2>1. /\ UNCHANGED <<input, hold, gone>>
        /\ pending' = [carried |-> (IF pending = None THEN <<>> ELSE pending.carried) \o Queued, before |-> Submitted]
    BY <1>1 DEF RestartSession, monitors
  <2>2. Requested' = Requested \o Queued
    <3>1. pending' # None
      <4>1. Requested \o Queued \in Seq(Sent \cup {Prompt}) /\ Submitted \subseteq Message
        BY SeqKinds, SeqOps DEF Submitted
      <4>2. pending' \in Request
        BY <2>1, <4>1 DEF Request, Requested
      <4> QED
        BY <4>2, Kinds
    <3> QED
      BY <2>1, <3>1 DEF Requested
  <2>3. ToSet(Requested \o Queued) = ToSet(Requested) \cup ToSet(Queued)
    BY SeqKinds, SetOfConcat
  <2> QED
    BY <2>1, <2>2, <2>3, QueuedHas DEF OnItsWay
<1>2. CASE TakePendingRestart(r)
  <2>1. UNCHANGED <<steer, followUps, input, gone>>
    BY <1>2 DEF TakePendingRestart, agentVars
  <2>2. CASE pending = None
    <3>1. UNCHANGED <<pending, hold>>
      BY <1>2, <2>2 DEF TakePendingRestart, bridgeVars
    <3> QED
      BY <2>1, <3>1 DEF OnItsWay, Requested
  <2>3. CASE pending # None
    <3>1. hold' = [hold EXCEPT ![r] = Carried] /\ hold[r] = <<>>
      BY <1>0, <1>2, <2>3 DEF TakePendingRestart, At, RightKind, Underway
    <3>2. ToSet(Requested) \subseteq ToSet(Carried)
      BY <2>3, CarriedIs DEF Requested
    <3>3. x \notin ToSet(hold[r])
      BY <3>1, SetOfFew
    <3>4. x \in ToSet(Requested) => \E q \in Restart : x \in ToSet(hold'[q])
      BY <1>0, <3>1, <3>2, HoldMoves
    <3>5. (\E q \in Restart : x \in ToSet(hold[q])) => \E q \in Restart : x \in ToSet(hold'[q])
      BY <1>0, <3>1, <3>3, HoldMoves
    <3> QED
      BY <2>1, <3>4, <3>5 DEF OnItsWay
  <2> QED
    BY <2>2, <2>3
<1>3. CASE TakeQueues(r)
  <2>1. /\ UNCHANGED <<input, pending, gone>> /\ hold' = [hold EXCEPT ![r] = hold[r] \o Queued]
    BY <1>0, <1>3 DEF TakeQueues, bridgeVars, monitors, CallTypes
  <2>2. ToSet(hold[r] \o Queued) = ToSet(hold[r]) \cup ToSet(Queued)
    BY SeqKinds, SetOfConcat
  <2>3. x \in ToSet(hold[r]) \cup ToSet(Queued) => \E q \in Restart : x \in ToSet(hold'[q])
    BY <1>0, <2>1, <2>2, HoldMoves
  <2>4. (\E q \in Restart : x \in ToSet(hold[q])) => \E q \in Restart : x \in ToSet(hold'[q])
    BY <1>0, <2>1, <2>3, HoldMoves
  <2> QED
    BY <2>1, <2>3, <2>4, QueuedHas DEF OnItsWay, Requested
<1>4. CASE Erase(r)
  <2>1. UNCHANGED <<steer, followUps, input, pending>> /\ gone \subseteq gone'
    BY <1>4 DEF Erase, bridgeVars
  <2>2. CASE kind[r] = "new"
    <3>1. hold' = [hold EXCEPT ![r] = <<>>] /\ ToSet(hold[r]) \subseteq gone'
      BY <1>4, <2>2 DEF Erase
    <3>2. (\E q \in Restart : x \in ToSet(hold[q])) => x \in gone' \/ \E q \in Restart : x \in ToSet(hold'[q])
      BY <1>0, <3>1, HoldMoves
    <3> QED
      BY <2>1, <3>2 DEF OnItsWay, Requested
  <2>3. CASE kind[r] # "new"
    <3>1. UNCHANGED hold
      BY <1>4, <2>3 DEF Erase
    <3> QED
      BY <2>1, <3>1 DEF OnItsWay, Requested
  <2> QED
    BY <2>2, <2>3
<1>5. CASE Carry(r)
  <2>1. /\ UNCHANGED <<steer, input, pending, gone>> /\ FollowUp(hold[r])
        /\ hold' = [hold EXCEPT ![r] = <<>>]
    BY <1>5 DEF Carry, bridgeVars
  <2>2. ToSet(followUps)' = ToSet(followUps) \cup ToSet(hold[r])
    BY <2>1, SeqKinds, FollowUpAdds
  <2>3. (\E q \in Restart : x \in ToSet(hold[q])) =>
           x \in ToSet(followUps)' \/ \E q \in Restart : x \in ToSet(hold'[q])
    BY <1>0, <2>1, <2>2, HoldMoves
  <2> QED
    BY <2>1, <2>2, <2>3 DEF OnItsWay, Requested
<1>6. CASE RestartAborts(r) \/ RestartWaits(r) \/ StartNew(r) \/ StopRun(r)
  <2>1. UNCHANGED afootVars
    BY <1>6 DEF RestartAborts, RestartWaits, StartNew, StopRun, agentVars, bridgeVars, monitors, afootVars
  <2> QED
    BY <2>1 DEF afootVars, OnItsWay, Requested
<1>7. CASE RunStopped(r) \/ NewTranscript(r) \/ Brief(r) \/ RestartPrompts(r)
  <2>1. UNCHANGED afootVars
    BY <1>7 DEF RunStopped, NewTranscript, Brief, RestartPrompts, agentVars, bridgeVars, monitors, afootVars
  <2> QED
    BY <2>1 DEF afootVars, OnItsWay, Requested
<1> QED
  BY <1>1, <1>2, <1>3, <1>4, <1>5, <1>6, <1>7 DEF RestartStep

LEMMA AfootStays ==
  ASSUME TypeOK, KindInv, ShapeInv, [Next]_vars
  PROVE  \A x : x \in Afoot => x \in Afoot' \/ (Deliver /\ x = Head(input))
<1>1. CASE UNCHANGED vars
  <2>1. UNCHANGED afootVars
    BY <1>1 DEF vars, agentVars, bridgeVars, callVars, monitors, afootVars
  <2>2. \A x : OnItsWay(x) => OnItsWay(x)'
    BY <2>1 DEF afootVars, OnItsWay, Requested
  <2> QED
    BY <2>2, AfootIs, AfootWas
<1>2. CASE Agent
  <2>1. CASE Deliver
    BY <2>1, DeliverMoves, AfootIs, AfootWas
  <2>2. CASE ~Deliver
    BY <1>2, <2>2, AgentMoves, AfootIs, AfootWas
  <2> QED
    BY <2>1, <2>2
<1>3. CASE Dequeue \/ Escape \/ SetModel \/ Persist \/ \E c \in Context : PrependContext(c)
  BY <1>3, OtherMoves, AfootIs, AfootWas
<1>4. CASE \E m \in Message : Submit(m) \/ SendUserMessage(m) \/ Queue(m) \/ Inject(m) \/ InjectedRun(m)
  <2>1. PICK m \in Message : Submit(m) \/ SendUserMessage(m) \/ Queue(m) \/ Inject(m) \/ InjectedRun(m)
    BY <1>4
  <2>2. m \in Caller
    BY DEF Caller
  <2>3. \A x : OnItsWay(x) => OnItsWay(x)'
    BY <2>1, <2>2, SenderMoves
  <2> QED
    BY <2>3, AfootIs, AfootWas
<1>5. CASE \E c \in Caller : PromptStep(c)
  <2>1. \A x : OnItsWay(x) => OnItsWay(x)'
    BY <1>5, SenderMoves
  <2> QED
    BY <2>1, AfootIs, AfootWas
<1>6. CASE \E r \in Restart : RestartStep(r)
  <2>1. \A x : OnItsWay(x) => OnItsWay(x)'
    BY <1>6, RestartKeeps
  <2> QED
    BY <2>1, AfootIs, AfootWas
<1> QED
  BY <1>1, <1>2, <1>3, <1>4, <1>5, <1>6 DEF Next

-----------------------------------------------------------------------------
(* Nothing is forgotten.                                                    *)

LEMMA DueMoves ==
  ASSUME TypeOK, [Next]_vars
  PROVE  \/ UNCHANGED <<seen, due, lastCarried>>
         \/ Deliver /\ UNCHANGED <<due, lastCarried>>
         \/ \E r \in Restart : TakePendingRestart(r) /\ pending # None /\ UNCHANGED seen
<1>1. CASE UNCHANGED vars
  BY <1>1 DEF vars, bridgeVars, monitors
<1>2. CASE Agent
  BY <1>2 DEF Agent, RunStarts, Deliver, ModelReplies, ToolsEnd, Settle, RunEnds, AgentIdles, bridgeVars, monitors
<1>3. CASE Dequeue \/ Escape \/ SetModel \/ Persist \/ \E c \in Context : PrependContext(c)
  BY <1>3 DEF Dequeue, Escape, SetModel, Persist, PrependContext, bridgeVars, monitors
<1>4. CASE \E m \in Message : Submit(m) \/ SendUserMessage(m) \/ Queue(m) \/ Inject(m) \/ InjectedRun(m)
  BY <1>4 DEF Submit, SendUserMessage, Queue, Inject, InjectedRun, bridgeVars, monitors
<1>5. CASE \E c \in Caller : PromptStep(c)
  BY <1>5 DEF PromptStep, CheckStreaming, Send, Fallback, Refuse, WaitForIdle, bridgeVars, monitors
<1>6. ASSUME NEW r \in Restart, RestartStep(r)
      PROVE  \/ UNCHANGED <<seen, due, lastCarried>>
             \/ TakePendingRestart(r) /\ pending # None /\ UNCHANGED seen
  <2>1. CASE TakePendingRestart(r)
    BY <2>1 DEF TakePendingRestart, bridgeVars
  <2>2. CASE ~TakePendingRestart(r)
    BY <1>6, <2>2 DEF RestartStep, RestartSession, RestartAborts, RestartWaits,
       StartNew, TakeQueues, StopRun, RunStopped, NewTranscript, Erase, Brief, Carry,
       RestartPrompts, bridgeVars, monitors
  <2> QED
    BY <2>1, <2>2
<1> QED
  BY <1>1, <1>2, <1>3, <1>4, <1>5, <1>6 DEF Next

LEMMA TakenBy ==
  ASSUME TypeOK, NEW r \in Restart, TakePendingRestart(r), pending # None
  PROVE  /\ \A x \in ToSet(Carried) : x \in Afoot'
         /\ \A m \in Message : /\ Copies(m) \cap ToSet(Carried) = {} => due'[m] = due[m]
                               /\ Copies(m) \cap ToSet(Carried) # {} => due'[m] = seen[m] + 1
         /\ lastCarried' = ToSet(Carried) /\ UNCHANGED <<history, seen>>
<1>1. hold' = [hold EXCEPT ![r] = Carried]
  BY DEF TakePendingRestart
<1>2. hold'[r] = Carried
  BY <1>1 DEF TypeOK, CallTypes
<1>3. \A x \in ToSet(Carried) : OnItsWay(x)'
  BY <1>2 DEF OnItsWay
<1>4. /\ lastCarried' = ToSet(Carried) /\ UNCHANGED <<history, seen>>
      /\ due' = [m \in Message |-> IF Copies(m) \cap ToSet(Carried) = {} THEN due[m]
                                   ELSE seen[m] + 1]
  BY DEF TakePendingRestart, agentVars
<1> QED
  BY <1>3, <1>4, AfootWas

LEMMA DeliveredIs ==
  ASSUME TypeOK, Deliver
  PROVE  /\ ToSet(history)' = ToSet(history) \cup {Head(input)}
         /\ \A m \in Message : seen'[m] = IF Head(input) \in Copies(m) THEN seen[m] + 1 ELSE seen[m]
<1>1. history' = Append(history, Head(input)) /\ input # <<>>
  BY DEF Deliver
<1>2. Head(input) \in Item /\ history \in Seq(Item)
  BY <1>1, SeqKinds, SeqOps
<1>3. ToSet(Append(history, Head(input))) = ToSet(history) \cup {Head(input)}
  BY <1>2, SetOfAppend
<1>4. seen' = [m \in Message |-> IF Head(input) \in Copies(m) THEN seen[m] + 1 ELSE seen[m]]
  BY DEF Deliver
<1> QED
  BY <1>1, <1>3, <1>4

LEMMA DueStep ==
  ASSUME TypeOK, KindInv, ShapeInv, DueInv, [Next]_vars
  PROVE  DueInv'
<1> SUFFICES ASSUME NEW m \in Message
             PROVE  /\ due'[m] > seen'[m] => due'[m] = seen'[m] + 1 /\ Going(m)'
                    /\ Copies(m) \cap lastCarried' # {} => due'[m] > 0
  BY DEF DueInv
<1>0. /\ due[m] > seen[m] => due[m] = seen[m] + 1 /\ Going(m)
      /\ Copies(m) \cap lastCarried # {} => due[m] > 0
      /\ due[m] \in Nat /\ seen[m] \in Nat
  BY DEF DueInv, TypeOK, MonitorTypes
<1>1. ASSUME ~Deliver
      PROVE  Going(m) => Going(m)'
  BY <1>1, AfootStays DEF Going
<1>2. CASE Deliver
  <2>1. UNCHANGED <<due, lastCarried>>
    BY <1>2 DEF Deliver, bridgeVars
  <2>2. seen'[m] = IF Head(input) \in Copies(m) THEN seen[m] + 1 ELSE seen[m]
    BY <1>2, DeliveredIs
  <2>3. CASE Head(input) \in Copies(m)
    <3>1. ~(due'[m] > seen'[m])
      BY <1>0, <2>1, <2>2, <2>3
    <3> QED
      BY <1>0, <2>1, <3>1
  <2>4. CASE Head(input) \notin Copies(m)
    <3>1. Going(m) => Going(m)'
      BY <2>4, AfootStays DEF Going
    <3> QED
      BY <1>0, <2>1, <2>2, <2>4, <3>1
  <2> QED
    BY <2>3, <2>4
<1>3. CASE UNCHANGED <<seen, due, lastCarried>> /\ ~Deliver
  BY <1>0, <1>1, <1>3
<1>4. ASSUME NEW r \in Restart, TakePendingRestart(r), pending # None, ~Deliver
      PROVE  /\ due'[m] > seen'[m] => due'[m] = seen'[m] + 1 /\ Going(m)'
             /\ Copies(m) \cap lastCarried' # {} => due'[m] > 0
  <2>1. /\ \A x \in ToSet(Carried) : x \in Afoot'
        /\ Copies(m) \cap ToSet(Carried) = {} => due'[m] = due[m]
        /\ Copies(m) \cap ToSet(Carried) # {} => due'[m] = seen[m] + 1
        /\ lastCarried' = ToSet(Carried) /\ UNCHANGED seen
    BY <1>4, TakenBy
  <2>2. CASE Copies(m) \cap ToSet(Carried) = {}
    BY <1>0, <1>1, <1>4, <2>1, <2>2
  <2>3. CASE Copies(m) \cap ToSet(Carried) # {}
    <3>1. Going(m)'
      BY <2>1, <2>3 DEF Going
    <3> QED
      BY <1>0, <2>1, <2>3, <3>1
  <2> QED
    BY <2>2, <2>3
<1> QED
  BY <1>2, <1>3, <1>4, DueMoves

LEMMA HistoryGrows ==
  ASSUME TypeOK, [Next]_vars, \A r \in Restart : ~Erase(r)
  PROVE  ToSet(history) \subseteq ToSet(history)'
<1>1. ASSUME NEW x \in Item, history' = Append(history, x)
      PROVE  ToSet(history) \subseteq ToSet(history)'
  <2>1. ToSet(Append(history, x)) = ToSet(history) \cup {x}
    BY <1>1, SeqKinds, SetOfAppend
  <2> QED
    BY <1>1, <2>1
<1>2. CASE UNCHANGED history
  BY <1>2
<1>3. CASE Agent
  <2>1. CASE Deliver
    BY <2>1, DeliveredIs
  <2>2. CASE ModelReplies
    <3>1. PICK reply \in {"answer", "tool", "failed", "aborted"} : history' = Append(history, [reply |-> reply])
      BY <2>2 DEF ModelReplies
    <3>2. [reply |-> reply] \in Item
      BY DEF Reply, Item
    <3> QED
      BY <1>1, <3>1, <3>2
  <2>3. CASE RunEnds
    <3>1. history' = history \o contexts
      BY <2>3 DEF RunEnds
    <3>2. ToSet(history \o contexts) = ToSet(history) \cup ToSet(contexts)
      BY SeqKinds, SetOfConcat
    <3> QED
      BY <3>1, <3>2
  <2>4. CASE RunStarts \/ ToolsEnd \/ Settle \/ AgentIdles
    BY <1>2, <2>4 DEF RunStarts, ToolsEnd, Settle, AgentIdles
  <2> QED
    BY <1>3, <2>1, <2>2, <2>3, <2>4 DEF Agent
<1>4. ASSUME NEW c \in Context, Prepend(c)
      PROVE  ToSet(history) \subseteq ToSet(history)'
  <2>1. UNCHANGED history \/ history' = Append(history, c)
    BY <1>4 DEF Prepend
  <2> QED
    BY <1>1, <1>2, <2>1 DEF Item
<1> QED
  BY <1>2, <1>3, <1>4, ConversationSteps DEF convVars

LEMMA QuietHistory ==
  ASSUME TypeOK, [Next]_vars, ~Streaming
  PROVE  \/ history' = history \/ history' = <<>>
         \/ \E c \in Context : history' = Append(history, c)
<1>1. ~Agent
  BY DEF Streaming, Agent, RunStarts, Deliver, ModelReplies, ToolsEnd, Settle, RunEnds, AgentIdles
<1>2. ASSUME NEW c \in Context, Prepend(c)
      PROVE  history' = history \/ history' = Append(history, c)
  BY <1>2 DEF Prepend
<1>3. ASSUME NEW r \in Restart, Erase(r)
      PROVE  history' = <<>>
  BY <1>3 DEF Erase
<1> QED
  BY <1>1, <1>2, <1>3, ConversationSteps DEF convVars

\* What was on its way, or had again, still is one of them.
LEMMA StillDue ==
  ASSUME TypeOK, KindInv, ShapeInv, DueInv, [Next]_vars, NEW m \in Message,
         Going(m) \/ HadAgain(m)
  PROVE  \/ Going(m)' \/ HadAgain(m)'
         \/ Deliver /\ Head(input) \in Copies(m)
<1>0. due[m] \in Nat /\ seen[m] \in Nat
  BY DEF TypeOK, MonitorTypes
<1>1. CASE Going(m)
  BY <1>1, AfootStays DEF Going
<1>2. CASE HadAgain(m)
  <2>1. CASE UNCHANGED <<seen, due>>
    BY <1>2, <2>1 DEF HadAgain
  <2>2. CASE Deliver /\ UNCHANGED due
    <3>1. seen'[m] >= seen[m]
      BY <1>0, <2>2, DeliveredIs
    <3>2. seen'[m] \in Nat
      BY <1>0, <2>2, DeliveredIs
    <3> QED
      BY <1>0, <1>2, <2>2, <3>1, <3>2 DEF HadAgain
  <2>3. ASSUME NEW r \in Restart, TakePendingRestart(r), pending # None
        PROVE  Going(m)' \/ HadAgain(m)'
    <3>1. CASE Copies(m) \cap ToSet(Carried) = {}
      BY <1>2, <2>3, <3>1, TakenBy DEF HadAgain
    <3>2. CASE Copies(m) \cap ToSet(Carried) # {}
      BY <2>3, <3>2, TakenBy DEF Going
    <3> QED
      BY <3>1, <3>2
  <2> QED
    BY <2>1, <2>2, <2>3, DueMoves
<1> QED
  BY <1>1, <1>2

\* Nobody answered item i of the history.
Open(i) == \A j \in Answers : j < i

LEMMA OpenWas ==
  ASSUME TypeOK, NEW c \in Context, history' = Append(history, c)
  PROVE  \A m \in Message : \A i \in (DOMAIN history)' :
            history'[i] \in Copies(m) /\ Open(i)' =>
              i \in DOMAIN history /\ history[i] \in Copies(m) /\ Open(i)
<1>1. history \in Seq(Item) /\ c \in Item /\ c \notin Reply
  BY Kinds DEF TypeOK, AgentTypes, Item
<1>2. /\ DOMAIN history = 1 .. Len(history) /\ Len(history) \in Nat
      /\ (DOMAIN history)' = 1 .. Len(history) + 1
      /\ \A i \in 1 .. Len(history) : history'[i] = history[i]
      /\ history'[Len(history) + 1] = c
  BY <1>1, AppendProperties, LenProperties
<1>3. \A m \in Message : c \notin Copies(m)
  BY Kinds
<1>4. \A j \in Answers : j \in Answers'
  BY <1>2 DEF Answers
<1>5. \A i \in (DOMAIN history)' : i \in 1 .. Len(history) \/ i = Len(history) + 1
  BY <1>2
<1> QED
  BY <1>2, <1>3, <1>4, <1>5 DEF Open

\* What a hand-off does not carry was carried before.
LEMMA CarriesOpen ==
  ASSUME TypeOK, NEW m \in Message, NEW i \in DOMAIN history,
         history[i] \in Copies(m), Open(i)
  PROVE  i \in Unanswered \/ Copies(m) \cap lastCarried # {}
<1>1. Copies(m) \subseteq Sent /\ Prompt \notin Sent /\ None \notin Sent
  BY Kinds
<1>2. history[i] # lastPrompt
  BY <1>1 DEF TypeOK, SessionTypes
<1>3. CASE history[i] \in lastCarried
  BY <1>3
<1>4. CASE history[i] \notin lastCarried
  BY <1>1, <1>2, <1>4 DEF Unanswered, Open
<1> QED
  BY <1>3, <1>4

LEMMA OweStep ==
  ASSUME TypeOK, KindInv, ShapeInv, QuietInv, DueInv, OweInv, [Next]_vars
  PROVE  OweInv'
<1> SUFFICES ASSUME ~raced', NEW r \in Restart, Leaving(r)',
                    NEW m \in Message, NEW i \in (DOMAIN history)', history'[i] \in Copies(m), Open(i)'
             PROVE  Going(m)' \/ HadAgain(m)'
  BY DEF OweInv, Open
<1>0. ~raced
  BY RunsBegin
<1>1. CASE Leaving(r)
  <2>1. ~Streaming
    BY <1>0, <1>1 DEF QuietInv, Quiet
  <2>2. i \in DOMAIN history /\ history[i] \in Copies(m) /\ Open(i)
    <3>1. CASE history' = history
      BY <3>1 DEF Open, Answers
    <3>2. CASE history' = <<>>
      BY <3>2
    <3>3. ASSUME NEW c \in Context, history' = Append(history, c)
          PROVE  i \in DOMAIN history /\ history[i] \in Copies(m) /\ Open(i)
      BY <3>3, OpenWas
    <3> QED
      BY <2>1, <3>1, <3>2, <3>3, QuietHistory
  <2>3. Going(m) \/ HadAgain(m)
    BY <1>0, <1>1, <2>2 DEF OweInv, Open
  <2>4. ~Deliver
    BY <2>1 DEF Deliver, Streaming
  <2> QED
    BY <2>3, <2>4, StillDue
<1>2. CASE ~Leaving(r)
  <2>1. TakePendingRestart(r) /\ pending # None
    BY <1>2, LeavesByTaking
  <2>2. history' = history
    BY <2>1, TakenBy
  <2>3. i \in DOMAIN history /\ history[i] \in Copies(m) /\ Open(i)
    BY <2>2 DEF Open, Answers
  <2>4. CASE i \in Unanswered
    <3>1. Copies(m) \cap ToSet(Carried) # {}
      BY <2>1, <2>3, <2>4, CarriedIs
    <3> QED
      BY <2>1, <3>1, TakenBy DEF Going
  <2>5. CASE Copies(m) \cap lastCarried # {}
    <3>1. due[m] > 0 /\ (due[m] > seen[m] => Going(m)) /\ due[m] \in Nat /\ seen[m] \in Nat
      BY <2>5 DEF DueInv, TypeOK, MonitorTypes
    <3>2. Going(m) \/ HadAgain(m)
      BY <3>1 DEF HadAgain
    <3>3. ~Deliver
      <4>1. pc[r] = "take" /\ Quiet(r)
        BY <2>1 DEF TakePendingRestart, At, Quiet
      <4>2. ~Streaming
        BY <1>0, <4>1 DEF QuietInv
      <4> QED
        BY <4>2 DEF Deliver, Streaming
    <3> QED
      BY <3>2, <3>3, StillDue
  <2> QED
    BY <2>3, <2>4, <2>5, CarriesOpen
<1> QED
  BY <1>1, <1>2

\* A message that was taken just now is in a queue, or the run begins with it.
LEMMA TakenNow ==
  ASSUME TypeOK, [Next]_vars, NEW m \in Message, pc'[m] \in {"wait", "done"}, pc[m] \notin {"wait", "done"}
  PROVE  m \in Afoot'
<1> m \in Caller /\ m \notin Restart
  BY Kinds DEF Caller
<1>0. CallTypes /\ pc'[m] # pc[m]
  BY DEF TypeOK
<1>1. ASSUME FollowUp(<<m>>)
      PROVE  m \in Afoot'
  <2>1. <<m>> \in Seq(Sent \cup {Prompt})
    <3>1. Text(m) = m
      BY TextType
    <3> QED
      BY <3>1, TextType
  <2>2. ToSet(followUps)' = ToSet(followUps) \cup {m}
    BY <1>1, <2>1, FollowUpAdds, SetOfFew
  <2> QED
    BY <2>2 DEF Afoot, Lanes
<1>2. ASSUME BeginRun(<<m>>)
      PROVE  m \in Afoot'
  <2>1. m \in ToSet(input)'
    BY <1>2, SetOfFew DEF BeginRun
  <2> QED
    BY <2>1 DEF Afoot, Lanes
<1>3. ASSUME steer' = Append(steer, m)
      PROVE  m \in Afoot'
  <2>1. ToSet(Append(steer, m)) = ToSet(steer) \cup {m}
    BY SetOfAppend DEF TypeOK, AgentTypes
  <2> QED
    BY <1>3, <2>1 DEF Afoot, Lanes
<1>4. ASSUME PromptStep(m)
      PROVE  m \in Afoot'
  <2>1. Text(m) = m
    BY TextType
  <2>2. CASE CheckStreaming(m) \/ Fallback(m)
    <3>1. FollowUp(<<Text(m)>>) \/ Goto(m, "send") \/ Goto(m, "refuse")
      BY <2>2 DEF CheckStreaming, Fallback
    <3> QED
      BY <1>0, <1>1, <2>1, <3>1, Went
  <2>3. CASE Send(m)
    <3>1. BeginRun(<<Text(m)>>) \/ Goto(m, "fallback")
      BY <2>3 DEF Send
    <3> QED
      BY <1>0, <1>2, <2>1, <3>1, Went
  <2>4. CASE Refuse(m) \/ WaitForIdle(m)
    <3>1. Goto(m, "refused") \/ pc[m] = "wait"
      BY <2>4 DEF Refuse, WaitForIdle, At
    <3> QED
      BY <1>0, <3>1, Went
  <2> QED
    BY <1>4, <2>2, <2>3, <2>4 DEF PromptStep
<1>5. ASSUME Submit(m) \/ SendUserMessage(m) \/ Queue(m) \/ Inject(m) \/ InjectedRun(m)
      PROVE  m \in Afoot'
  <2>1. CASE Queue(m)
    BY <1>1, <1>3, <2>1 DEF Queue
  <2>2. CASE InjectedRun(m)
    <3>1. BeginRun(<<m>>) \/ Goto(m, "dropped")
      BY <2>2 DEF InjectedRun
    <3> QED
      BY <1>0, <1>2, <3>1, Went
  <2>3. CASE Submit(m) \/ SendUserMessage(m) \/ Inject(m)
    <3>1. \E step \in {"accepted", "refused", "steer", "followUp", "inject"} : Goto(m, step)
      BY <2>3 DEF Submit, Accept, SendUserMessage, Inject
    <3> QED
      BY <1>0, <3>1, Went
  <2> QED
    BY <1>5, <2>1, <2>2, <2>3
<1>6. ASSUME NEW c \in Caller, c # m, \E step \in Place : Goto(c, step)
      PROVE  FALSE
  BY <1>0, <1>6, Went
<1>7. CASE UNCHANGED vars \/ Agent \/ Dequeue \/ Escape \/ SetModel \/ Persist
  <2>1. UNCHANGED pc
    BY <1>7 DEF vars, Agent, RunStarts, Deliver, ModelReplies, ToolsEnd, Settle, RunEnds, AgentIdles,
       Dequeue, Escape, SetModel, Persist, callVars
  <2> QED
    BY <1>0, <2>1
<1>8. CASE \E c \in Context : PrependContext(c)
  BY <1>0, <1>8 DEF PrependContext, callVars
<1>9. ASSUME NEW c \in Caller, PromptStep(c)
      PROVE  m \in Afoot'
  <2>1. \E step \in Place : Goto(c, step)
    BY <1>9, Places DEF PromptStep, CheckStreaming, Send, Fallback, Refuse, WaitForIdle
  <2> QED
    BY <1>4, <1>6, <1>9, <2>1
<1>10. ASSUME NEW k \in Message, Submit(k) \/ SendUserMessage(k) \/ Queue(k) \/ Inject(k) \/ InjectedRun(k)
       PROVE  m \in Afoot'
  <2>1. \E step \in Place : Goto(k, step)
    BY <1>10, Places DEF Submit, Accept, SendUserMessage, Queue, Inject, InjectedRun
  <2> QED
    BY <1>5, <1>6, <1>10, <2>1 DEF Caller
<1>11. ASSUME NEW r \in Restart, RestartStep(r)
       PROVE  FALSE
  BY <1>0, <1>11, RestartMoves DEF Caller
<1> QED
  BY <1>7, <1>8, <1>9, <1>10, <1>11 DEF Next

LEMMA KeptStep ==
  ASSUME TypeOK, KindInv, ShapeInv, QuietInv, DueInv, OweInv, KeptInv, [Next]_vars
  PROVE  KeptInv'
<1> SUFFICES ASSUME ~raced', NEW m \in Message, pc'[m] \in {"wait", "done"}
             PROVE  Going(m)' \/ Copies(m) \cap ToSet(history)' # {} \/ HadAgain(m)'
  BY DEF KeptInv
<1>0. ~raced
  BY RunsBegin
<1>1. CASE pc[m] \notin {"wait", "done"}
  BY <1>1, TakenNow DEF Going, Copies
<1>2. CASE Going(m) \/ HadAgain(m)
  <2>1. CASE Deliver /\ Head(input) \in Copies(m)
    BY <2>1, DeliveredIs
  <2> QED
    BY <1>2, <2>1, StillDue
<1>3. CASE Copies(m) \cap ToSet(history) # {}
  <2>1. CASE \A r \in Restart : ~Erase(r)
    BY <1>3, <2>1, HistoryGrows
  <2>2. ASSUME NEW r \in Restart, Erase(r)
        PROVE  Going(m)' \/ HadAgain(m)'
    <3>1. /\ pc[r] = "erase"
          /\ gone' = gone \cup
               (IF kind[r] = "new" THEN ToSet(history) \cup ToSet(hold[r])
                ELSE {x \in ToSet(history) : \E i \in Answers : x \in ToSet(SubSeq(history, 1, i))})
      BY <2>2 DEF Erase, At
    <3>2. ASSUME NEW x \in Copies(m), x \in gone'
          PROVE  Going(m)'
      BY <3>2 DEF Going, Afoot
    <3>3. CASE kind[r] = "new"
      BY <1>3, <3>1, <3>2, <3>3
    <3>4. CASE kind[r] # "new"
      <4>1. PICK i \in DOMAIN history : history[i] \in Copies(m)
        BY <1>3 DEF ToSet
      <4>2. CASE Open(i)
        <5>1. kind[r] = "handoff"
          BY <3>1, <3>4 DEF KindInv, RightKind, TypeOK, CallTypes
        <5>2. Leaving(r)
          BY <3>1, <5>1 DEF Leaving
        <5>3. Going(m) \/ HadAgain(m)
          BY <1>0, <4>1, <4>2, <5>2 DEF OweInv, Open
        <5>4. ~Deliver
          <6>1. ~Streaming
            BY <1>0, <5>2 DEF QuietInv, Quiet
          <6> QED
            BY <6>1 DEF Deliver, Streaming
        <5> QED
          BY <5>3, <5>4, StillDue
      <4>3. CASE ~Open(i)
        <5>1. PICK j \in Answers : ~(j < i)
          BY <4>3 DEF Open
        <5>2. history \in Seq(Item) /\ DOMAIN history = 1 .. Len(history) /\ Len(history) \in Nat
          BY LenProperties DEF TypeOK, AgentTypes
        <5>3. j \in 1 .. Len(history) /\ i \in 1 .. j
          BY <5>1, <5>2 DEF Answers
        <5>4. SubSeq(history, 1, j) = [k \in 1 .. j |-> history[k]]
          BY <5>2, <5>3, SubSeqProperties
        <5>5. history[i] \in ToSet(SubSeq(history, 1, j))
          BY <5>3, <5>4 DEF ToSet
        <5>6. history[i] \in ToSet(history)
          BY <4>1 DEF ToSet
        <5>7. history[i] \in gone'
          BY <3>1, <3>4, <5>1, <5>5, <5>6
        <5> QED
          BY <3>2, <4>1, <5>7
      <4> QED
        BY <4>2, <4>3
    <3> QED
      BY <3>3, <3>4
  <2> QED
    BY <2>1, <2>2
<1> QED
  BY <1>0, <1>1, <1>2, <1>3 DEF KeptInv

LEMMA InitKept == Init => DueInv /\ OweInv /\ KeptInv
<1> SUFFICES ASSUME Init PROVE DueInv /\ OweInv /\ KeptInv
  OBVIOUS
<1>1. DueInv
  <2>1. \A m \in Message : due[m] = 0 /\ seen[m] = 0 /\ lastCarried = {}
    BY DEF Init
  <2>2. ~(0 > 0)
    OBVIOUS
  <2> QED
    BY <2>1, <2>2 DEF DueInv
<1>2. OweInv
  BY DEF Init, OweInv, Leaving
<1>3. KeptInv
  BY DEF Init, KeptInv, Caller
<1> QED
  BY <1>1, <1>2, <1>3

LEMMA KeptIsNotForgotten ==
  ASSUME TypeOK, KeptInv
  PROVE  NothingForgotten
<1> SUFFICES ASSUME ~raced, NEW m \in Message, pc[m] \in {"wait", "done"} PROVE Kept(m) \/ HadAgain(m)
  BY DEF NothingForgotten
<1>1. Going(m) \/ Copies(m) \cap ToSet(history) # {} \/ HadAgain(m)
  BY DEF KeptInv
<1>2. CASE Copies(m) \cap ToSet(history) # {}
  BY <1>2 DEF Kept
<1>3. ASSUME NEW x \in Copies(m), x \in Afoot
      PROVE  Kept(m)
  <2>1. OnItsWay(x)
    BY <1>3, AfootIs
  <2>2. CASE x \in ToSet(steer) \cup ToSet(followUps) \cup ToSet(input) \cup gone
    BY <2>2, QueuedHas DEF Kept
  <2>3. CASE x \in ToSet(Requested)
    <3>1. pending # None
      BY <2>3, SetOfFew DEF Requested
    <3> QED
      BY <2>3, <3>1 DEF Kept, Requested
  <2>4. CASE \E r \in Restart : x \in ToSet(hold[r])
    BY <2>4 DEF Kept
  <2> QED
    BY <2>1, <2>2, <2>3, <2>4 DEF OnItsWay
<1> QED
  BY <1>1, <1>2, <1>3 DEF Going

-----------------------------------------------------------------------------
(* How many copies of a message are where.                                  *)

LEMMA Numbers ==
  ASSUME TypeOK
  PROVE  \A S : /\ Number(steer, S) \in Nat /\ Number(followUps, S) \in Nat
                /\ Number(input, S) \in Nat /\ Number(Requested, S) \in Nat
                /\ Number(history, S) \in Nat /\ Number(Queued, S) \in Nat
                /\ Moving(S) \in Nat
                /\ Number(Queued, S) = Number(steer, S) + Number(followUps, S)
                /\ \A r \in Restart : Number(hold[r], S) \in Nat
                /\ \A r \in Restart \cup {None} : Number(Held(r), S) \in Nat /\ Travelling(S, r) \in Nat
<1> SUFFICES ASSUME NEW S
             PROVE  /\ Number(steer, S) \in Nat /\ Number(followUps, S) \in Nat
                    /\ Number(input, S) \in Nat /\ Number(Requested, S) \in Nat
                    /\ Number(history, S) \in Nat /\ Number(Queued, S) \in Nat
                    /\ Moving(S) \in Nat
                    /\ Number(Queued, S) = Number(steer, S) + Number(followUps, S)
                    /\ \A r \in Restart : Number(hold[r], S) \in Nat
                    /\ \A r \in Restart \cup {None} : Number(Held(r), S) \in Nat /\ Travelling(S, r) \in Nat
  OBVIOUS
<1>1. \A s \in Seq(Item) : Number(s, S) \in Nat
  BY NumberType
<1>2. /\ Number(steer, S) \in Nat /\ Number(followUps, S) \in Nat
      /\ Number(input, S) \in Nat /\ Number(Requested, S) \in Nat
      /\ Number(history, S) \in Nat /\ Number(Queued, S) \in Nat
      /\ \A r \in Restart : Number(hold[r], S) \in Nat
  BY <1>1, SeqKinds
<1>3. Moving(S) \in Nat
  BY <1>2 DEF Moving
<1>4. Number(Queued, S) = Number(steer, S) + Number(followUps, S)
  BY SeqKinds, NumberOfConcat DEF Queued
<1>5. ASSUME NEW r \in Restart \cup {None}
      PROVE  Number(Held(r), S) \in Nat /\ Travelling(S, r) \in Nat
  <2>1. Held(r) = <<>> \/ (r \in Restart /\ Held(r) = hold[r])
    BY DEF Held
  <2>2. Number(Held(r), S) \in Nat
    BY <1>2, <2>1, NumberOfFew
  <2> QED
    BY <1>3, <2>2 DEF Travelling
<1> QED
  BY <1>2, <1>3, <1>4, <1>5

LEMMA NotSent ==
  ASSUME NEW S \in SUBSET Sent
  PROVE  /\ \A s \in Seq(Context) : Number(s, S) = 0
         /\ \A x : x \notin Sent => Number(<<x>>, S) = 0
         /\ Number(<<>>, S) = 0
         /\ \A s \in Seq(Item), x \in Item \ Sent : Number(Append(s, x), S) = Number(s, S)
<1>1. ASSUME NEW s \in Seq(Context)
      PROVE  Number(s, S) = 0
  <2>1. ToSet(s) \subseteq Context /\ Context \cap Sent = {}
    BY SetOfType, Kinds
  <2>2. ToSet(s) \cap S = {}
    BY <2>1
  <2> QED
    BY <2>2, NumberType
<1>2. \A x : x \notin Sent => Number(<<x>>, S) = 0
  BY NumberOfFew
<1>3. ASSUME NEW s \in Seq(Item), NEW x \in Item \ Sent
      PROVE  Number(Append(s, x), S) = Number(s, S)
  <2>1. Number(Append(s, x), S) = Number(s, S) + 0 /\ Number(s, S) \in Nat
    BY NumberOfAppend, NumberType
  <2> QED
    BY <2>1
<1> QED
  BY <1>1, <1>2, <1>3, NumberOfFew

HoldSame == \A r \in Restart \cup {None} : Held(r)' = Held(r)

LEMMA SameHold == UNCHANGED <<kind, hold>> => HoldSame
BY DEF HoldSame, Held

LEMMA SameMoving ==
  ASSUME UNCHANGED <<steer, followUps, input, pending>>
  PROVE  \A S : Moving(S)' = Moving(S)
BY DEF Moving, Requested

LEMMA FollowUpCounts ==
  ASSUME TypeOK, NEW ms \in Seq(Sent \cup {Prompt}), FollowUp(ms), UNCHANGED <<steer, input, pending>>
  PROVE  \A S : Moving(S)' = Moving(S) + Number(ms, S)
<1> SUFFICES ASSUME NEW S PROVE Moving(S)' = Moving(S) + Number(ms, S)
  OBVIOUS
<1>1. Number(followUps \o ms, S) = Number(followUps, S) + Number(ms, S)
  BY NumberOfConcat DEF TypeOK, AgentTypes
<1>2. followUps' = followUps \o ms
  BY DEF FollowUp
<1>3. Number(ms, S) \in Nat
  BY NumberType
<1>4. Moving(S)' = Number(steer, S) + (Number(followUps, S) + Number(ms, S)) + Number(input, S) + Number(Requested, S)
  BY <1>1, <1>2 DEF Moving, Requested
<1> QED
  BY <1>3, <1>4, Numbers DEF Moving

LEMMA AgentCounts ==
  ASSUME TypeOK, ShapeInv, Agent, NEW S \in SUBSET Sent
  PROVE  /\ HoldSame
         /\ ~Deliver => Moving(S)' = Moving(S)
         /\ Deliver => Moving(S) = Moving(S)' + IF Head(input) \in S THEN 1 ELSE 0
<1>1. UNCHANGED <<pending, kind, hold>>
  BY DEF Agent, RunStarts, Deliver, ModelReplies, ToolsEnd, Settle, RunEnds, AgentIdles,
     bridgeVars, callVars
<1>2. HoldSame
  BY <1>1, SameHold
<1>3. /\ Number(steer, S) \in Nat /\ Number(followUps, S) \in Nat /\ Number(Requested, S) \in Nat
  BY Numbers
<1>4. CASE ToolsEnd /\ ~cancelled
  <2>1. input = <<>> /\ input' = contexts \o steer /\ steer' = <<>> /\ followUps' = followUps
    BY <1>4 DEF ToolsEnd, ShapeInv
  <2>2. Number(contexts \o steer, S) = Number(contexts, S) + Number(steer, S)
    BY SeqKinds, NumberOfConcat
  <2>3. Number(contexts, S) = 0 /\ Number(input, S) = 0 /\ Number(steer', S) = 0
    BY <2>1, NotSent DEF TypeOK, AgentTypes
  <2>4. Moving(S)' = 0 + Number(followUps, S) + (0 + Number(steer, S)) + Number(Requested, S)
    BY <1>1, <2>1, <2>2, <2>3 DEF Moving, Requested
  <2>5. Moving(S) = Number(steer, S) + Number(followUps, S) + 0 + Number(Requested, S)
    BY <2>3 DEF Moving
  <2>6. Moving(S)' = Moving(S)
    BY <1>3, <2>4, <2>5
  <2>7. ~Deliver
    BY <1>4 DEF ToolsEnd, Deliver
  <2> QED
    BY <1>2, <2>6, <2>7
<1>5. CASE Settle
  <2>1. input = <<>> /\ input' = Queued /\ steer' = <<>> /\ followUps' = <<>>
    BY <1>5 DEF Settle, Queued, ShapeInv
  <2>2. Number(input, S) = 0 /\ Number(steer', S) = 0 /\ Number(followUps', S) = 0
    BY <2>1, NotSent
  <2>3. Number(Queued, S) = Number(steer, S) + Number(followUps, S)
    BY Numbers
  <2>4. Moving(S)' = 0 + 0 + (Number(steer, S) + Number(followUps, S)) + Number(Requested, S)
    BY <1>1, <2>1, <2>2, <2>3 DEF Moving, Requested
  <2>5. Moving(S) = Number(steer, S) + Number(followUps, S) + 0 + Number(Requested, S)
    BY <2>2 DEF Moving
  <2>6. Moving(S)' = Moving(S)
    BY <1>3, <2>4, <2>5
  <2>7. ~Deliver
    BY <1>5 DEF Settle, Deliver
  <2> QED
    BY <1>2, <2>6, <2>7
<1>6. CASE Deliver
  <2>1. UNCHANGED <<steer, followUps>> /\ input' = Tail(input) /\ input # <<>>
    BY <1>6 DEF Deliver
  <2>2. Number(input, S) = Number(Tail(input), S) + IF Head(input) \in S THEN 1 ELSE 0
    BY <2>1, SeqKinds, NumberOfHeadTail
  <2>3. Number(Tail(input), S) \in Nat
    BY <2>1, SeqKinds, SeqOps, NumberType
  <2>4. Moving(S)' = Number(steer, S) + Number(followUps, S) + Number(Tail(input), S) + Number(Requested, S)
    BY <1>1, <2>1 DEF Moving, Requested
  <2>5. Moving(S) = Moving(S)' + IF Head(input) \in S THEN 1 ELSE 0
    BY <2>2, <2>3, <2>4, Numbers DEF Moving
  <2> QED
    BY <1>2, <1>6, <2>5
<1>7. CASE RunStarts \/ ModelReplies \/ RunEnds \/ AgentIdles \/ (ToolsEnd /\ cancelled)
  <2>1. UNCHANGED <<steer, followUps, input>> /\ ~Deliver
    BY <1>7 DEF RunStarts, ModelReplies, RunEnds, AgentIdles, ToolsEnd, Deliver
  <2> QED
    BY <1>1, <1>2, <2>1, SameMoving
<1> QED
  BY <1>2, <1>4, <1>5, <1>6, <1>7 DEF Agent

\* A message that a step takes.
Taken(k) == pc[k] \notin {"wait", "done"} /\ pc'[k] \in {"wait", "done"}

LEMMA RunBeginCounts ==
  ASSUME TypeOK, ShapeInv, CanRun, NEW x, BeginRun(<<x>>), UNCHANGED <<steer, followUps, pending>>
  PROVE  \A S : Moving(S)' = Moving(S) + IF x \in S THEN 1 ELSE 0
<1> SUFFICES ASSUME NEW S PROVE Moving(S)' = Moving(S) + IF x \in S THEN 1 ELSE 0
  OBVIOUS
<1>1. input = <<>> /\ input' = <<x>>
  BY DEF ShapeInv, CanRun, Streaming, BeginRun
<1>2. Number(input, S) = 0 /\ Number(input', S) = IF x \in S THEN 1 ELSE 0
  BY <1>1, NumberOfFew
<1>3. Moving(S)' = Number(steer, S) + Number(followUps, S) + (IF x \in S THEN 1 ELSE 0) + Number(Requested, S)
  BY <1>2 DEF Moving, Requested
<1> QED
  BY <1>2, <1>3, Numbers DEF Moving

\* By the steps of a caller its own message enters, once, when it is taken.
LEMMA SenderCounts ==
  ASSUME TypeOK, ShapeInv, NEW c \in Caller,
         \/ PromptStep(c)
         \/ c \in Message /\ (Submit(c) \/ SendUserMessage(c) \/ Queue(c) \/ Inject(c) \/ InjectedRun(c)),
         NEW S \in SUBSET Sent
  PROVE  /\ HoldSame
         /\ \/ Moving(S)' = Moving(S)
            \/ c \in Message /\ Taken(c) /\ Moving(S)' = Moving(S) + IF c \in S THEN 1 ELSE 0
<1>1. UNCHANGED <<pending, kind, hold>>
  BY DEF PromptStep, CheckStreaming, Send, Fallback, Refuse, WaitForIdle, Submit, SendUserMessage,
     Queue, Inject, InjectedRun, bridgeVars
<1>2. HoldSame
  BY <1>1, SameHold
<1>3. ASSUME NEW x, x = Text(c), Moving(S)' = Moving(S) + IF x \in S THEN 1 ELSE 0, Goto(c, "wait") \/ Goto(c, "done"),
             pc[c] \notin {"wait", "done"}
      PROVE  \/ Moving(S)' = Moving(S)
             \/ c \in Message /\ Taken(c) /\ Moving(S)' = Moving(S) + IF c \in S THEN 1 ELSE 0
  <2>1. CASE c \in Message
    <3>1. x = c
      BY <1>3, <2>1, TextType
    <3>2. pc'[c] \in {"wait", "done"}
      BY <1>3, Went DEF TypeOK
    <3> QED
      BY <1>3, <2>1, <3>1, <3>2 DEF Taken
  <2>2. CASE c \in Restart
    <3>1. x \notin S
      BY <1>3, <2>2, TextType, Kinds
    <3>2. Moving(S) \in Nat
      BY Numbers
    <3> QED
      BY <1>3, <3>1, <3>2
  <2> QED
    BY <2>1, <2>2 DEF Caller
<1>4. ASSUME FollowUp(<<Text(c)>>), UNCHANGED <<steer, input>>
      PROVE  Moving(S)' = Moving(S) + IF Text(c) \in S THEN 1 ELSE 0
  <2>1. Moving(S)' = Moving(S) + Number(<<Text(c)>>, S)
    BY <1>1, <1>4, TextType, FollowUpCounts
  <2> QED
    BY <2>1, NumberOfFew
<1>5. CASE Send(c) \/ (c \in Message /\ InjectedRun(c))
  <2>1. UNCHANGED <<steer, followUps>> /\ pc[c] \notin {"wait", "done"}
    BY <1>5 DEF Send, InjectedRun, At
  <2>2. c \in Message => Text(c) = c
    BY TextType
  <2>3. \/ UNCHANGED input
        \/ CanRun /\ BeginRun(<<Text(c)>>) /\ (Goto(c, "wait") \/ Goto(c, "done"))
    BY <1>5, <2>2 DEF Send, InjectedRun
  <2>4. CASE UNCHANGED input
    BY <1>1, <1>2, <2>1, <2>4, SameMoving
  <2>5. CASE CanRun /\ BeginRun(<<Text(c)>>) /\ (Goto(c, "wait") \/ Goto(c, "done"))
    <3>1. Moving(S)' = Moving(S) + IF Text(c) \in S THEN 1 ELSE 0
      BY <1>1, <2>1, <2>5, RunBeginCounts
    <3> QED
      BY <1>2, <1>3, <2>1, <2>5, <3>1
  <2> QED
    BY <2>3, <2>4, <2>5
<1>6. CASE CheckStreaming(c) \/ Fallback(c)
  <2>1. UNCHANGED <<steer, input>> /\ pc[c] \notin {"wait", "done"}
    BY <1>6 DEF CheckStreaming, Fallback, At
  <2>2. UNCHANGED followUps \/ (FollowUp(<<Text(c)>>) /\ Goto(c, "done"))
    BY <1>6 DEF CheckStreaming, Fallback
  <2>3. CASE UNCHANGED followUps
    BY <1>1, <1>2, <2>1, <2>3, SameMoving
  <2>4. CASE FollowUp(<<Text(c)>>) /\ Goto(c, "done")
    BY <1>2, <1>3, <1>4, <2>1, <2>4
  <2> QED
    BY <2>2, <2>3, <2>4
<1>7. CASE Refuse(c) \/ WaitForIdle(c) \/ (c \in Message /\ (Submit(c) \/ SendUserMessage(c) \/ Inject(c)))
  <2>1. UNCHANGED <<steer, followUps, input>>
    BY <1>7 DEF Refuse, WaitForIdle, Submit, SendUserMessage, Inject, agentVars
  <2> QED
    BY <1>1, <1>2, <2>1, SameMoving
<1>8. CASE c \in Message /\ Queue(c)
  <2>1. /\ Goto(c, "done") /\ pc[c] \notin {"wait", "done"}
        /\ \/ UNCHANGED <<followUps, input>> /\ steer' = Append(steer, c)
           \/ FollowUp(<<c>>) /\ UNCHANGED <<steer, input>>
    BY <1>8 DEF Queue, At
  <2>2. Text(c) = c
    BY <1>8, TextType
  <2>3. CASE UNCHANGED <<followUps, input>> /\ steer' = Append(steer, c)
    <3>1. Number(Append(steer, c), S) = Number(steer, S) + IF c \in S THEN 1 ELSE 0
      BY <1>8, NumberOfAppend DEF TypeOK, AgentTypes
    <3>2. Moving(S)' = (Number(steer, S) + IF c \in S THEN 1 ELSE 0) + Number(followUps, S)
                          + Number(input, S) + Number(Requested, S)
      BY <1>1, <2>3, <3>1 DEF Moving, Requested
    <3>3. Moving(S)' = Moving(S) + IF c \in S THEN 1 ELSE 0
      BY <3>2, Numbers DEF Moving
    <3> QED
      BY <1>2, <1>3, <2>1, <2>2, <3>3
  <2>4. CASE FollowUp(<<c>>) /\ UNCHANGED <<steer, input>>
    BY <1>2, <1>3, <1>4, <2>1, <2>2, <2>4
  <2> QED
    BY <2>1, <2>3, <2>4
<1> QED
  BY <1>5, <1>6, <1>7, <1>8 DEF PromptStep

LEMMA OtherCounts ==
  ASSUME TypeOK, Dequeue \/ Escape \/ SetModel \/ Persist \/ \E c \in Context : PrependContext(c),
         NEW S \in SUBSET Sent
  PROVE  HoldSame /\ Moving(S)' <= Moving(S)
<1>1. CASE Dequeue
  <2>1. UNCHANGED <<steer, input, pending, kind, hold>> /\ followUps' = <<>>
    BY <1>1 DEF Dequeue, bridgeVars, callVars
  <2>2. Moving(S)' = Number(steer, S) + 0 + Number(input, S) + Number(Requested, S)
    BY <2>1, NotSent DEF Moving, Requested
  <2>3. Moving(S)' <= Moving(S)
    BY <2>2, Numbers DEF Moving
  <2> QED
    BY <2>1, <2>3, SameHold
<1>2. CASE Escape \/ SetModel \/ Persist \/ \E c \in Context : PrependContext(c)
  <2>1. UNCHANGED <<steer, followUps, input, pending, kind, hold>>
    BY <1>2 DEF Escape, SetModel, Persist, PrependContext, agentVars, bridgeVars, callVars
  <2>2. Moving(S)' = Moving(S) /\ Moving(S) \in Nat
    BY <2>1, SameMoving, Numbers
  <2> QED
    BY <2>1, <2>2, SameHold
<1> QED
  BY <1>1, <1>2

\* A hand-off carries no more than what was queued at its request and what the
\* last one had not carried.
LEMMA CarriedCounts ==
  ASSUME TypeOK, pending # None, NEW m \in Message
  PROVE  Number(Carried, Copies(m)) <= Number(Requested, Copies(m)) + Number(history, New(m))
<1> DEFINE S == Copies(m)
           T == Sent \cup {Prompt}
           A == Pick(NotedAt, Earlier)
           C == Pick(history, Unanswered \ Earlier)
           P == {p \in Earlier : NotedAt[p] \in S}
           Q == {p \in Unanswered \ Earlier : history[p] \in S}
<1>1. /\ Unanswered \subseteq DOMAIN history /\ Earlier \in SUBSET Nat /\ IsFiniteSet(Earlier)
      /\ Unanswered \ Earlier \in SUBSET Nat /\ IsFiniteSet(Unanswered \ Earlier)
      /\ \A i \in Unanswered : history[i] \in T /\ NotedAt[i] \in T
      /\ pending.carried \in Seq(T) /\ A \in Seq(T) /\ C \in Seq(T)
      /\ Carried = A \o pending.carried \o C
  BY CarriedParts
<1>2. Earlier \subseteq Unanswered
  BY DEF Earlier
<1>3. Number(A, S) = Cardinality(P)
  <2>1. \A p : p \in P <=> p \in Earlier /\ NotedAt[p] \in S
    OBVIOUS
  <2>2. Earlier \in SUBSET Nat /\ IsFiniteSet(Earlier) /\ A \in Seq(T)
    BY <1>1
  <2> HIDE DEF P, S, T
  <2> QED
    BY <2>1, <2>2, NumberOfPick
<1>4. Number(C, S) = Cardinality(Q)
  <2>1. \A p : p \in Q <=> p \in Unanswered \ Earlier /\ history[p] \in S
    OBVIOUS
  <2>2. Unanswered \ Earlier \in SUBSET Nat /\ IsFiniteSet(Unanswered \ Earlier) /\ C \in Seq(T)
    BY <1>1
  <2> HIDE DEF Q, S, T
  <2> QED
    BY <2>1, <2>2, NumberOfPick
<1>5. P \subseteq Hits(history, New(m)) /\ Q \subseteq Hits(history, New(m)) /\ P \cap Q = {}
  <2>1. \A i \in Unanswered : history[i] \notin lastCarried
    BY DEF Unanswered
  <2>2. \A i \in Earlier : NotedAt[i] \in S => history[i] \in S
    BY <1>1, <1>2, NotesAreCopies
  <2> QED
    BY <1>1, <1>2, <2>1, <2>2 DEF Hits, New
<1>6. /\ IsFiniteSet(Hits(history, New(m)))
      /\ Number(history, New(m)) = Cardinality(Hits(history, New(m)))
  BY SeqKinds, NumberType
<1> HIDE DEF P, Q
<1>7. Cardinality(P) + Cardinality(Q) <= Number(history, New(m))
  <2>1. IsFiniteSet(P) /\ IsFiniteSet(Q) /\ P \cup Q \subseteq Hits(history, New(m))
    BY <1>5, <1>6, FS_Subset
  <2>2. Cardinality(P \cup Q) = Cardinality(P) + Cardinality(Q) - Cardinality(P \cap Q)
    BY <2>1, FS_Union
  <2>3. Cardinality(P \cap Q) = 0
    BY <1>5, FS_EmptySet
  <2>4. Cardinality(P \cup Q) <= Cardinality(Hits(history, New(m)))
    BY <1>6, <2>1, FS_Subset
  <2>5. Cardinality(P) \in Nat /\ Cardinality(Q) \in Nat
    BY <2>1, FS_CardinalityType
  <2> QED
    BY <1>6, <2>2, <2>3, <2>4, <2>5
<1>8. Number(Carried, S) = Number(A, S) + Number(pending.carried, S) + Number(C, S)
  <2> DEFINE B == A \o pending.carried
  <2>1. B \in Seq(T) /\ C \in Seq(T)
    BY <1>1, ConcatProperties
  <2>2. Number(B, S) = Number(A, S) + Number(pending.carried, S)
    BY <1>1, NumberOfConcat
  <2>3. Carried = B \o C
    BY <1>1
  <2> HIDE DEF B, A, C, S, T
  <2>4. Number(B \o C, S) = Number(B, S) + Number(C, S)
    BY <2>1, NumberOfConcat
  <2> QED
    BY <2>2, <2>3, <2>4
<1>9. Number(pending.carried, S) = Number(Requested, S) /\ Number(Requested, S) \in Nat
  BY Numbers DEF Requested
<1>10. Cardinality(P) \in Nat /\ Cardinality(Q) \in Nat
  BY <1>5, <1>6, FS_Subset, FS_CardinalityType
<1>11. Number(history, New(m)) \in Nat
  BY Numbers
<1>12. Number(Carried, S) <= Number(Requested, S) + Number(history, New(m))
  <2> HIDE DEF S, A, C
  <2> QED
    BY <1>3, <1>4, <1>7, <1>8, <1>9, <1>10, <1>11
<1> QED
  BY <1>12

\* What the restart r does with its hold.
LEMMA HeldBy ==
  ASSUME TypeOK, UNCHANGED kind, NEW r \in Restart, NEW h, hold' = [hold EXCEPT ![r] = h]
  PROVE  /\ Held(r)' = IF kind[r] = "handoff" THEN h ELSE <<>>
         /\ \A q \in Restart \cup {None} : q # r => Held(q)' = Held(q)
<1>1. hold'[r] = h /\ \A q \in Restart : q # r => hold'[q] = hold[q]
  BY DEF TypeOK, CallTypes
<1> QED
  BY <1>1 DEF Held

LEMMA TakeCounts ==
  ASSUME TypeOK, KindInv, NEW r \in Restart, TakePendingRestart(r), pending # None
  PROVE  /\ \A S : Moving(S)' + Number(Requested, S) = Moving(S)
         /\ Held(r) = <<>> /\ Held(r)' = Carried
         /\ \A q \in Restart \cup {None} : q # r => Held(q)' = Held(q)
         /\ pending' = None
<1>1. /\ UNCHANGED <<steer, followUps, input, kind>> /\ pending' = None
      /\ hold' = [hold EXCEPT ![r] = Carried] /\ pc[r] = "take"
  BY DEF TakePendingRestart, At, agentVars
<1>2. kind[r] = "handoff" /\ hold[r] = <<>>
  BY <1>1 DEF KindInv, RightKind, Underway
<1>3. Held(r) = <<>> /\ Held(r)' = Carried /\ \A q \in Restart \cup {None} : q # r => Held(q)' = Held(q)
  BY <1>1, <1>2, HeldBy DEF Held
<1>4. ASSUME NEW S
      PROVE  Moving(S)' + Number(Requested, S) = Moving(S)
  <2>1. Number(Requested', S) = 0
    BY <1>1, NumberOfFew DEF Requested
  <2>2. Moving(S)' = Number(steer, S) + Number(followUps, S) + Number(input, S) + 0
    BY <1>1, <2>1 DEF Moving
  <2> QED
    BY <2>2, Numbers DEF Moving
<1> QED
  BY <1>1, <1>3, <1>4

LEMMA TakeQueuesCounts ==
  ASSUME TypeOK, NEW r \in Restart, TakeQueues(r)
  PROVE  /\ \A S : Moving(S)' + Number(Queued, S) = Moving(S)
         /\ \A S : Number(hold'[r], S) = Number(hold[r], S) + Number(Queued, S)
         /\ \A S : Number(Queued', S) = 0
         /\ \A q \in Restart : q # r => hold'[q] = hold[q]
         /\ \A S : \A q \in Restart \cup {None} : Travelling(S, q)' <= Travelling(S, q)
<1>1. /\ UNCHANGED <<input, pending, kind>> /\ steer' = <<>> /\ followUps' = <<>>
      /\ hold' = [hold EXCEPT ![r] = hold[r] \o Queued]
  BY DEF TakeQueues, bridgeVars, TypeOK, CallTypes
<1>2. hold'[r] = hold[r] \o Queued /\ \A q \in Restart : q # r => hold'[q] = hold[q]
  BY <1>1 DEF TypeOK, CallTypes
<1>3. Held(r)' = (IF kind[r] = "handoff" THEN hold[r] \o Queued ELSE <<>>)
      /\ \A q \in Restart \cup {None} : q # r => Held(q)' = Held(q)
  BY <1>1, HeldBy
<1>4. ASSUME NEW S
      PROVE  /\ Moving(S)' + Number(Queued, S) = Moving(S)
             /\ Number(hold'[r], S) = Number(hold[r], S) + Number(Queued, S)
             /\ Number(Queued', S) = 0
             /\ \A q \in Restart \cup {None} : Travelling(S, q)' <= Travelling(S, q)
  <2>1. Number(hold'[r], S) = Number(hold[r], S) + Number(Queued, S)
    BY <1>2, SeqKinds, NumberOfConcat
  <2>2. Number(<<>>, S) = 0 /\ <<>> \o <<>> = <<>>
    BY NumberOfFew
  <2>3. Number(steer', S) = 0 /\ Number(followUps', S) = 0 /\ Number(Queued', S) = 0
    BY <1>1, <2>2 DEF Queued
  <2>4. Moving(S)' = 0 + 0 + Number(input, S) + Number(Requested, S)
    BY <1>1, <2>3 DEF Moving, Requested
  <2>5. Moving(S)' + Number(Queued, S) = Moving(S)
    BY <2>4, Numbers DEF Moving
  <2>6. ASSUME NEW q \in Restart \cup {None}
        PROVE  Travelling(S, q)' <= Travelling(S, q)
    <3>1. Number(Held(q)', S) <= Number(Held(q), S) + Number(Queued, S)
      <4>1. CASE q = r /\ kind[r] = "handoff"
        <5>1. Held(q)' = hold'[r] /\ Held(q) = hold[r]
          BY <1>2, <1>3, <4>1 DEF Held
        <5>2. Number(hold'[r], S) \in Nat
          BY <2>1, Numbers
        <5> QED
          BY <2>1, <5>1, <5>2
      <4>2. CASE q = r /\ kind[r] # "handoff"
        BY <1>3, <2>2, <4>2, Numbers DEF Held
      <4>3. CASE q # r
        BY <1>3, <4>3, Numbers
      <4> QED
        BY <4>1, <4>2, <4>3
    <3>2. /\ Number(Held(q), S) \in Nat /\ Number(Queued, S) \in Nat /\ Moving(S) \in Nat
      BY Numbers
    <3>3. Number(Held(q)', S) \in Nat /\ Moving(S)' \in Nat
      <4>1. Held(q)' = <<>> \/ (q \in Restart /\ Held(q)' = hold[q]) \/ (q \in Restart /\ Held(q)' = hold'[q])
        BY <1>1, <1>2, <1>3 DEF Held
      <4>2. \A p \in Restart : Number(hold[p], S) \in Nat /\ Number(hold'[p], S) \in Nat
        <5> TAKE p \in Restart
        <5>1. Number(hold[p], S) \in Nat /\ Number(hold[r], S) \in Nat /\ Number(Queued, S) \in Nat
          BY Numbers
        <5>2. CASE p = r
          BY <2>1, <5>1, <5>2
        <5>3. CASE p # r
          BY <1>2, <5>1, <5>3
        <5> QED
          BY <5>2, <5>3
      <4>3. Moving(S)' \in Nat
        BY <2>4, Numbers
      <4> QED
        BY <2>2, <4>1, <4>2, <4>3
    <3>4. Travelling(S, q)' = Moving(S)' + Number(Held(q)', S) /\ Travelling(S, q) = Moving(S) + Number(Held(q), S)
      BY DEF Travelling
    <3> QED
      BY <2>5, <3>1, <3>2, <3>3, <3>4
  <2> QED
    BY <2>1, <2>3, <2>5, <2>6
<1> QED
  BY <1>2, <1>4

LEMMA CarryCounts ==
  ASSUME TypeOK, NEW r \in Restart, kind[r] = "handoff", Carry(r)
  PROVE  /\ \A S : Moving(S)' = Moving(S) + Number(Held(r), S)
         /\ Held(r)' = <<>> /\ Held(r) = hold[r] /\ UNCHANGED pending
         /\ \A q \in Restart : q # r => hold'[q] = hold[q]
         /\ \A q \in Restart \cup {None} : q # r => Held(q)' = Held(q)
<1>1. /\ UNCHANGED <<steer, input, pending, kind>> /\ FollowUp(hold[r])
      /\ hold' = [hold EXCEPT ![r] = <<>>]
  BY DEF Carry, bridgeVars
<1>2. hold[r] \in Seq(Sent \cup {Prompt}) /\ Held(r) = hold[r]
  BY DEF TypeOK, CallTypes, Held
<1>3. \A S : Moving(S)' = Moving(S) + Number(hold[r], S)
  BY <1>1, <1>2, FollowUpCounts
<1>4. Held(r)' = <<>> /\ \A q \in Restart \cup {None} : q # r => Held(q)' = Held(q)
  BY <1>1, HeldBy
<1>5. \A q \in Restart : q # r => hold'[q] = hold[q]
  BY <1>1 DEF TypeOK, CallTypes
<1> QED
  BY <1>1, <1>2, <1>3, <1>4, <1>5

\* All that is counted is a number, before a step and after it.
Countable ==
  /\ steer \in Seq(Item) /\ followUps \in Seq(Item) /\ history \in Seq(Item)
  /\ \A S : /\ Moving(S) \in Nat /\ Number(Queued, S) \in Nat /\ Number(history, S) \in Nat
            /\ Number(steer, S) \in Nat /\ Number(followUps, S) \in Nat
            /\ Number(Queued, S) = Number(steer, S) + Number(followUps, S)
            /\ \A r \in Restart : Number(hold[r], S) \in Nat
            /\ \A r \in Restart \cup {None} : Number(Held(r), S) \in Nat /\ Travelling(S, r) \in Nat

LEMMA CountableBefore == TypeOK => Countable
BY Numbers, SeqKinds DEF Countable

LEMMA CountableAfter == TypeOK /\ [Next]_vars => Countable'
<1>1. TypeOK /\ [Next]_vars => TypeOK'
  BY StepTypes
<1> QED
  BY <1>1, CountableBefore, PTL

\* A queue gains only what its sender puts into it.
Gains(q, new, S) == Number(new, S) <= Number(q, S)

LEMMA GainsNothing ==
  ASSUME NEW q \in Seq(Item), NEW S
  PROVE  /\ Gains(q, q, S) /\ Gains(q, <<>>, S)
         /\ \A x \in Item : x \notin S => Gains(q, Append(q, x), S) /\ Gains(q, q \o <<x>>, S)
<1>1. Number(q, S) \in Nat /\ Number(<<>>, S) = 0
  BY NumberType, NumberOfFew
<1>2. ASSUME NEW x \in Item, x \notin S
      PROVE  Number(Append(q, x), S) = Number(q, S) /\ Append(q, x) = q \o <<x>>
  <2>1. Number(Append(q, x), S) = Number(q, S) + IF x \in S THEN 1 ELSE 0
    BY NumberOfAppend
  <2>2. Append(q, x) = q \o <<x>>
    BY AppendIsConcat
  <2> QED
    BY <1>1, <1>2, <2>1, <2>2
<1>3. Gains(q, q, S) /\ Gains(q, <<>>, S)
  BY <1>1 DEF Gains
<1>4. ASSUME NEW x \in Item, x \notin S
      PROVE  Gains(q, Append(q, x), S) /\ Gains(q, q \o <<x>>, S)
  <2>1. Number(Append(q, x), S) = Number(q, S) /\ Append(q, x) = q \o <<x>>
    BY <1>2, <1>4
  <2>2. Gains(q, Append(q, x), S)
    BY <1>1, <2>1 DEF Gains
  <2> QED
    BY <2>1, <2>2
<1> QED
  BY <1>3, <1>4

\* What the queues are after a step, but for a hand-off's Carry.
LEMMA QueueSteps ==
  ASSUME TypeOK, [Next]_vars, \A r \in Restart : ~Carry(r)
  PROVE  \/ UNCHANGED <<steer, followUps>>
         \/ steer' \in {steer, <<>>} /\ followUps' \in {followUps, <<>>}
         \/ \E c \in Caller : /\ Goto(c, "done") /\ pc[c] \notin {"wait", "done"}
                              /\ \/ steer' = Append(steer, c) /\ followUps' = followUps /\ c \in Message
                                 \/ steer' = steer /\ followUps' = followUps \o <<Text(c)>>
<1>1. CASE UNCHANGED vars
  BY <1>1 DEF vars, agentVars
<1>2. CASE Agent
  BY <1>2 DEF Agent, RunStarts, Deliver, ModelReplies, ToolsEnd, Settle, RunEnds, AgentIdles
<1>3. CASE Dequeue \/ Escape \/ SetModel \/ Persist \/ \E c \in Context : PrependContext(c)
  BY <1>3 DEF Dequeue, Escape, SetModel, Persist, PrependContext, agentVars
<1>4. ASSUME NEW m \in Message, Submit(m) \/ SendUserMessage(m) \/ Inject(m) \/ InjectedRun(m)
      PROVE  UNCHANGED <<steer, followUps>>
  BY <1>4 DEF Submit, SendUserMessage, Inject, InjectedRun, agentVars
<1>5. ASSUME NEW m \in Message, Queue(m)
      PROVE  /\ Goto(m, "done") /\ pc[m] \notin {"wait", "done"}
             /\ \/ steer' = Append(steer, m) /\ followUps' = followUps
                \/ steer' = steer /\ followUps' = followUps \o <<Text(m)>>
  <2>1. Text(m) = m
    BY TextType DEF Caller
  <2> QED
    BY <1>5, <2>1 DEF Queue, At, FollowUp
<1>6. ASSUME NEW c \in Caller, PromptStep(c)
      PROVE  \/ UNCHANGED <<steer, followUps>>
             \/ /\ Goto(c, "done") /\ pc[c] \notin {"wait", "done"}
                /\ steer' = steer /\ followUps' = followUps \o <<Text(c)>>
  BY <1>6 DEF PromptStep, CheckStreaming, Send, Fallback, Refuse, WaitForIdle, At, FollowUp, agentVars
<1>7. ASSUME NEW r \in Restart, RestartStep(r)
      PROVE  steer' \in {steer, <<>>} /\ followUps' \in {followUps, <<>>}
  BY <1>7 DEF RestartStep, RestartSession, RestartAborts, RestartWaits, TakePendingRestart,
     StartNew, TakeQueues, StopRun, RunStopped, NewTranscript, Erase, Brief, RestartPrompts, agentVars
<1>8. Message \subseteq Caller
  BY DEF Caller
<1> QED
  BY <1>1, <1>2, <1>3, <1>4, <1>5, <1>6, <1>7, <1>8 DEF Next

LEMMA QueueCounts ==
  ASSUME TypeOK, [Next]_vars, \A r \in Restart : ~Carry(r), NEW S \in SUBSET Sent,
         \A c \in Message \cap S : ~Taken(c)
  PROVE  Number(Queued, S)' <= Number(Queued, S)
<1>1. Countable /\ Countable'
  BY CountableBefore, CountableAfter
<1>2. /\ steer \in Seq(Item) /\ followUps \in Seq(Item)
      /\ Number(steer, S) \in Nat /\ Number(followUps, S) \in Nat
      /\ Number(Queued, S) = Number(steer, S) + Number(followUps, S)
  BY <1>1 DEF Countable
<1>3. /\ Number(steer', S) \in Nat /\ Number(followUps', S) \in Nat
      /\ Number(Queued', S) = Number(steer', S) + Number(followUps', S)
  BY <1>1 DEF Countable
<1>4. Gains(steer, steer', S) /\ Gains(followUps, followUps', S)
  <2>1. CASE steer' \in {steer, <<>>} /\ followUps' \in {followUps, <<>>}
    BY <1>2, <2>1, GainsNothing
  <2>2. ASSUME NEW c \in Caller, Goto(c, "done"), pc[c] \notin {"wait", "done"},
               \/ steer' = Append(steer, c) /\ followUps' = followUps /\ c \in Message
               \/ steer' = steer /\ followUps' = followUps \o <<Text(c)>>
        PROVE  Gains(steer, steer', S) /\ Gains(followUps, followUps', S)
    <3>1. pc'[c] = "done"
      BY <2>2, Went DEF TypeOK
    <3>2. c \notin Message \cap S
      BY <2>2, <3>1 DEF Taken
    <3>3. /\ c \in Message => Text(c) = c /\ c \in Item
          /\ c \in Restart => Text(c) = Prompt
          /\ Prompt \in Item /\ Prompt \notin S
      BY TextType, Kinds DEF Item
    <3>4. Text(c) \in Item /\ Text(c) \notin S
      BY <3>2, <3>3 DEF Caller
    <3> QED
      BY <1>2, <2>2, <3>2, <3>3, <3>4, GainsNothing
  <2> QED
    BY <2>1, <2>2, QueueSteps
<1> QED
  BY <1>2, <1>3, <1>4 DEF Gains

\* The history grows by a message when that is delivered.
LEMMA HistoryCounts ==
  ASSUME TypeOK, [Next]_vars, NEW S \in SUBSET Sent
  PROVE  /\ ~Deliver => Number(history, S)' <= Number(history, S)
         /\ Deliver => Number(history, S)' = Number(history, S) + IF Head(input) \in S THEN 1 ELSE 0
<1>0. history \in Seq(Item) /\ Number(history, S) \in Nat /\ Number(<<>>, S) = 0
  BY SeqKinds, NumberType, NumberOfFew
<1>1. ASSUME NEW x \in Item, x \notin S, history' = Append(history, x)
      PROVE  Number(history, S)' <= Number(history, S)
  BY <1>0, <1>1, GainsNothing DEF Gains
<1>2. CASE UNCHANGED history
  <2>1. ~Deliver
    <3> SUFFICES ASSUME Deliver PROVE FALSE
      OBVIOUS
    <3>1. history' = Append(history, Head(input))
      BY DEF Deliver
    <3>2. Head(input) \in Item
      BY SeqKinds, SeqOps DEF Deliver
    <3>3. Len(history') = Len(history) + 1 /\ Len(history) \in Nat
      BY <1>0, <3>1, <3>2, AppendProperties, LenProperties
    <3> QED
      BY <1>2, <3>3
  <2> QED
    BY <1>0, <1>2, <2>1
<1>3. CASE Deliver
  <2>1. history' = Append(history, Head(input)) /\ Head(input) \in Item
    BY <1>3, SeqKinds, SeqOps DEF Deliver
  <2> QED
    BY <1>0, <1>3, <2>1, NumberOfAppend
<1>4. CASE ModelReplies
  <2>1. PICK reply \in {"answer", "tool", "failed", "aborted"} : history' = Append(history, [reply |-> reply])
    BY <1>4 DEF ModelReplies
  <2>2. [reply |-> reply] \in Reply
    BY DEF Reply
  <2>3. [reply |-> reply] \in Item /\ [reply |-> reply] \notin S
    BY <2>2, Kinds DEF Item
  <2>4. ~Deliver
    BY <1>4 DEF ModelReplies, Deliver
  <2> QED
    BY <1>1, <2>1, <2>3, <2>4
<1>5. CASE RunEnds
  <2>1. history' = history \o contexts /\ ~Deliver
    BY <1>5 DEF RunEnds, Deliver
  <2>2. Number(history \o contexts, S) = Number(history, S) + Number(contexts, S)
    BY <1>0, SeqKinds, NumberOfConcat
  <2>3. Number(contexts, S) = 0
    BY NotSent DEF TypeOK, AgentTypes
  <2> QED
    BY <1>0, <2>1, <2>2, <2>3
<1>6. ASSUME NEW c \in Context, Prepend(c), ~Deliver
      PROVE  Number(history, S)' <= Number(history, S)
  <2>1. c \in Item /\ c \notin S
    BY Kinds DEF Item
  <2>2. history' = history \/ history' = Append(history, c)
    BY <1>6 DEF Prepend
  <2> QED
    BY <1>0, <1>1, <2>1, <2>2
<1>7. ASSUME NEW r \in Restart, Erase(r)
      PROVE  Number(history, S)' <= Number(history, S)
  <2>1. history' = <<>>
    BY <1>7 DEF Erase
  <2> QED
    BY <1>0, <2>1
<1>8. CASE Agent
  <2>1. Deliver \/ ModelReplies \/ RunEnds \/ UNCHANGED history
    BY <1>8 DEF Agent, RunStarts, ToolsEnd, Settle, AgentIdles
  <2> QED
    BY <1>2, <1>3, <1>4, <1>5, <2>1
<1> QED
  BY <1>2, <1>3, <1>6, <1>7, <1>8, ConversationSteps DEF convVars

\* The steps of a restart that neither take nor bring messages.
LEMMA RestartCounts ==
  ASSUME TypeOK, KindInv, NEW r \in Restart, RestartStep(r), ~TakeQueues(r), ~Carry(r),
         ~(TakePendingRestart(r) /\ pending # None)
  PROVE  /\ HoldSame
         /\ \A S : Moving(S)' = Moving(S)
         /\ \A q \in Restart : hold'[q] \in {hold[q], <<>>}
         /\ pending' = pending \/ (RestartSession(r) /\ Queued' = <<>>)
<1>0. CallTypes /\ RightKind(r)
  BY DEF TypeOK, KindInv
<1>1. CASE RestartSession(r)
  <2>1. /\ UNCHANGED <<input, hold>> /\ kind' = [kind EXCEPT ![r] = "handoff"]
        /\ steer' = <<>> /\ followUps' = <<>> /\ pc[r] = "unsent"
        /\ pending' = [carried |-> (IF pending = None THEN <<>> ELSE pending.carried) \o Queued, before |-> Submitted]
    BY <1>1 DEF RestartSession, At
  <2>2. Requested' = Requested \o Queued
    <3>1. Requested \o Queued \in Seq(Sent \cup {Prompt}) /\ Submitted \subseteq Message
      BY SeqKinds, SeqOps DEF Submitted
    <3>2. pending' \in Request
      BY <2>1, <3>1 DEF Request, Requested
    <3>3. pending' # None
      BY <3>2, Kinds
    <3> QED
      BY <2>1, <3>3 DEF Requested
  <2>3. hold[r] = <<>> /\ kind[r] = "none"
    BY <1>0, <2>1 DEF RightKind, Underway
  <2>4. HoldSame
    <3> SUFFICES ASSUME NEW q \in Restart \cup {None} PROVE Held(q)' = Held(q)
      BY DEF HoldSame
    <3>1. CASE q = r
      BY <2>1, <2>3, <3>1 DEF Held
    <3>2. CASE q # r
      BY <1>0, <2>1, <3>2 DEF Held, CallTypes
    <3> QED
      BY <3>1, <3>2
  <2>5. ASSUME NEW S PROVE Moving(S)' = Moving(S)
    <3>1. Number(Requested \o Queued, S) = Number(Requested, S) + Number(Queued, S)
      BY SeqKinds, NumberOfConcat
    <3>2. Number(<<>>, S) = 0
      BY NumberOfFew
    <3>3. Moving(S)' = 0 + 0 + Number(input, S) + (Number(Requested, S) + Number(Queued, S))
      BY <2>1, <2>2, <3>1, <3>2 DEF Moving
    <3> QED
      BY <3>3, Numbers DEF Moving
  <2>6. Queued' = <<>>
    BY <2>1 DEF Queued
  <2> QED
    BY <1>1, <2>1, <2>4, <2>5, <2>6
<1>2. CASE Erase(r)
  <2>1. /\ UNCHANGED <<steer, followUps, input, pending, kind>>
        /\ UNCHANGED hold \/ (kind[r] = "new" /\ hold' = [hold EXCEPT ![r] = <<>>])
    BY <1>2 DEF Erase, bridgeVars
  <2>2. CASE UNCHANGED hold
    BY <2>1, <2>2, SameHold, SameMoving
  <2>3. CASE kind[r] = "new" /\ hold' = [hold EXCEPT ![r] = <<>>]
    <3>1. /\ Held(r)' = <<>> /\ Held(r) = <<>>
          /\ \A q \in Restart \cup {None} : q # r => Held(q)' = Held(q)
      BY <2>1, <2>3, HeldBy DEF Held
    <3>2. HoldSame
      BY <3>1 DEF HoldSame
    <3>3. \A q \in Restart : hold'[q] \in {hold[q], <<>>}
      BY <1>0, <2>3 DEF CallTypes
    <3> QED
      BY <2>1, <3>2, <3>3, SameMoving
  <2> QED
    BY <2>1, <2>2, <2>3
<1>3. CASE StartNew(r)
  <2>1. /\ UNCHANGED <<steer, followUps, input, pending, hold>> /\ kind' = [kind EXCEPT ![r] = "new"]
        /\ pc[r] = "unsent"
    BY <1>3 DEF StartNew, At, agentVars, bridgeVars
  <2>2. kind[r] = "none"
    BY <1>0, <2>1 DEF RightKind
  <2>3. HoldSame
    <3> SUFFICES ASSUME NEW q \in Restart \cup {None} PROVE Held(q)' = Held(q)
      BY DEF HoldSame
    <3>1. CASE q = r
      BY <1>0, <2>1, <2>2, <3>1 DEF Held, CallTypes
    <3>2. CASE q # r
      BY <1>0, <2>1, <3>2 DEF Held, CallTypes
    <3> QED
      BY <3>1, <3>2
  <2> QED
    BY <2>1, <2>3, SameMoving
<1>4. CASE \/ RestartAborts(r) \/ RestartWaits(r) \/ StopRun(r) \/ RunStopped(r)
           \/ NewTranscript(r) \/ Brief(r) \/ RestartPrompts(r)
           \/ (TakePendingRestart(r) /\ pending = None)
  <2>1. UNCHANGED <<steer, followUps, input, pending, kind, hold>>
    BY <1>4 DEF RestartAborts, RestartWaits, StopRun, RunStopped, NewTranscript, Brief, RestartPrompts,
       TakePendingRestart, agentVars, bridgeVars
  <2> QED
    BY <2>1, SameHold, SameMoving
<1> QED
  BY <1>1, <1>2, <1>3, <1>4 DEF RestartStep

-----------------------------------------------------------------------------
(* Who is on the way, and what stays.                                       *)

\* A message that was taken stays taken.
LEMMA StaysTaken ==
  ASSUME TypeOK, [Next]_vars, NEW m \in Message, pc[m] \in {"wait", "done"}
  PROVE  pc'[m] \in {"wait", "done"}
<1> m \in Caller
  BY DEF Caller
<1>1. UNCHANGED callVars => pc'[m] = pc[m]
  BY DEF callVars
<1>2. CASE UNCHANGED vars
  BY <1>1, <1>2 DEF vars
<1>3. CASE Agent
  BY <1>1, <1>3 DEF Agent, RunStarts, Deliver, ModelReplies, ToolsEnd, Settle, RunEnds, AgentIdles
<1>4. CASE Dequeue \/ Escape \/ SetModel \/ Persist \/ \E c \in Context : PrependContext(c)
  BY <1>1, <1>4 DEF Dequeue, Escape, SetModel, Persist, PrependContext
<1>5. ASSUME NEW d \in Message, Submit(d) \/ SendUserMessage(d) \/ Queue(d) \/ Inject(d) \/ InjectedRun(d)
      PROVE  pc'[m] \in {"wait", "done"}
  <2>1. pc[d] \notin {"wait", "done"} /\ d \in Caller
    BY <1>5 DEF Submit, SendUserMessage, Queue, Inject, InjectedRun, At, Caller
  <2>2. \E step \in Place : Goto(d, step)
    BY <1>5, Places DEF Submit, Accept, SendUserMessage, Queue, Inject, InjectedRun
  <2> QED
    BY <2>1, <2>2, Went DEF TypeOK
<1>6. ASSUME NEW c \in Caller, PromptStep(c)
      PROVE  pc'[m] \in {"wait", "done"}
  <2>1. /\ pc[c] \in {"accepted", "send", "fallback", "refuse", "wait"}
        /\ \A d \in Caller : d # c => pc'[d] = pc[d]
    BY <1>6, PromptMoves
  <2>2. CASE c = m
    <3>1. WaitForIdle(m)
      BY <1>6, <2>1, <2>2 DEF PromptStep, CheckStreaming, Send, Fallback, Refuse, At
    <3> QED
      BY <3>1, Went DEF WaitForIdle, TypeOK
  <2>3. CASE c # m
    BY <2>1, <2>3
  <2> QED
    BY <2>2, <2>3
<1>7. ASSUME NEW r \in Restart, RestartStep(r)
      PROVE  pc'[m] = pc[m]
  <2>1. r # m
    BY Kinds
  <2> QED
    BY <1>7, <2>1, RestartMoves
<1> QED
  BY <1>2, <1>3, <1>4, <1>5, <1>6, <1>7 DEF Next

\* A hand-off has left when it has erased the history.
LEMMA LeavesByErasing ==
  ASSUME TypeOK, KindInv, [Next]_vars, NEW r \in Restart, Leaving(r), ~Leaving(r)'
  PROVE  history' = <<>>
<1> r \in Caller
  BY DEF Caller
<1>1. ~(kind'[r] = kind[r] /\ pc'[r] = pc[r])
  BY DEF Leaving
<1>2. PICK q \in Restart : PromptStep(q) \/ RestartStep(q)
  BY <1>1, RestartSteps
<1>3. q \in Caller
  BY DEF Caller
<1>4. ~PromptStep(q)
  <2> SUFFICES ASSUME PromptStep(q) PROVE FALSE
    OBVIOUS
  <2>1. /\ pc[q] \in {"accepted", "send", "fallback", "refuse", "wait"}
        /\ \A d \in Caller : d # q => pc'[d] = pc[d]
        /\ UNCHANGED kind
    BY <1>3, PromptMoves
  <2> QED
    BY <1>1, <2>1 DEF Leaving
<1>5. RestartStep(r)
  <2>1. q = r
    BY <1>1, <1>2, <1>4, RestartMoves
  <2> QED
    BY <1>2, <1>4, <2>1
<1>6. kind'[r] = "handoff"
  BY <1>5, RestartMoves DEF Leaving
<1>7. ~(TakeQueues(r) \/ StopRun(r) \/ RunStopped(r) \/ NewTranscript(r))
  <2> SUFFICES ASSUME TakeQueues(r) \/ StopRun(r) \/ RunStopped(r) \/ NewTranscript(r) PROVE FALSE
    OBVIOUS
  <2>1. \E step \in {"stop", "reset", "stopped", "again", "erase"} : Goto(r, step)
    BY DEF TakeQueues, StopRun, RunStopped, NewTranscript
  <2>2. pc'[r] \in {"stop", "reset", "stopped", "again", "erase"}
    BY <2>1, Went DEF TypeOK
  <2> QED
    BY <1>6, <2>2 DEF Leaving
<1>8. Erase(r)
  BY <1>5, <1>7 DEF Leaving, RestartStep, RestartSession, RestartAborts, RestartWaits, TakePendingRestart,
     StartNew, Brief, Carry, RestartPrompts, At
<1> QED
  BY <1>8 DEF Erase

-----------------------------------------------------------------------------
(* The counts, step by step.                                                *)

\* A hand-off takes its request.
Taking == \E r \in Restart : TakePendingRestart(r) /\ pending # None

LEMMA UncarriedIs ==
  ASSUME TypeOK, NEW m \in Message
  PROVE  /\ Uncarried(m) \in Nat /\ Uncarried(m) <= Number(history, New(m))
         /\ Uncarried(m) <= Number(history, Copies(m))
<1>1. Number(history, New(m)) \in Nat /\ Number(history, Copies(m)) \in Nat
  BY Numbers
<1>2. Number(history, New(m)) <= Number(history, Copies(m))
  BY SeqKinds, NumberGrows DEF New
<1> QED
  BY <1>1, <1>2 DEF Uncarried, New

\* What the next hand-off would carry grows by deliveries only.
LEMMA UncarriedStays ==
  ASSUME TypeOK, KindInv, [Next]_vars, ~Deliver, ~Taking, NEW m \in Message
  PROVE  Uncarried(m)' <= Uncarried(m)
<1>1. UNCHANGED lastCarried
  BY DueMoves DEF Taking
<1>2. New(m) \in SUBSET Sent /\ New(m)' = New(m)
  BY <1>1, Kinds DEF New
<1>3. Number(history', New(m)) <= Number(history, New(m))
  <2>1. PICK S \in SUBSET Sent : S = New(m)
    BY <1>2
  <2>2. Number(history, S)' <= Number(history, S)
    BY HistoryCounts
  <2> QED
    BY <2>1, <2>2
<1>4. Number(history, New(m)) \in Nat /\ Number(<<>>, New(m)) = 0
  BY Numbers, NumberOfFew
<1>5. CASE \E r \in Restart : Leaving(r)'
  <2>1. Uncarried(m)' = 0
    BY <1>5 DEF Uncarried
  <2> QED
    BY <2>1, UncarriedIs
<1>6. CASE \E r \in Restart : Leaving(r) /\ ~Leaving(r)'
  <2>1. history' = <<>>
    BY <1>6, LeavesByErasing
  <2>2. Uncarried(m)' = 0
    BY <1>2, <1>4, <2>1 DEF Uncarried, New
  <2> QED
    BY <2>2, UncarriedIs
<1>7. CASE \A r \in Restart : ~Leaving(r) /\ ~Leaving(r)'
  BY <1>2, <1>3, <1>7 DEF Uncarried, New
<1> QED
  BY <1>5, <1>6, <1>7

\* Only its sender brings a message on its way.
LEMMA TravelsOn ==
  ASSUME TypeOK, ShapeInv, KindInv, AloneInv, [Next]_vars, ~entangled, ~Taking,
         NEW S \in SUBSET Sent, \A c \in Message \cap S : ~Taken(c)
  PROVE  \A q \in Restart \cup {None} : \E p \in Restart \cup {None} : Travelling(S, q)' <= Travelling(S, p)
<1>0. Countable /\ Countable'
  BY CountableBefore, CountableAfter
<1>1. ASSUME HoldSame, Moving(S)' <= Moving(S), NEW q \in Restart \cup {None}
      PROVE  Travelling(S, q)' <= Travelling(S, q)
  <2>1. Number(Held(q)', S) = Number(Held(q), S)
    BY <1>1 DEF HoldSame
  <2>2. Travelling(S, q)' = Moving(S)' + Number(Held(q)', S)
    BY DEF Travelling
  <2>3. Travelling(S, q) = Moving(S) + Number(Held(q), S)
    BY DEF Travelling
  <2>4. Moving(S) \in Nat /\ Moving(S)' \in Nat /\ Number(Held(q), S) \in Nat
    BY <1>0 DEF Countable
  <2> QED
    BY <1>1, <2>1, <2>2, <2>3, <2>4
<1>2. Moving(S) \in Nat /\ Moving(S)' \in Nat
  BY <1>0 DEF Countable
<1>3. CASE UNCHANGED vars
  <2>1. HoldSame /\ Moving(S)' = Moving(S)
    BY <1>3, SameHold, SameMoving DEF vars, agentVars, bridgeVars, callVars
  <2> QED
    BY <1>1, <1>2, <2>1
<1>4. CASE Agent
  <2>1. HoldSame /\ Moving(S)' <= Moving(S)
    BY <1>2, <1>4, AgentCounts
  <2> QED
    BY <1>1, <2>1
<1>5. CASE Dequeue \/ Escape \/ SetModel \/ Persist \/ \E c \in Context : PrependContext(c)
  BY <1>1, <1>5, OtherCounts
<1>6. ASSUME NEW c \in Caller,
             \/ PromptStep(c)
             \/ c \in Message /\ (Submit(c) \/ SendUserMessage(c) \/ Queue(c) \/ Inject(c) \/ InjectedRun(c))
      PROVE  HoldSame /\ Moving(S)' <= Moving(S)
  <2>1. /\ HoldSame
        /\ \/ Moving(S)' = Moving(S)
           \/ c \in Message /\ Taken(c) /\ Moving(S)' = Moving(S) + IF c \in S THEN 1 ELSE 0
    BY <1>6, SenderCounts
  <2> QED
    BY <1>2, <2>1
<1>7. ASSUME NEW r \in Restart, RestartStep(r), NEW q \in Restart \cup {None}
      PROVE  \E p \in Restart \cup {None} : Travelling(S, q)' <= Travelling(S, p)
  <2>1. CASE TakeQueues(r)
    BY <2>1, TakeQueuesCounts
  <2>2. CASE Carry(r)
    <3>1. Underway(r) /\ kind[r] = "handoff"
      BY <2>2 DEF Carry, At, KindInv, RightKind, Underway
    <3>2. \A p \in Restart : p # r => ~Underway(p)
      BY <3>1 DEF AloneInv
    <3>3. \A p \in Restart : p # r => Held(p) = <<>>
      BY <3>2 DEF Held, KindInv, RightKind
    <3>4. Held(None) = <<>>
      BY Kinds DEF Held
    <3>5. /\ Moving(S)' = Moving(S) + Number(Held(r), S)
          /\ Held(r)' = <<>> /\ \A p \in Restart \cup {None} : p # r => Held(p)' = Held(p)
      BY <2>2, <3>1, CarryCounts
    <3>6. Held(q)' = <<>>
      BY <3>3, <3>4, <3>5
    <3>7. Number(<<>>, S) = 0 /\ Moving(S)' \in Nat
      BY <1>2, NumberOfFew
    <3>8. Travelling(S, q)' = Moving(S)' + 0
      BY <3>6, <3>7 DEF Travelling
    <3>9. Travelling(S, r) = Moving(S) + Number(Held(r), S)
      BY DEF Travelling
    <3>10. Travelling(S, q)' <= Travelling(S, r)
      BY <3>5, <3>7, <3>8, <3>9
    <3> QED
      BY <3>10
  <2>3. CASE ~TakeQueues(r) /\ ~Carry(r)
    <3>1. HoldSame /\ Moving(S)' = Moving(S)
      BY <1>7, <2>3, RestartCounts DEF Taking
    <3> QED
      BY <1>1, <1>2, <3>1
  <2> QED
    BY <2>1, <2>2, <2>3
<1>8. CASE \E m \in Message : Submit(m) \/ SendUserMessage(m) \/ Queue(m) \/ Inject(m) \/ InjectedRun(m)
  <2>1. HoldSame /\ Moving(S)' <= Moving(S)
    BY <1>6, <1>8 DEF Caller
  <2> QED
    BY <1>1, <2>1
<1>9. CASE \E c \in Caller : PromptStep(c)
  <2>1. HoldSame /\ Moving(S)' <= Moving(S)
    BY <1>6, <1>9
  <2> QED
    BY <1>1, <2>1
<1> QED
  BY <1>3, <1>4, <1>5, <1>7, <1>8, <1>9 DEF Next

\* A hand-off is under way when it takes its request.
LEMMA UnderwayByTaking ==
  ASSUME TypeOK, KindInv, [Next]_vars, NEW r \in Restart, Underway(r)', ~Underway(r)
  PROVE  /\ TakePendingRestart(r) /\ pending # None /\ pc[r] = "take" /\ pc'[r] # pc[r]
         /\ \A q \in Restart : q # r => pc'[q] = pc[q] /\ kind'[q] = kind[q]
         /\ entangled' = (entangled \/ \E other \in Restart : Underway(other))
<1> r \in Caller
  BY DEF Caller
<1>1. ~(kind'[r] = kind[r] /\ pc'[r] = pc[r])
  BY DEF Underway
<1>2. PICK q \in Restart : PromptStep(q) \/ RestartStep(q)
  BY <1>1, RestartSteps
<1>3. q \in Caller
  BY DEF Caller
<1>4. ~PromptStep(q)
  <2> SUFFICES ASSUME PromptStep(q) PROVE FALSE
    OBVIOUS
  <2>1. /\ pc'[q] \in {"send", "wait", "done", "fallback", "refuse", "refused"}
        /\ \A d \in Caller : d # q => pc'[d] = pc[d]
        /\ UNCHANGED kind
    BY <1>3, PromptMoves
  <2> QED
    BY <1>1, <2>1 DEF Underway
<1>5. RestartStep(q)
  BY <1>2, <1>4
<1>6. q = r
  BY <1>1, <1>5, RestartMoves
<1>7. RestartStep(r)
  BY <1>5, <1>6
<1>8. Leaving(r)' \/ pc'[r] \in {"prepend", "carry"}
  BY DEF Underway, Leaving
<1>9. ~(pc'[r] \in {"prepend", "carry"})
  <2> SUFFICES ASSUME pc'[r] \in {"prepend", "carry"} PROVE FALSE
    OBVIOUS
  <2>1. kind'[r] = kind[r]
    BY <1>7, RestartMoves
  <2>2. kind[r] = "handoff" /\ pc[r] \notin {"erase", "prepend"}
    BY <2>1 DEF Underway
  <2>3. ~Erase(r) /\ ~Brief(r)
    BY <2>2 DEF Erase, Brief, At
  <2>4. \E step \in Place \ {"prepend", "carry"} : Goto(r, step)
    BY <1>7, <2>3, Places DEF RestartStep, RestartSession, RestartAborts, RestartWaits,
       TakePendingRestart, StartNew, TakeQueues, StopRun, RunStopped, NewTranscript,
       Carry, RestartPrompts, Accept
  <2> QED
    BY <2>4, Went DEF TypeOK
<1>10. TakePendingRestart(r) /\ pending # None
  <2>1. ~Leaving(r)
    BY DEF Underway, Leaving
  <2> QED
    BY <1>8, <1>9, <2>1, LeavesByTaking
<1>11. /\ pc[r] = "take" /\ Goto(r, "queues")
       /\ entangled' = (entangled \/ \E other \in Restart : Underway(other))
  BY <1>10 DEF TakePendingRestart, At
<1>12. pc'[r] = "queues"
  BY <1>11, Went DEF TypeOK
<1>13. \A p \in Restart : p # r => pc'[p] = pc[p] /\ kind'[p] = kind[p]
  BY <1>7, RestartMoves DEF Caller
<1> QED
  BY <1>10, <1>11, <1>12, <1>13

\* What was seen of overlapping hand-offs and of runs beside them stays so.
LEMMA MarksStay ==
  ASSUME TypeOK, [Next]_vars
  PROVE  (raced => raced') /\ (entangled => entangled')
<1>1. ASSUME UNCHANGED <<raced, entangled>>
      PROVE  (raced => raced') /\ (entangled => entangled')
  BY <1>1
<1>2. CASE UNCHANGED vars \/ Agent
  <2>1. UNCHANGED <<raced, entangled>>
    BY <1>2 DEF vars, Agent, RunStarts, Deliver, ModelReplies, ToolsEnd, Settle, RunEnds, AgentIdles, monitors
  <2> QED
    BY <1>1, <2>1
<1>3. CASE Dequeue \/ Escape \/ SetModel \/ Persist \/ \E c \in Context : PrependContext(c)
  <2>1. UNCHANGED <<raced, entangled>>
    BY <1>3 DEF Dequeue, Escape, SetModel, Persist, PrependContext, monitors
  <2> QED
    BY <1>1, <2>1
<1>4. ASSUME UNCHANGED entangled, UNCHANGED raced \/ \E ms : BeginRun(ms)
      PROVE  (raced => raced') /\ (entangled => entangled')
  <2>1. CASE UNCHANGED raced
    BY <1>1, <1>4, <2>1
  <2>2. ASSUME NEW ms, BeginRun(ms)
        PROVE  raced => raced'
    <3>1. raced' = (raced \/ \E r \in Restart : Resetting(r))
      BY <2>2 DEF BeginRun
    <3> QED
      BY <3>1
  <2>3. entangled => entangled'
    BY <1>4
  <2> QED
    BY <1>4, <2>1, <2>2, <2>3
<1>5. CASE \E m \in Message : Submit(m) \/ SendUserMessage(m) \/ Queue(m) \/ Inject(m) \/ InjectedRun(m)
  <2>1. UNCHANGED entangled
    BY <1>5 DEF Submit, SendUserMessage, Queue, Inject, InjectedRun, monitors
  <2>2. UNCHANGED raced \/ \E ms : BeginRun(ms)
    BY <1>5 DEF Submit, SendUserMessage, Queue, Inject, InjectedRun, monitors
  <2> QED
    BY <1>4, <2>1, <2>2
<1>6. CASE \E c \in Caller : PromptStep(c)
  <2>1. UNCHANGED entangled
    BY <1>6 DEF PromptStep, CheckStreaming, Send, Fallback, Refuse, WaitForIdle, monitors
  <2>2. UNCHANGED raced \/ \E ms : BeginRun(ms)
    BY <1>6 DEF PromptStep, CheckStreaming, Send, Fallback, Refuse, WaitForIdle, monitors
  <2> QED
    BY <1>4, <2>1, <2>2
<1>7. ASSUME NEW r \in Restart, RestartStep(r)
      PROVE  (raced => raced') /\ (entangled => entangled')
  <2>1. UNCHANGED raced
    BY <1>7 DEF RestartStep, RestartSession, RestartAborts, RestartWaits, TakePendingRestart,
       StartNew, TakeQueues, StopRun, RunStopped, NewTranscript, Erase, Brief, Carry,
       RestartPrompts, monitors
  <2>2. \/ UNCHANGED entangled
        \/ entangled' = (entangled \/ \E other \in Restart : Underway(other))
        \/ entangled' = (entangled \/ pending # None)
    BY <1>7 DEF RestartStep, RestartSession, RestartAborts, RestartWaits, TakePendingRestart,
       StartNew, TakeQueues, StopRun, RunStopped, NewTranscript, Erase, Brief, Carry,
       RestartPrompts, monitors
  <2>3. entangled => entangled'
    BY <2>2
  <2>4. raced => raced'
    BY <2>1
  <2> QED
    BY <2>3, <2>4
<1> QED
  BY <1>2, <1>3, <1>5, <1>6, <1>7 DEF Next

LEMMA AloneStep ==
  ASSUME TypeOK, KindInv, AloneInv, [Next]_vars
  PROVE  AloneInv'
<1> SUFFICES ASSUME ~entangled', NEW r \in Restart, NEW q \in Restart,
                    Underway(r)', Underway(q)', r # q
             PROVE  FALSE
  BY DEF AloneInv
<1>1. ~entangled
  BY MarksStay
<1>2. ASSUME NEW p \in Restart, ~Underway(p), Underway(p)',
             NEW o \in Restart, o # p, Underway(o)'
      PROVE  FALSE
  <2>1. ~Underway(o)
    BY <1>2, UnderwayByTaking
  <2>2. pc'[o] # pc[o]
    BY <1>2, <2>1, UnderwayByTaking
  <2>3. pc'[o] = pc[o]
    BY <1>2, UnderwayByTaking
  <2> QED
    BY <2>2, <2>3
<1>3. Underway(r) /\ Underway(q)
  BY <1>2
<1> QED
  BY <1>1, <1>3 DEF AloneInv

\* Steps that are none of a restart leave what restarts hold.
LEMMA HoldStays ==
  ASSUME TypeOK, [Next]_vars, \A r \in Restart : ~RestartStep(r)
  PROVE  UNCHANGED hold
BY RestartSteps, PromptMoves DEF Caller

LEMMA FreshStep ==
  ASSUME TypeOK, ShapeInv, KindInv, FreshInv, [Next]_vars
  PROVE  FreshInv'
<1> SUFFICES ASSUME NEW m \in Message, pc'[m] \notin {"wait", "done"}
             PROVE  /\ seen'[m] = 0 /\ Moving(Copies(m))' = 0 /\ Number(history', Copies(m)) = 0
                    /\ \A r \in Restart : Number(hold'[r], Copies(m)) = 0
  BY DEF FreshInv
<1>1. pc[m] \notin {"wait", "done"}
  BY StaysTaken
<1>2. PICK S \in SUBSET Sent : S = Copies(m)
  BY Kinds
<1>3. /\ seen[m] = 0 /\ Moving(S) = 0 /\ Number(history, S) = 0
      /\ \A r \in Restart : Number(hold[r], S) = 0
  BY <1>1, <1>2 DEF FreshInv
<1>4. \A c \in Message \cap S : c = m
  BY <1>2, Kinds DEF Copies
<1>5. ~Taken(m) /\ Countable /\ Countable'
  BY CountableBefore, CountableAfter DEF Taken
<1>6. Moving(S)' \in Nat /\ Number(history', S) \in Nat
  BY <1>5 DEF Countable
<1>7. Deliver => Head(input) \notin S
  <2> SUFFICES ASSUME Deliver, Head(input) \in S PROVE FALSE
    OBVIOUS
  <2>1. Moving(S) = Moving(S)' + 1
    BY AgentCounts DEF Agent
  <2> QED
    BY <1>3, <1>6, <2>1
<1>8. seen'[m] = 0
  <2>1. CASE UNCHANGED seen
    BY <1>3, <2>1
  <2>2. CASE Deliver
    BY <1>2, <1>3, <1>7, <2>2, DeliveredIs
  <2> QED
    BY <2>1, <2>2, DueMoves
<1>9. Number(history', S) = 0
  <2>1. CASE Deliver
    <3>1. Number(history', S) = Number(history, S) + 0
      BY <1>7, <2>1, HistoryCounts
    <3> QED
      BY <1>3, <3>1
  <2>2. CASE ~Deliver
    <3>1. Number(history', S) <= Number(history, S)
      BY <2>2, HistoryCounts
    <3> QED
      BY <1>3, <1>6, <3>1
  <2> QED
    BY <2>1, <2>2
<1>10. Moving(S)' = 0 /\ \A r \in Restart : Number(hold'[r], S) = 0
  <2>1. ASSUME Moving(S)' <= Moving(S), \A r \in Restart : ~RestartStep(r)
        PROVE  Moving(S)' = 0 /\ \A r \in Restart : Number(hold'[r], S) = 0
    <3>1. UNCHANGED hold
      BY <2>1, HoldStays
    <3>2. Moving(S)' <= 0
      BY <1>3, <2>1
    <3> QED
      BY <1>3, <1>6, <3>1, <3>2
  <2>2. ASSUME NEW r \in Restart, RestartStep(r)
        PROVE  Moving(S)' = 0 /\ \A q \in Restart : Number(hold'[q], S) = 0
    <3>1. \A q \in Restart : q # r => hold'[q] = hold[q]
      BY <2>2, RestartMoves
    <3>2. Number(Requested, S) = 0 /\ Number(Queued, S) = 0
      <4>1. /\ Number(steer, S) \in Nat /\ Number(followUps, S) \in Nat
            /\ Number(input, S) \in Nat /\ Number(Requested, S) \in Nat
            /\ Number(Queued, S) = Number(steer, S) + Number(followUps, S)
        BY Numbers
      <4>2. Number(steer, S) + Number(followUps, S) + Number(input, S) + Number(Requested, S) = 0
        BY <1>3 DEF Moving
      <4> QED
        BY <4>1, <4>2
    <3>3. ASSUME Moving(S)' <= 0, Number(hold'[r], S) = 0
          PROVE  Moving(S)' = 0 /\ \A q \in Restart : Number(hold'[q], S) = 0
      BY <1>3, <1>6, <3>1, <3>3
    <3>4. CASE TakePendingRestart(r) /\ pending # None
      <4>1. hold'[r] = Carried
        BY <3>4 DEF TakePendingRestart, TypeOK, CallTypes
      <4>2. Number(Carried, S) <= Number(Requested, S) + Number(history, New(m))
        BY <1>2, <3>4, CarriedCounts
      <4>3. Number(history, New(m)) <= Number(history, S)
        BY <1>2, SeqKinds, NumberGrows DEF New
      <4>4. Number(history, New(m)) \in Nat
        BY Numbers
      <4>5. Number(hold'[r], S) \in Nat
        BY <1>5 DEF Countable
      <4>6. Number(hold'[r], S) = 0
        BY <1>3, <3>2, <4>1, <4>2, <4>3, <4>4, <4>5
      <4>7. Moving(S)' + Number(Requested, S) = Moving(S)
        BY <3>4, TakeCounts
      <4>8. Moving(S)' <= 0
        BY <1>3, <1>6, <3>2, <4>7
      <4> QED
        BY <3>3, <4>6, <4>8
    <3>5. CASE TakeQueues(r)
      <4>1. Moving(S)' + Number(Queued, S) = Moving(S) /\ Number(hold'[r], S) = Number(hold[r], S) + Number(Queued, S)
        BY <3>5, TakeQueuesCounts
      <4>2. Moving(S)' <= 0 /\ Number(hold'[r], S) = 0
        BY <1>3, <1>6, <3>2, <4>1
      <4> QED
        BY <3>3, <4>2
    <3>6. CASE Carry(r)
      <4>1. kind[r] = "handoff"
        BY <3>6 DEF Carry, At, KindInv, RightKind
      <4>2. Moving(S)' = Moving(S) + Number(Held(r), S) /\ Held(r) = hold[r]
        BY <3>6, <4>1, CarryCounts
      <4>3. Moving(S)' <= 0
        BY <1>3, <4>2
      <4>4. hold'[r] = <<>>
        BY <3>6 DEF Carry, TypeOK, CallTypes
      <4>5. Number(hold'[r], S) = 0
        BY <4>4, NumberOfFew
      <4> QED
        BY <3>3, <4>3, <4>5
    <3>7. CASE ~TakeQueues(r) /\ ~Carry(r) /\ ~(TakePendingRestart(r) /\ pending # None)
      <4>1. Moving(S)' = Moving(S) /\ hold'[r] \in {hold[r], <<>>}
        BY <2>2, <3>7, RestartCounts
      <4>2. Number(hold'[r], S) = 0
        BY <1>3, <4>1, NumberOfFew
      <4> QED
        BY <1>3, <3>3, <4>1, <4>2
    <3> QED
      BY <3>4, <3>5, <3>6, <3>7
  <2>3. CASE \E r \in Restart : RestartStep(r)
    BY <2>2, <2>3
  <2>4. CASE \A r \in Restart : ~RestartStep(r)
    <3>1. CASE UNCHANGED vars
      <4>1. Moving(S)' = Moving(S)
        BY <3>1, SameMoving DEF vars, agentVars, bridgeVars
      <4> QED
        BY <1>3, <2>1, <2>4, <4>1
    <3>2. CASE Agent
      <4>1. Moving(S)' <= Moving(S)
        <5>1. CASE Deliver
          <6>1. Moving(S) = Moving(S)' + 0
            BY <1>7, <3>2, <5>1, AgentCounts
          <6> QED
            BY <1>6, <6>1
        <5>2. CASE ~Deliver
          <6>1. Moving(S)' = Moving(S)
            BY <3>2, <5>2, AgentCounts
          <6> QED
            BY <1>6, <6>1
        <5> QED
          BY <5>1, <5>2
      <4> QED
        BY <2>1, <2>4, <4>1
    <3>3. CASE Dequeue \/ Escape \/ SetModel \/ Persist \/ \E c \in Context : PrependContext(c)
      <4>1. Moving(S)' <= Moving(S)
        BY <3>3, OtherCounts
      <4> QED
        BY <2>1, <2>4, <4>1
    <3>4. ASSUME NEW c \in Caller,
                 \/ PromptStep(c)
                 \/ c \in Message /\ (Submit(c) \/ SendUserMessage(c) \/ Queue(c) \/ Inject(c) \/ InjectedRun(c))
          PROVE  Moving(S)' <= Moving(S)
      <4>1. \/ Moving(S)' = Moving(S)
            \/ c \in Message /\ Taken(c) /\ Moving(S)' = Moving(S) + IF c \in S THEN 1 ELSE 0
        BY <3>4, SenderCounts
      <4>2. Taken(c) /\ c \in Message => c \notin S
        BY <1>4, <1>5
      <4> QED
        BY <1>3, <4>1, <4>2
    <3>5. CASE \E c \in Message : Submit(c) \/ SendUserMessage(c) \/ Queue(c) \/ Inject(c) \/ InjectedRun(c)
      <4>1. Moving(S)' <= Moving(S)
        BY <3>4, <3>5 DEF Caller
      <4> QED
        BY <2>1, <2>4, <4>1
    <3>6. CASE \E c \in Caller : PromptStep(c)
      <4>1. Moving(S)' <= Moving(S)
        BY <3>4, <3>6
      <4> QED
        BY <2>1, <2>4, <4>1
    <3> QED
      BY <2>4, <3>1, <3>2, <3>3, <3>5, <3>6 DEF Next
  <2> QED
    BY <2>3, <2>4
<1> QED
  BY <1>2, <1>8, <1>9, <1>10

\* The invariants for one message.
Bounded(m) ==
  /\ \A q \in Restart \cup {None} : Counted(m, q)
  /\ seen[m] > 0 => /\ \A q \in Restart \cup {None} : Travelling(New(m), q) = 0
                    /\ pending # None => Number(Queued, Copies(m)) = 0

LEMMA CountsAreBounded ==
  CountInv /\ MarkedInv <=> raced \/ entangled \/ \A m \in Message : Bounded(m)
BY DEF CountInv, MarkedInv, Bounded

\* What is among the copies is counted with them.
LEMMA TravelsWithAll ==
  ASSUME TypeOK, NEW S, NEW U, S \subseteq U, NEW q \in Restart \cup {None}
  PROVE  Moving(S) <= Moving(U) /\ Travelling(S, q) <= Travelling(U, q)
<1>1. \A s \in Seq(Item) : Number(s, S) <= Number(s, U)
  BY NumberGrows
<1>2. /\ Number(steer, S) <= Number(steer, U) /\ Number(followUps, S) <= Number(followUps, U)
      /\ Number(input, S) <= Number(input, U) /\ Number(Requested, S) <= Number(Requested, U)
  BY <1>1, SeqKinds
<1>3. Number(Held(q), S) <= Number(Held(q), U)
  <2>1. CASE q \in Restart /\ kind[q] = "handoff"
    BY <1>1, <2>1, SeqKinds DEF Held
  <2>2. CASE ~(q \in Restart /\ kind[q] = "handoff")
    <3>1. Number(<<>>, S) = 0 /\ Number(<<>>, U) = 0
      BY NumberOfFew
    <3> QED
      BY <2>2, <3>1 DEF Held
  <2> QED
    BY <2>1, <2>2
<1>4. /\ Number(steer, S) \in Nat /\ Number(followUps, S) \in Nat /\ Number(input, S) \in Nat
      /\ Number(Requested, S) \in Nat /\ Number(Held(q), S) \in Nat
  BY Numbers
<1>5. /\ Number(steer, U) \in Nat /\ Number(followUps, U) \in Nat /\ Number(input, U) \in Nat
      /\ Number(Requested, U) \in Nat /\ Number(Held(q), U) \in Nat
  BY Numbers
<1>6. Moving(S) <= Moving(U) /\ Moving(S) \in Nat /\ Moving(U) \in Nat
  BY <1>2, <1>4, <1>5 DEF Moving
<1> QED
  BY <1>3, <1>4, <1>5, <1>6 DEF Travelling

LEMMA NewIsCopy ==
  ASSUME NEW m \in Message
  PROVE  New(m) \subseteq Copies(m) /\ New(m) \in SUBSET Sent /\ Copies(m) \in SUBSET Sent
BY Kinds DEF New

\* A hand-off takes its request: it carries what was not carried before, and
\* nothing that the last one brought comes again.
LEMMA TakeIsBounded ==
  ASSUME TypeOK, KindInv, ShapeInv, QuietInv, NEW m \in Message, Bounded(m), [Next]_vars,
         NEW r \in Restart, TakePendingRestart(r), pending # None, ~raced, ~entangled'
  PROVE  Bounded(m)'
<1> DEFINE C == Copies(m)
<1>0. TypeOK' /\ None \in Restart \cup {None} /\ r \in Caller
  BY StepTypes DEF Caller
<1>1. /\ pc[r] = "take" /\ Goto(r, "queues") /\ UNCHANGED <<kind, seen, history, input>>
      /\ lastCarried' = ToSet(Carried) /\ pending' = None /\ UNCHANGED <<steer, followUps>>
      /\ entangled' = (entangled \/ \E other \in Restart : Underway(other))
  BY DEF TakePendingRestart, At, agentVars
<1>2. \A q \in Restart : ~Underway(q)
  BY <1>1
<1>3. kind[r] = "handoff" /\ pc'[r] = "queues"
  <2>1. pc'[r] = "queues"
    BY <1>0, <1>1, Went DEF TypeOK
  <2> QED
    BY <1>1, <2>1 DEF KindInv, RightKind
<1>4. \A q \in Restart \cup {None} : Held(q) = <<>>
  BY <1>2, Kinds DEF Held, KindInv, RightKind
<1>5. \A q \in Restart : ~Leaving(q)
  BY <1>2 DEF Leaving, Underway
<1>6. /\ \A S : Moving(S)' + Number(Requested, S) = Moving(S)
      /\ Held(r)' = Carried
      /\ \A q \in Restart \cup {None} : q # r => Held(q)' = <<>>
  BY <1>4, TakeCounts
<1>7. Countable /\ Countable'
  BY CountableBefore, CountableAfter
<1>8. seen[m] \in Nat /\ seen'[m] = seen[m]
  BY <1>1 DEF TypeOK, MonitorTypes
<1>9. /\ Moving(C) \in Nat /\ Moving(C)' \in Nat /\ Number(Requested, C) \in Nat
      /\ Number(history, New(m)) \in Nat /\ Number(Carried, C) \in Nat
  <2>1. Number(Held(r)', C) \in Nat
    <3>1. \A S : Number(Held(r)', S) \in Nat
      BY <1>7 DEF Countable
    <3> QED
      BY <3>1
  <2>2. Moving(C)' \in Nat
    <3>1. PICK S : S = C
      OBVIOUS
    <3>2. Moving(S)' \in Nat
      BY <1>7 DEF Countable
    <3> QED
      BY <3>1, <3>2
  <2> QED
    BY <1>6, <2>1, <2>2, Numbers
<1>10. Number(Carried, C) <= Number(Requested, C) + Number(history, New(m))
  BY CarriedCounts
<1>11. ASSUME NEW q \in Restart \cup {None}
       PROVE  Travelling(C, q)' <= Moving(C) + Number(history, New(m))
  <2>1. Travelling(C, q)' = Moving(C)' + Number(Held(q)', C)
    BY DEF Travelling, Copies
  <2>2. Moving(C)' + Number(Requested, C) = Moving(C)
    <3>1. PICK S : S = C
      OBVIOUS
    <3>2. Moving(S)' + Number(Requested, S) = Moving(S)
      BY <1>6
    <3> QED
      BY <3>1, <3>2
  <2>3. Number(Held(q)', C) = Number(Carried, C) \/ Number(Held(q)', C) = 0
    BY <1>6, NumberOfFew
  <2> HIDE DEF C
  <2> QED
    BY <1>9, <1>10, <2>1, <2>2, <2>3
<1>12. /\ Travelling(C, None) = Moving(C)
       /\ Uncarried(m) = Number(history, New(m))
  <2>1. Number(Held(None), C) = 0
    BY <1>4, NumberOfFew
  <2>2. Travelling(C, None) = Moving(C) + 0
    BY <2>1 DEF Travelling
  <2>3. Travelling(C, None) = Moving(C)
    BY <1>9, <2>2
  <2> QED
    BY <1>5, <2>3 DEF Uncarried, New
<1>13. Uncarried(m)' = 0
  <2>1. Leaving(r)'
    BY <1>1, <1>3 DEF Leaving
  <2> QED
    BY <2>1 DEF Uncarried
<1>14. /\ seen[m] + Moving(C) + Number(history, New(m)) <= 2
       /\ seen[m] = 0 => Moving(C) <= 1 /\ Number(history, C) = 0
  <2>1. Counted(m, None)
    BY <1>0 DEF Bounded
  <2> QED
    BY <1>12, <2>1 DEF Counted
<1>15. seen[m] = 0 => Number(history, New(m)) = 0
  <2>1. Number(history, New(m)) <= Number(history, C)
    BY SeqKinds, NumberGrows, NewIsCopy
  <2> QED
    BY <1>9, <1>14, <2>1
<1>16. ASSUME NEW q \in Restart \cup {None}
       PROVE  Counted(m, q)'
  <2>1. Travelling(C, q)' \in Nat
    <3>1. PICK S : S = C
      OBVIOUS
    <3>2. Travelling(S, q)' \in Nat
      BY <1>7 DEF Countable
    <3> QED
      BY <3>1, <3>2
  <2>2. Travelling(C, q)' <= Moving(C) + Number(history, New(m))
    BY <1>11
  <2>3. seen'[m] + Travelling(C, q)' + 0 <= 2
    <3> HIDE DEF C
    <3> QED
      BY <1>8, <1>9, <1>14, <2>1, <2>2
  <2>4. seen'[m] = 0 => Travelling(C, q)' <= 1 /\ Number(history', C) = 0
    <3> HIDE DEF C
    <3> QED
      BY <1>1, <1>8, <1>9, <1>14, <1>15, <2>1, <2>2
  <2> QED
    BY <1>13, <2>3, <2>4 DEF Counted, Copies
<1>17. ASSUME seen'[m] > 0, NEW q \in Restart \cup {None}
       PROVE  Travelling(New(m), q)' = 0
  <2>1. PICK S : S = New(m)'
    OBVIOUS
  <2>2. S = C \ ToSet(Carried) /\ S \subseteq C
    BY <1>1, <2>1 DEF New, Copies
  <2>3. Number(Queued, C) = 0
    BY <1>8, <1>17 DEF Bounded
  <2>4. input = <<>>
    BY <1>1 DEF QuietInv, Quiet, Streaming, ShapeInv
  <2>5. Number(steer, C) = 0 /\ Number(followUps, C) = 0
    <3>1. /\ Number(steer, C) \in Nat /\ Number(followUps, C) \in Nat
          /\ Number(Queued, C) = Number(steer, C) + Number(followUps, C)
      BY Numbers
    <3> QED
      BY <2>3, <3>1
  <2>6. /\ Number(steer, S) <= Number(steer, C) /\ Number(followUps, S) <= Number(followUps, C)
        /\ Number(steer, S) \in Nat /\ Number(followUps, S) \in Nat
    BY <2>2, SeqKinds, NumberGrows, Numbers
  <2>7. Number(steer, S) = 0 /\ Number(followUps, S) = 0
    BY <2>5, <2>6
  <2>8. Number(input, S) = 0 /\ Number(Requested, S)' = 0
    <3>1. Requested' = <<>>
      BY <1>1 DEF Requested
    <3> QED
      BY <2>4, <3>1, NumberOfFew
  <2>9. Moving(S)' = 0
    BY <1>1, <2>7, <2>8 DEF Moving
  <2>10. Number(Held(q)', S) = 0
    <3>1. CASE q = r
      <4>1. Carried \in Seq(Sent \cup {Prompt})
        <5>1. hold'[r] = Carried /\ r \in Restart
          BY <1>6, <1>1, <1>3 DEF Held
        <5> QED
          BY <1>0, <5>1 DEF TypeOK, CallTypes
      <4>2. ToSet(Carried) \cap S = {}
        BY <2>2
      <4>3. Number(Carried, S) = 0
        BY <4>1, <4>2, NumberType
      <4> QED
        BY <1>6, <3>1, <4>3
    <3>2. CASE q # r
      BY <1>6, <3>2, NumberOfFew
    <3> QED
      BY <3>1, <3>2
  <2>11. Travelling(S, q)' = 0 + 0
    BY <2>9, <2>10 DEF Travelling
  <2> QED
    BY <2>1, <2>11
<1> QED
  BY <1>1, <1>16, <1>17 DEF Bounded

\* The same after a step.
TravelTogether ==
  \A S, U : S \subseteq U => \A q \in Restart \cup {None} : Travelling(S, q) <= Travelling(U, q)

Unmet == \A m \in Message : Uncarried(m) \in Nat /\ Uncarried(m) <= Number(history, Copies(m))

LEMMA TypedAfter == TypeOK' => TravelTogether' /\ Unmet'
<1>1. TypeOK => TravelTogether /\ Unmet
  BY TravelsWithAll, UncarriedIs DEF TravelTogether, Unmet
<1> QED
  BY <1>1, PTL

LEMMA TravelsAfter ==
  ASSUME TypeOK'
  PROVE  \A S, U : S \subseteq U => \A q \in Restart \cup {None} : Travelling(S, q)' <= Travelling(U, q)'
BY TypedAfter DEF TravelTogether

LEMMA UncarriedAfter ==
  ASSUME TypeOK', NEW m \in Message
  PROVE  Uncarried(m)' \in Nat /\ Uncarried(m)' <= Number(history, Copies(m))'
BY TypedAfter DEF Unmet

\* A delivery moves a copy from its way to the history; the second one cannot be
\* a copy that the last hand-off did not carry.
LEMMA DeliverIsBounded ==
  ASSUME TypeOK, ShapeInv, KindInv, NEW m \in Message, Bounded(m), Deliver, [Next]_vars
  PROVE  Bounded(m)'
<1> DEFINE x == Head(input)
<1>0. TypeOK' /\ Countable /\ Countable'
  BY StepTypes, CountableBefore, CountableAfter
<1>1. /\ UNCHANGED <<steer, followUps, pending, kind, pc, lastCarried>>
      /\ seen[m] \in Nat /\ seen'[m] = IF x \in Copies(m) THEN seen[m] + 1 ELSE seen[m]
  BY DeliveredIs DEF Deliver, bridgeVars, callVars, TypeOK, MonitorTypes
<1>2. PICK C \in SUBSET Sent : C = Copies(m)
  BY NewIsCopy
<1>3. PICK N \in SUBSET Sent : N = New(m)
  BY NewIsCopy
<1>4. N \subseteq C /\ New(m)' = N /\ Copies(m)' = C
  BY <1>1, <1>2, <1>3, NewIsCopy DEF New, Copies
<1>5. ASSUME NEW S \in SUBSET Sent, NEW q \in Restart \cup {None}
      PROVE  /\ Moving(S) = Moving(S)' + IF x \in S THEN 1 ELSE 0
             /\ Travelling(S, q) = Travelling(S, q)' + IF x \in S THEN 1 ELSE 0
             /\ Number(history', S) = Number(history, S) + IF x \in S THEN 1 ELSE 0
             /\ Moving(S)' \in Nat /\ Travelling(S, q)' \in Nat /\ Number(history, S) \in Nat
  <2>1. HoldSame /\ Moving(S) = Moving(S)' + IF x \in S THEN 1 ELSE 0
    BY AgentCounts DEF Agent
  <2>2. /\ Moving(S)' \in Nat /\ Travelling(S, q)' \in Nat /\ Number(history, S) \in Nat
        /\ Number(Held(q), S) \in Nat
    BY <1>0 DEF Countable
  <2>3. Travelling(S, q)' = Moving(S)' + Number(Held(q), S)
    BY <2>1 DEF HoldSame, Travelling
  <2>4. Travelling(S, q) = Moving(S) + Number(Held(q), S)
    BY DEF Travelling
  <2>5. Number(history', S) = Number(history, S) + IF x \in S THEN 1 ELSE 0
    BY HistoryCounts
  <2> QED
    BY <2>1, <2>2, <2>3, <2>4, <2>5
<1>6. (\E r \in Restart : Leaving(r))' <=> \E r \in Restart : Leaving(r)
  BY <1>1 DEF Leaving
<1>7. None \in Restart \cup {None}
  OBVIOUS
<1>8. x \notin N => Uncarried(m)' = Uncarried(m)
  <2> SUFFICES ASSUME x \notin N PROVE Uncarried(m)' = Uncarried(m)
    OBVIOUS
  <2>1. Number(history', N) = Number(history, N) + 0 /\ Number(history, N) \in Nat
    BY <1>5, <1>7
  <2>2. Number(history', N) = Number(history, N)
    BY <2>1
  <2>3. Uncarried(m) = IF \E r \in Restart : Leaving(r) THEN 0 ELSE Number(history, N)
    BY <1>3 DEF Uncarried, New
  <2>4. Uncarried(m)' = IF (\E r \in Restart : Leaving(r))' THEN 0 ELSE Number(history', N)
    BY <1>4 DEF Uncarried, New
  <2> QED
    BY <1>6, <2>2, <2>3, <2>4
<1>9. Uncarried(m) \in Nat /\ Uncarried(m)' \in Nat /\ Uncarried(m)' <= Number(history', C)
  <2>1. Uncarried(m) \in Nat
    BY UncarriedIs
  <2>2. Uncarried(m)' \in Nat /\ Uncarried(m)' <= Number(history, Copies(m))'
    BY <1>0, UncarriedAfter
  <2> QED
    BY <1>4, <2>1, <2>2
<1>10. ASSUME NEW q \in Restart \cup {None}
       PROVE  /\ seen[m] + Travelling(C, q) + Uncarried(m) <= 2
              /\ seen[m] = 0 => Travelling(C, q) <= 1 /\ Number(history, C) = 0
              /\ seen[m] > 0 => Travelling(N, q) = 0
  BY <1>2, <1>3 DEF Bounded, Counted
<1>11. seen[m] > 0 => x \notin N
  <2> SUFFICES ASSUME seen[m] > 0, x \in N PROVE FALSE
    OBVIOUS
  <2>1. Travelling(N, None) = Travelling(N, None)' + 1 /\ Travelling(N, None)' \in Nat
    BY <1>5, <1>7
  <2>2. Travelling(N, None) = 0
    BY <1>7, <1>10
  <2> QED
    BY <2>1, <2>2
<1>12. ASSUME NEW q \in Restart \cup {None}
       PROVE  Counted(m, q)'
  <2>1. /\ seen[m] + Travelling(C, q) + Uncarried(m) <= 2
        /\ seen[m] = 0 => Travelling(C, q) <= 1 /\ Number(history, C) = 0
    BY <1>10
  <2>2. /\ Travelling(C, q) = Travelling(C, q)' + IF x \in C THEN 1 ELSE 0
        /\ Number(history', C) = Number(history, C) + IF x \in C THEN 1 ELSE 0
        /\ Travelling(C, q)' \in Nat /\ Number(history, C) \in Nat
    BY <1>5
  <2>3. /\ seen'[m] + Travelling(C, q)' + Uncarried(m)' <= 2
        /\ seen'[m] = 0 => Travelling(C, q)' <= 1 /\ Number(history', C) = 0
    <3>1. CASE x \notin C
      <4>1. Uncarried(m)' = Uncarried(m) /\ seen'[m] = seen[m]
        BY <1>1, <1>2, <1>4, <1>8, <3>1
      <4>2. Travelling(C, q) = Travelling(C, q)' /\ Number(history', C) = Number(history, C)
        BY <2>2, <3>1
      <4> QED
        BY <2>1, <4>1, <4>2
    <3>2. CASE x \in C /\ seen[m] > 0
      <4>1. Uncarried(m)' = Uncarried(m) /\ seen'[m] = seen[m] + 1
        BY <1>1, <1>2, <1>8, <1>11, <3>2
      <4>2. Travelling(C, q) = Travelling(C, q)' + 1
        BY <2>2, <3>2
      <4> QED
        BY <1>1, <1>9, <2>1, <2>2, <4>1, <4>2
    <3>3. CASE x \in C /\ seen[m] = 0
      <4>1. seen'[m] = 1
        BY <1>1, <1>2, <3>3
      <4>2. Travelling(C, q) = Travelling(C, q)' + 1 /\ Number(history', C) = Number(history, C) + 1
        BY <2>2, <3>3
      <4>3. Travelling(C, q)' = 0 /\ Number(history', C) = 1
        BY <2>1, <2>2, <3>3, <4>2
      <4> QED
        BY <1>9, <4>1, <4>3
    <3> QED
      BY <1>1, <3>1, <3>2, <3>3
  <2> QED
    BY <1>4, <2>3 DEF Counted, Copies
<1>13. ASSUME seen'[m] > 0, NEW q \in Restart \cup {None}
       PROVE  Travelling(N, q)' = 0
  <2>1. Travelling(N, q)' \in Nat /\ Travelling(N, q) = Travelling(N, q)' + IF x \in N THEN 1 ELSE 0
    BY <1>5
  <2>2. CASE seen[m] > 0
    <3>1. Travelling(N, q) = 0
      BY <1>10, <2>2
    <3> QED
      BY <2>1, <3>1
  <2>3. CASE seen[m] = 0
    <3>1. x \in C
      BY <1>1, <1>2, <1>13, <2>3
    <3>2. Travelling(C, q) = Travelling(C, q)' + 1 /\ Travelling(C, q)' \in Nat
      BY <1>5, <3>1
    <3>3. Travelling(C, q) <= 1
      BY <1>10, <2>3
    <3>4. Travelling(N, q) <= Travelling(C, q)
      BY <1>4, TravelsWithAll
    <3>5. CASE x \in N
      BY <2>1, <3>2, <3>3, <3>4, <3>5
    <3>6. CASE x \notin N
      <4>1. Travelling(N, q)' <= Travelling(C, q)'
        BY <1>0, <1>4, TravelsAfter
      <4> QED
        BY <2>1, <3>2, <3>3, <4>1
    <3> QED
      BY <3>5, <3>6
  <2> QED
    BY <1>1, <2>2, <2>3
<1>14. ASSUME seen'[m] > 0, pending' # None
       PROVE  Number(Queued', C) = 0
  <2>1. Queued' = Queued /\ pending # None
    BY <1>1, <1>14 DEF Queued
  <2>2. CASE seen[m] > 0
    BY <1>2, <2>1, <2>2 DEF Bounded
  <2>3. CASE seen[m] = 0
    <3>1. x \in C
      BY <1>1, <1>2, <1>14, <2>3
    <3>2. Moving(C) = Moving(C)' + 1 /\ Travelling(C, None) = Travelling(C, None)' + 1
          /\ Moving(C)' \in Nat /\ Travelling(C, None)' \in Nat
      BY <1>5, <1>7, <3>1
    <3>3. Travelling(C, None) <= 1
      BY <1>7, <1>10, <2>3
    <3>4. Travelling(C, None) = Moving(C) + 0
      <4>1. Held(None) = <<>>
        BY Kinds DEF Held
      <4>2. Number(Held(None), C) = 0
        BY <4>1, NumberOfFew
      <4> QED
        BY <4>2 DEF Travelling
    <3>5. Moving(C) = 1
      BY <3>2, <3>3, <3>4
    <3>6. Moving(C) = Number(steer, C) + Number(followUps, C) + Number(input, C) + Number(Requested, C)
      BY DEF Moving
    <3>7. Number(input, C) >= 1
      <4>1. input \in Seq(Item) /\ input # <<>>
        BY SeqKinds DEF Deliver
      <4>2. Number(input, C) = Number(Tail(input), C) + 1
        BY <3>1, <4>1, NumberOfHeadTail
      <4>3. Number(Tail(input), C) \in Nat
        BY <4>1, SeqOps, NumberType
      <4> QED
        BY <4>2, <4>3
    <3>8. /\ Number(steer, C) \in Nat /\ Number(followUps, C) \in Nat /\ Number(input, C) \in Nat
          /\ Number(Requested, C) \in Nat /\ Number(Queued, C) = Number(steer, C) + Number(followUps, C)
      BY Numbers
    <3> QED
      BY <2>1, <3>5, <3>6, <3>7, <3>8
  <2> QED
    BY <1>1, <2>2, <2>3
<1>15. \A q \in Restart \cup {None} : Counted(m, q)'
  BY <1>12
<1>16. seen'[m] > 0 => \A q \in Restart \cup {None} : Travelling(New(m), q)' = 0
  <2> SUFFICES ASSUME seen'[m] > 0, NEW q \in Restart \cup {None} PROVE Travelling(New(m), q)' = 0
    OBVIOUS
  <2>1. Travelling(N, q)' = 0
    BY <1>13
  <2> QED
    BY <1>4, <2>1 DEF Travelling, Moving
<1> QED
  BY <1>4, <1>14, <1>15, <1>16 DEF Bounded

\* Whoever takes a message does nothing else.
LEMMA TakenByItsSender ==
  ASSUME TypeOK, [Next]_vars, NEW m \in Message, Taken(m)
  PROVE  /\ ~Deliver /\ ~Taking
         /\ \/ PromptStep(m)
            \/ Submit(m) \/ SendUserMessage(m) \/ Queue(m) \/ Inject(m) \/ InjectedRun(m)
<1> m \in Caller
  BY DEF Caller
<1>1. pc'[m] # pc[m]
  BY DEF Taken
<1>2. ~UNCHANGED pc
  BY <1>1
<1>3. ~UNCHANGED vars /\ ~Agent /\ ~Deliver
  BY <1>2 DEF vars, callVars, Agent, RunStarts, Deliver, ModelReplies, ToolsEnd, Settle, RunEnds, AgentIdles
<1>4. ~(Dequeue \/ Escape \/ SetModel \/ Persist \/ \E c \in Context : PrependContext(c))
  BY <1>2 DEF Dequeue, Escape, SetModel, Persist, PrependContext, callVars
<1>5. \A r \in Restart : ~RestartStep(r)
  <2> SUFFICES ASSUME NEW r \in Restart, RestartStep(r) PROVE FALSE
    OBVIOUS
  <2>1. r # m
    BY Kinds
  <2> QED
    BY <1>1, <2>1, RestartMoves
<1>6. ASSUME NEW d \in Message, Submit(d) \/ SendUserMessage(d) \/ Queue(d) \/ Inject(d) \/ InjectedRun(d)
      PROVE  d = m
  <2>1. \E step \in Place : Goto(d, step)
    BY <1>6, Places DEF Submit, Accept, SendUserMessage, Queue, Inject, InjectedRun
  <2>2. d \in Caller
    BY DEF Caller
  <2> QED
    BY <1>1, <2>1, <2>2, Went DEF TypeOK
<1>7. ASSUME NEW c \in Caller, PromptStep(c)
      PROVE  c = m
  BY <1>1, <1>7, PromptMoves
<1>8. ~Taking
  BY <1>5 DEF Taking, RestartStep
<1> QED
  BY <1>3, <1>4, <1>5, <1>6, <1>7, <1>8 DEF Next

\* A message that is taken is on its way once, and nowhere else.
LEMMA TakenIsBounded ==
  ASSUME TypeOK, ShapeInv, KindInv, FreshInv, NEW m \in Message, [Next]_vars, Taken(m)
  PROVE  Bounded(m)'
<1>0. TypeOK' /\ Countable /\ Countable'
  BY StepTypes, CountableBefore, CountableAfter
<1>1. /\ ~Deliver /\ ~Taking /\ m \in Caller
      /\ \/ PromptStep(m)
         \/ m \in Message /\ (Submit(m) \/ SendUserMessage(m) \/ Queue(m) \/ Inject(m) \/ InjectedRun(m))
  BY TakenByItsSender DEF Caller
<1>2. PICK C \in SUBSET Sent : C = Copies(m)
  BY NewIsCopy
<1>3. /\ seen[m] = 0 /\ Moving(C) = 0 /\ Number(history, C) = 0
      /\ \A r \in Restart : Number(hold[r], C) = 0
  BY <1>2 DEF FreshInv, Taken
<1>4. seen'[m] = 0
  BY <1>1, <1>3, DueMoves DEF Taking
<1>5. Number(history', C) = 0
  <2>1. Number(history', C) <= Number(history, C) /\ Number(history', C) \in Nat
    BY <1>0, <1>1, HistoryCounts DEF Countable
  <2> QED
    BY <1>3, <2>1
<1>6. Uncarried(m)' = 0
  <2>1. Uncarried(m)' \in Nat /\ Uncarried(m)' <= Number(history', C)
    BY <1>0, <1>2, UncarriedAfter DEF Copies
  <2> QED
    BY <1>5, <2>1
<1>7. HoldSame /\ Moving(C)' <= 1
  <2>1. /\ HoldSame
        /\ Moving(C)' = Moving(C) \/ Moving(C)' = Moving(C) + IF m \in C THEN 1 ELSE 0
    BY <1>1, SenderCounts
  <2> QED
    BY <1>3, <2>1
<1>8. ASSUME NEW q \in Restart \cup {None}
      PROVE  Counted(m, q)'
  <2>1. Number(Held(q), C) = 0
    <3>1. Held(q) = <<>> \/ (q \in Restart /\ Held(q) = hold[q])
      BY DEF Held
    <3> QED
      BY <1>3, <3>1, NumberOfFew
  <2>2. Travelling(C, q)' = Moving(C)' + 0
    BY <1>7, <2>1 DEF Travelling, HoldSame
  <2>3. Moving(C)' \in Nat
    BY <1>0 DEF Countable
  <2>4. Travelling(C, q)' <= 1
    BY <1>7, <2>2, <2>3
  <2>5. seen'[m] + Travelling(C, q)' + Uncarried(m)' <= 2
    BY <1>4, <1>6, <1>7, <2>2, <2>3
  <2> QED
    BY <1>2, <1>4, <1>5, <2>4, <2>5 DEF Counted, Copies
<1>9. ~(seen'[m] > 0)
  BY <1>4
<1> QED
  BY <1>8, <1>9 DEF Bounded

\* A request empties the queues; no other step but a hand-off's Take touches it.
LEMMA RequestSteps ==
  ASSUME TypeOK, KindInv, [Next]_vars, ~Taking
  PROVE  pending' = pending \/ Queued' = <<>>
<1>1. CASE UNCHANGED vars \/ Agent
  BY <1>1 DEF vars, bridgeVars, Agent, RunStarts, Deliver, ModelReplies, ToolsEnd, Settle, RunEnds, AgentIdles
<1>2. CASE Dequeue \/ Escape \/ SetModel \/ Persist \/ \E c \in Context : PrependContext(c)
  BY <1>2 DEF Dequeue, Escape, SetModel, Persist, PrependContext, bridgeVars
<1>3. CASE \E c \in Message : Submit(c) \/ SendUserMessage(c) \/ Queue(c) \/ Inject(c) \/ InjectedRun(c)
  BY <1>3 DEF Submit, SendUserMessage, Queue, Inject, InjectedRun, bridgeVars
<1>4. CASE \E c \in Caller : PromptStep(c)
  BY <1>4 DEF PromptStep, CheckStreaming, Send, Fallback, Refuse, WaitForIdle, bridgeVars
<1>5. ASSUME NEW r \in Restart, RestartStep(r)
      PROVE  pending' = pending \/ Queued' = <<>>
  <2>1. CASE TakeQueues(r) \/ Carry(r)
    BY <2>1 DEF TakeQueues, Carry, bridgeVars
  <2>2. CASE ~TakeQueues(r) /\ ~Carry(r)
    BY <1>5, <2>2, RestartCounts DEF Taking
  <2> QED
    BY <2>1, <2>2
<1> QED
  BY <1>1, <1>2, <1>3, <1>4, <1>5 DEF Next

\* No other step brings copies of the message on their way.
LEMMA OtherIsBounded ==
  ASSUME TypeOK, ShapeInv, KindInv, AloneInv, NEW m \in Message, Bounded(m), [Next]_vars,
         ~entangled, ~entangled', ~Deliver, ~Taking, ~Taken(m)
  PROVE  Bounded(m)'
<1>0. TypeOK' /\ Countable /\ Countable'
  BY StepTypes, CountableBefore, CountableAfter
<1>1. UNCHANGED <<seen, lastCarried>> /\ seen[m] \in Nat
  BY DueMoves DEF Taking, TypeOK, MonitorTypes
<1>2. PICK C \in SUBSET Sent : C = Copies(m)
  BY NewIsCopy
<1>3. PICK N \in SUBSET Sent : N = New(m)
  BY NewIsCopy
<1>4. N \subseteq C /\ New(m)' = N
  BY <1>1, <1>2, <1>3, NewIsCopy DEF New
<1>5. \A c \in Message \cap C : ~Taken(c)
  <2>1. \A c \in Message \cap C : c = m
    BY <1>2, Kinds DEF Copies
  <2> QED
    BY <2>1
<1>6. ASSUME NEW S \in SUBSET Sent, S \subseteq C, NEW q \in Restart \cup {None}
      PROVE  \E p \in Restart \cup {None} : Travelling(S, q)' <= Travelling(S, p)
  <2>1. \A c \in Message \cap S : ~Taken(c)
    BY <1>5, <1>6
  <2> QED
    BY <2>1, TravelsOn
<1>7. Number(history', C) <= Number(history, C) /\ Number(history', C) \in Nat /\ Number(history, C) \in Nat
  BY <1>0, HistoryCounts DEF Countable
<1>8. Uncarried(m)' <= Uncarried(m) /\ Uncarried(m) \in Nat /\ Uncarried(m)' \in Nat
  BY <1>0, UncarriedStays, UncarriedIs, UncarriedAfter
<1>9. ASSUME NEW q \in Restart \cup {None}
      PROVE  Counted(m, q)'
  <2>1. PICK p \in Restart \cup {None} : Travelling(C, q)' <= Travelling(C, p)
    BY <1>6
  <2>2. Travelling(C, q)' \in Nat /\ Travelling(C, p) \in Nat
    BY <1>0 DEF Countable
  <2>3. /\ seen[m] + Travelling(C, p) + Uncarried(m) <= 2
        /\ seen[m] = 0 => Travelling(C, p) <= 1 /\ Number(history, C) = 0
    BY <1>2 DEF Bounded, Counted
  <2>4. /\ seen'[m] + Travelling(C, q)' + Uncarried(m)' <= 2
        /\ seen'[m] = 0 => Travelling(C, q)' <= 1 /\ Number(history', C) = 0
    BY <1>1, <1>7, <1>8, <2>1, <2>2, <2>3
  <2> QED
    BY <1>2, <2>4 DEF Counted, Copies
<1>10. ASSUME seen'[m] > 0, NEW q \in Restart \cup {None}
       PROVE  Travelling(New(m), q)' = 0
  <2>1. PICK p \in Restart \cup {None} : Travelling(N, q)' <= Travelling(N, p)
    BY <1>4, <1>6
  <2>2. Travelling(N, p) = 0
    BY <1>1, <1>3, <1>10 DEF Bounded
  <2>3. Travelling(N, q)' \in Nat
    BY <1>0 DEF Countable
  <2>4. Travelling(N, q)' = 0
    BY <2>1, <2>2, <2>3
  <2> QED
    BY <1>4, <2>4 DEF Travelling, Moving
<1>11. ASSUME seen'[m] > 0, pending' # None
       PROVE  Number(Queued', C) = 0
  <2>1. CASE Queued' = <<>>
    BY <2>1, NumberOfFew
  <2>2. CASE pending' = pending
    <3>1. \A r \in Restart : ~Carry(r)
      <4> SUFFICES ASSUME NEW r \in Restart, Carry(r) PROVE FALSE
        OBVIOUS
      <4>1. entangled' = (entangled \/ pending # None)
        BY DEF Carry
      <4> QED
        BY <1>11, <2>2, <4>1
    <3>2. Number(Queued', C) <= Number(Queued, C)
      BY <1>5, <3>1, QueueCounts
    <3>3. Number(Queued, C) = 0
      BY <1>1, <1>2, <1>11, <2>2 DEF Bounded
    <3>4. Number(Queued', C) \in Nat
      BY <1>0 DEF Countable
    <3> QED
      BY <3>2, <3>3, <3>4
  <2> QED
    BY <2>1, <2>2, RequestSteps
<1> QED
  BY <1>2, <1>9, <1>10, <1>11 DEF Bounded, Copies

LEMMA CountStep ==
  ASSUME TypeOK, ShapeInv, KindInv, QuietInv, FreshInv, AloneInv, CountInv, MarkedInv, [Next]_vars
  PROVE  CountInv' /\ MarkedInv'
<1> SUFFICES ASSUME ~raced', ~entangled', NEW m \in Message PROVE Bounded(m)'
  <2>1. raced' \/ entangled' \/ \A m \in Message : Bounded(m)'
    OBVIOUS
  <2> QED
    BY <2>1 DEF CountInv, MarkedInv, Bounded
<1>1. ~raced /\ ~entangled
  BY MarksStay
<1>2. Bounded(m)
  BY <1>1, CountsAreBounded
<1>3. CASE Deliver
  BY <1>2, <1>3, DeliverIsBounded
<1>4. CASE Taking
  BY <1>1, <1>2, <1>4, TakeIsBounded DEF Taking
<1>5. CASE Taken(m)
  BY <1>5, TakenIsBounded
<1>6. CASE ~Deliver /\ ~Taking /\ ~Taken(m)
  BY <1>1, <1>2, <1>6, OtherIsBounded
<1> QED
  BY <1>3, <1>4, <1>5, <1>6

LEMMA InitCounts == Init => FreshInv /\ AloneInv /\ CountInv /\ MarkedInv
<1> SUFFICES ASSUME Init PROVE FreshInv /\ AloneInv /\ CountInv /\ MarkedInv
  OBVIOUS
<1>1. /\ steer = <<>> /\ followUps = <<>> /\ input = <<>> /\ history = <<>> /\ pending = None
      /\ hold = [r \in Restart |-> <<>>] /\ kind = [r \in Restart |-> "none"]
      /\ seen = [m \in Message |-> 0]
  BY DEF Init
<1>2. \A S : Number(<<>>, S) = 0
  BY NumberOfFew
<1>3. \A S : Moving(S) = 0
  BY <1>1, <1>2 DEF Moving, Requested
<1>4. \A r \in Restart \cup {None} : Held(r) = <<>>
  BY <1>1 DEF Held
<1>5. \A S : \A r \in Restart \cup {None} : Travelling(S, r) = 0
  BY <1>2, <1>3, <1>4 DEF Travelling
<1>6. FreshInv
  BY <1>1, <1>2, <1>3 DEF FreshInv
<1>7. AloneInv
  BY <1>1 DEF AloneInv, Underway
<1>8. \A m \in Message : Uncarried(m) = 0
  BY <1>1, <1>2 DEF Uncarried
<1>9. \A m \in Message : seen[m] = 0
  BY <1>1
<1>10. CountInv
  BY <1>1, <1>2, <1>5, <1>8, <1>9 DEF CountInv, Counted
<1>11. MarkedInv
  BY <1>9 DEF MarkedInv
<1> QED
  BY <1>6, <1>7, <1>10, <1>11

LEMMA CountIsCarriedOnce ==
  ASSUME TypeOK, CountInv
  PROVE  CarriedOnce
<1> SUFFICES ASSUME ~entangled, ~raced, NEW m \in Message PROVE seen[m] <= 2
  BY DEF CarriedOnce
<1>1. seen[m] + Travelling(Copies(m), None) + Uncarried(m) <= 2
  BY DEF CountInv, Counted
<1>2. seen[m] \in Nat /\ Travelling(Copies(m), None) \in Nat /\ Uncarried(m) \in Nat
  BY Numbers, UncarriedIs DEF TypeOK, MonitorTypes
<1> QED
  BY <1>1, <1>2

-----------------------------------------------------------------------------
(* The session: theorems.                                                   *)

IInv ==
  /\ TypeOK /\ ShapeInv /\ Once /\ KindInv /\ RunningInv /\ QuietInv /\ ReplayInv
  /\ DueInv /\ OweInv /\ KeptInv /\ FreshInv /\ AloneInv /\ CountInv /\ MarkedInv

LEMMA InitIInv == Init => IInv
BY InitTypes, InitShape, InitRunning, InitQuiet, InitReplay, InitKept, InitCounts DEF IInv

LEMMA NextIInv == IInv /\ [Next]_vars => IInv'
<1> SUFFICES ASSUME IInv, [Next]_vars PROVE IInv'
  OBVIOUS
<1>1. TypeOK /\ ShapeInv /\ Once /\ KindInv /\ RunningInv /\ QuietInv /\ ReplayInv
      /\ DueInv /\ OweInv /\ KeptInv /\ FreshInv /\ AloneInv /\ CountInv /\ MarkedInv
  BY DEF IInv
<1>2. TypeOK' /\ ShapeInv' /\ Once' /\ RunningInv'
  BY <1>1, StepTypes, ShapeStep, OnceStep, RunningStep
<1>3. KindInv' /\ QuietInv' /\ ReplayInv'
  BY <1>1, KindStep, QuietStep, ReplayStep
<1>4. DueInv' /\ OweInv' /\ KeptInv'
  BY <1>1, DueStep, OweStep, KeptStep
<1>5. FreshInv' /\ AloneInv' /\ CountInv' /\ MarkedInv'
  BY <1>1, FreshStep, AloneStep, CountStep
<1> QED
  BY <1>2, <1>3, <1>4, <1>5 DEF IInv

LEMMA AlwaysIInv == Spec => []IInv
BY InitIInv, NextIInv, PTL DEF Spec

\* The card: while it says running, a run is on or somebody will change it.
THEOREM ChangesBack == Spec => []NotRunningForever
<1>1. IInv => NotRunningForever
  BY RunningIsSeen DEF IInv
<1> QED
  BY <1>1, AlwaysIInv, PTL

\* prependInFlight and prependMu: a context is in the conversation once, and the
\* transcript replays it where it is; the types of the session's variables.
THEOREM ContextsOnceInPlace == Spec => []ContextsInPlace
<1>1. IInv => ContextsInPlace
  BY ShapeIsMarked, OnceIsContextOnce, ReplayIsInPlace DEF IInv, ContextsInPlace
<1> QED
  BY <1>1, AlwaysIInv, PTL

\* Through aborts and hand-offs, what a session took is queued, carried or in its
\* history until it was answered, put back, cleared, or had by the next session.
THEOREM ForgetsNothing == Spec => []NothingForgotten
<1>1. IInv => NothingForgotten
  BY KeptIsNotForgotten DEF IInv
<1> QED
  BY <1>1, AlwaysIInv, PTL

\* lastCarried and carryKey: of hand-offs that follow each other one at most carries
\* a message again, so that two sessions see it at most, each once.
THEOREM CarriesOnce == Spec => []CarriedOnce
<1>1. IInv => CarriedOnce
  BY CountIsCarriedOnce DEF IInv
<1> QED
  BY <1>1, AlwaysIInv, PTL

-----------------------------------------------------------------------------
(* Transcripts: type correctness. *)

\* What the constants of the transcripts are like.
LEMMA StoreFacts ==
  /\ NoStore \notin Store
  /\ NoFile \notin File
  /\ ReadOnly \subseteq File
  /\ MaxEntries \in Nat \ {0}
  /\ Crashes \in BOOLEAN
BY StoreConstants DEF Transcripts!StoreAssumption

LEMMA LastOfType ==
  ASSUME NEW s \in Seq(Transcripts!EntryId)
  PROVE  Transcripts!LastOf(s) \in Nat
BY DEF Transcripts!LastOf, Transcripts!EntryId

LEMMA EntriesType ==
  ASSUME NEW s \in Seq(Transcripts!EntryId), NEW e \in Transcripts!Entries(s)
  PROVE  e \in Nat
BY DEF Transcripts!Entries, Transcripts!EntryId

\* The text of a file stays well typed when a line joins its last one.
LEMMA JoinLastLineType ==
  ASSUME Transcripts!TypeOK, NEW f \in File, Transcripts!JoinLastLine(f)
  PROVE  /\ header' \in [File -> BOOLEAN]
         /\ log' \in [File -> Seq(Transcripts!EntryId)]
         /\ tail' \in [File -> Transcripts!Ending]
<1>1. header' \in [File -> BOOLEAN] /\ tail' \in [File -> Transcripts!Ending]
  BY DEF Transcripts!JoinLastLine, Transcripts!TypeOK, Transcripts!Ending
<1>2. log[f] \in Seq(Transcripts!EntryId)
  BY DEF Transcripts!TypeOK
<1>3. SubSeq(log[f], 1, Len(log[f]) - 1) \in Seq(Transcripts!EntryId)
  BY <1>2, SubSeqProperties
<1>4. log' \in [File -> Seq(Transcripts!EntryId)]
  BY <1>2, <1>3 DEF Transcripts!JoinLastLine, Transcripts!TypeOK
<1> QED
  BY <1>1, <1>4

LEMMA AppendDataType ==
  ASSUME Transcripts!TypeOK, NEW f \in File, NEW e \in Transcripts!EntryId, Transcripts!AppendData(f, e)
  PROVE  /\ present' \in SUBSET File
         /\ header' \in [File -> BOOLEAN]
         /\ log' \in [File -> Seq(Transcripts!EntryId)]
         /\ tail' \in [File -> Transcripts!Ending]
<1>1. present' \in SUBSET File
  BY DEF Transcripts!AppendData, Transcripts!TypeOK
<1>2. CASE tail[f] = "newline"
  <2>1. log[f] \in Seq(Transcripts!EntryId)
    BY DEF Transcripts!TypeOK
  <2>2. Append(log[f], e) \in Seq(Transcripts!EntryId)
    BY <2>1, AppendProperties
  <2>3. log' \in [File -> Seq(Transcripts!EntryId)]
    BY <1>2, <2>2 DEF Transcripts!AppendData, Transcripts!TypeOK
  <2>4. header' \in [File -> BOOLEAN] /\ tail' \in [File -> Transcripts!Ending]
    BY <1>2 DEF Transcripts!AppendData, Transcripts!TypeOK, Transcripts!Ending
  <2> QED
    BY <1>1, <2>3, <2>4
<1>3. CASE tail[f] # "newline"
  BY <1>1, <1>3, JoinLastLineType DEF Transcripts!AppendData
<1> QED
  BY <1>2, <1>3

LEMMA AppendTornType ==
  ASSUME Transcripts!TypeOK, NEW f \in File, Transcripts!AppendTorn(f)
  PROVE  /\ present' \in SUBSET File
         /\ header' \in [File -> BOOLEAN]
         /\ log' \in [File -> Seq(Transcripts!EntryId)]
         /\ tail' \in [File -> Transcripts!Ending]
<1>1. present' \in SUBSET File
  BY DEF Transcripts!AppendTorn, Transcripts!TypeOK
<1>2. CASE tail[f] = "newline"
  BY <1>1, <1>2 DEF Transcripts!AppendTorn, Transcripts!TypeOK, Transcripts!Ending
<1>3. CASE tail[f] # "newline"
  BY <1>1, <1>3, JoinLastLineType DEF Transcripts!AppendTorn
<1> QED
  BY <1>2, <1>3

LEMMA WriteAllType ==
  ASSUME Transcripts!TypeOK, NEW f \in File, NEW es \in Seq(Transcripts!EntryId), Transcripts!WriteAll(f, es)
  PROVE  /\ present' \in SUBSET File
         /\ header' \in [File -> BOOLEAN]
         /\ log' \in [File -> Seq(Transcripts!EntryId)]
         /\ tail' \in [File -> Transcripts!Ending]
BY DEF Transcripts!WriteAll, Transcripts!TypeOK, Transcripts!Ending

LEMMA LoadType ==
  ASSUME Transcripts!TypeOK, NEW p \in Store, NEW f \in File, NEW g \in File \cup {NoFile},
         NEW es \in Seq(Transcripts!EntryId), Transcripts!Load(p, f, g, es)
  PROVE  /\ doing' \in [Store -> {"detached", "switching", "ready", "writing"}]
         /\ file' \in [Store -> File \cup {NoFile}]
         /\ lock' \in [Store -> File \cup {NoFile}]
         /\ mem' \in [Store -> Seq(Transcripts!EntryId)]
         /\ leaf' \in [Store -> Nat]
BY LastOfType DEF Transcripts!Load, Transcripts!TypeOK

LEMMA DetachType ==
  ASSUME Transcripts!TypeOK, NEW p \in Store, Transcripts!Detach(p)
  PROVE  /\ doing' \in [Store -> {"detached", "switching", "ready", "writing"}]
         /\ file' \in [Store -> File \cup {NoFile}]
         /\ lock' \in [Store -> File \cup {NoFile}]
         /\ mem' \in [Store -> Seq(Transcripts!EntryId)]
         /\ leaf' \in [Store -> Nat]
         /\ persist' \in [Store -> BOOLEAN]
BY DEF Transcripts!Detach, Transcripts!TypeOK

LEMMA HolderType ==
  ASSUME Transcripts!TypeOK, NEW p \in Store
  PROVE  /\ Transcripts!Released(p) \in [File -> Store \cup {NoStore}]
         /\ Transcripts!Dropped(p) \in [File -> Store \cup {NoStore}]
BY DEF Transcripts!Released, Transcripts!Dropped, Transcripts!TypeOK

-----------------------------------------------------------------------------
(* Transcripts: the inductive invariant. *)

\* What ss.lock and the kernel's table of flocks say of each other, and which
\* stores may write where.
LockInv ==
  \A p \in Store :
    /\ doing[p] \in {"detached", "writing"} => persist[p]
    /\ doing[p] \in {"ready", "writing"} => file[p] \in File
    /\ doing[p] \in {"detached", "switching"} \/ ~persist[p] => lock[p] = NoFile
    /\ lock[p] # NoFile => holder[lock[p]] = p
    /\ Transcripts!Writing(p) => file[p] \notin ReadOnly

\* Nobody has the flock of a read-only transcript; a file that does not exist
\* has no entries.
FileInv ==
  /\ \A f \in ReadOnly : f \in present /\ holder[f] = NoStore
  /\ \A f \in File \ present : log[f] = <<>>

\* The discipline: a writer of a file that is not exposed has its flock, its
\* memory is the file's entries, and between appends the last line is whole.
WriterInv ==
  \A p \in Store :
    Transcripts!Writing(p) /\ file[p] \notin exposed
      => /\ lock[p] = file[p]
         /\ header[file[p]] /\ log[file[p]] = mem[p]
         /\ doing[p] = "ready" => tail[file[p]] = "newline"

StoreInv == Transcripts!TypeOK /\ LockInv /\ FileInv /\ WriterInv

LEMMA InitStoreInv == Transcripts!Init => StoreInv
<1> SUFFICES ASSUME Transcripts!Init PROVE StoreInv
  OBVIOUS
<1>1. Transcripts!TypeOK
  <2>1. <<1>> \in Seq(Transcripts!EntryId) /\ <<>> \in Seq(Transcripts!EntryId) /\ <<0>> \in Seq(Nat)
    BY DEF Transcripts!EntryId
  <2>2. log \in [File -> Seq(Transcripts!EntryId)] /\ parent \in Seq(Nat) /\ target \in Seq(Nat)
    BY <2>1 DEF Transcripts!Init
  <2>3. header \in [File -> BOOLEAN] /\ tail \in [File -> Transcripts!Ending]
    BY DEF Transcripts!Init, Transcripts!Ending
  <2>4. mem \in [Store -> Seq(Transcripts!EntryId)]
    BY <2>1 DEF Transcripts!Init
  <2> QED
    BY <2>2, <2>3, <2>4, StoreFacts DEF Transcripts!Init, Transcripts!TypeOK
<1>2. LockInv /\ FileInv /\ WriterInv
  BY StoreFacts DEF Transcripts!Init, LockInv, FileInv, WriterInv, Transcripts!Writing
<1> QED
  BY <1>1, <1>2 DEF StoreInv

-----------------------------------------------------------------------------
(* Creating and appending. *)

LEMMA NewSessionStep ==
  ASSUME StoreInv, NEW p \in Store, Transcripts!NewSession(p)
  PROVE  StoreInv'
<1>1. PICK f \in File :
        /\ Transcripts!Fresh(f)
        /\ holder' = [Transcripts!Released(p) EXCEPT ![f] = p]
        /\ present' = present \cup {f}
        /\ header' = [header EXCEPT ![f] = TRUE]
        /\ log' = [log EXCEPT ![f] = <<>>]
        /\ tail' = [tail EXCEPT ![f] = "header"]
        /\ file' = [file EXCEPT ![p] = f]
        /\ lock' = [lock EXCEPT ![p] = f]
  BY DEF Transcripts!NewSession
<1>2. /\ doing' = [doing EXCEPT ![p] = "writing"]
      /\ mem' = [mem EXCEPT ![p] = <<>>]
      /\ leaf' = [leaf EXCEPT ![p] = 0]
      /\ persist[p]
      /\ UNCHANGED <<Transcripts!treeVars, persist, exposed>>
  BY DEF Transcripts!NewSession
<1>3. Transcripts!TypeOK'
  BY <1>1, <1>2, HolderType DEF StoreInv, Transcripts!TypeOK, Transcripts!treeVars, Transcripts!Ending
<1>4. \A q \in Store : file[q] # f /\ lock[q] # f
  BY <1>1 DEF Transcripts!Fresh
<1>5. LockInv'
  BY <1>1, <1>2, <1>4, StoreFacts
  DEF StoreInv, Transcripts!TypeOK, LockInv, Transcripts!Released, Transcripts!Fresh, Transcripts!Writing
<1>6. FileInv'
  BY <1>1, <1>2, StoreFacts DEF StoreInv, Transcripts!TypeOK, LockInv, FileInv, Transcripts!Released, Transcripts!Fresh
<1>7. WriterInv'
  BY <1>1, <1>2, <1>4 DEF StoreInv, Transcripts!TypeOK, LockInv, WriterInv, Transcripts!Writing
<1> QED
  BY <1>3, <1>5, <1>6, <1>7 DEF StoreInv

LEMMA NewSessionInMemoryStep ==
  ASSUME StoreInv, NEW p \in Store, Transcripts!NewSessionInMemory(p)
  PROVE  StoreInv'
<1>1. Transcripts!TypeOK'
  BY DEF Transcripts!NewSessionInMemory, StoreInv, Transcripts!TypeOK, Transcripts!diskVars, Transcripts!treeVars
<1>2. LockInv' /\ FileInv'
  BY DEF Transcripts!NewSessionInMemory, StoreInv, LockInv, FileInv, Transcripts!Writing, Transcripts!diskVars
<1>3. WriterInv'
  BY DEF Transcripts!NewSessionInMemory, StoreInv, Transcripts!TypeOK, WriterInv, Transcripts!Writing, Transcripts!diskVars
<1> QED
  BY <1>1, <1>2, <1>3 DEF StoreInv

\* Two stores that may write the same file, not exposed, are one.
LEMMA OneWriter ==
  ASSUME LockInv, WriterInv, Transcripts!TypeOK, NEW p \in Store, NEW q \in Store,
         Transcripts!Writing(p), Transcripts!Writing(q), file[p] = file[q], file[p] \notin exposed
  PROVE  p = q /\ lock[p] = file[p] /\ holder[file[p]] = p
<1>1. lock[p] = file[p] /\ lock[q] = file[p] /\ file[p] \in File
  BY DEF WriterInv, LockInv, Transcripts!Writing
<1> QED
  BY <1>1, StoreFacts DEF LockInv

LEMMA FinishLineStep ==
  ASSUME StoreInv, NEW p \in Store, Transcripts!FinishLine(p)
  PROVE  StoreInv'
<1>1. Transcripts!TypeOK'
  BY DEF Transcripts!FinishLine, StoreInv, Transcripts!TypeOK, Transcripts!Ending, Transcripts!treeVars
<1>2. LockInv' /\ FileInv'
  BY DEF Transcripts!FinishLine, StoreInv, Transcripts!TypeOK, LockInv, FileInv, Transcripts!Writing
<1>3. WriterInv'
  BY DEF Transcripts!FinishLine, StoreInv, Transcripts!TypeOK, LockInv, WriterInv, Transcripts!Writing
<1> QED
  BY <1>1, <1>2, <1>3 DEF StoreInv

\* rewriteFile with what the store's memory holds.
LEMMA RewriteStep ==
  ASSUME StoreInv, NEW p \in Store, doing[p] = "ready", persist[p],
         Transcripts!WriteAll(file[p], mem[p]), UNCHANGED <<holder, Transcripts!treeVars, Transcripts!storeVars, exposed>>
  PROVE  StoreInv'
<1>0. file[p] \in File /\ mem[p] \in Seq(Transcripts!EntryId) /\ Transcripts!Writing(p)
  BY DEF StoreInv, LockInv, Transcripts!TypeOK, Transcripts!Writing
<1>1. Transcripts!TypeOK'
  BY <1>0, WriteAllType DEF StoreInv, Transcripts!TypeOK, Transcripts!treeVars, Transcripts!storeVars
<1>2. LockInv'
  BY DEF StoreInv, LockInv, Transcripts!Writing, Transcripts!storeVars
<1>3. FileInv'
  BY <1>0 DEF StoreInv, Transcripts!TypeOK, FileInv, Transcripts!WriteAll
<1>4. WriterInv'
  <2> SUFFICES ASSUME NEW q \in Store, Transcripts!Writing(q), file[q] \notin exposed
               PROVE  /\ lock[q] = file[q]
                      /\ header'[file[q]] /\ log'[file[q]] = mem[q]
                      /\ doing[q] = "ready" => tail'[file[q]] = "newline"
    BY DEF WriterInv, Transcripts!Writing, Transcripts!storeVars
  <2>1. file[q] \in File
    BY DEF StoreInv, LockInv, Transcripts!Writing
  <2>2. CASE file[q] = file[p]
    BY <1>0, <2>1, <2>2, OneWriter DEF StoreInv, Transcripts!TypeOK, Transcripts!WriteAll
  <2>3. CASE file[q] # file[p]
    BY <1>0, <2>1, <2>3 DEF StoreInv, Transcripts!TypeOK, WriterInv, Transcripts!WriteAll
  <2> QED
    BY <2>2, <2>3
<1> QED
  BY <1>1, <1>2, <1>3, <1>4 DEF StoreInv

LEMMA StampInvocationStep ==
  ASSUME StoreInv, NEW p \in Store, Transcripts!StampInvocation(p)
  PROVE  StoreInv'
BY RewriteStep DEF Transcripts!StampInvocation

LEMMA ForceFlushStep ==
  ASSUME StoreInv, NEW p \in Store, Transcripts!ForceFlush(p)
  PROVE  StoreInv'
BY RewriteStep DEF Transcripts!ForceFlush

\* A writer other than p does not write p's file, or the file is exposed.
LEMMA OtherWriter ==
  ASSUME StoreInv, NEW p \in Store, NEW q \in Store, p # q,
         Transcripts!Writing(p), Transcripts!Writing(q), file[q] \notin exposed
  PROVE  file[q] # file[p]
BY OneWriter DEF StoreInv

LEMMA AppendEntryStep ==
  ASSUME StoreInv, NEW p \in Store, NEW b \in Nat, NEW t \in Nat, Transcripts!AppendEntry(p, b, t)
  PROVE  StoreInv'
<1> DEFINE e == Len(parent) + 1
<1>1. /\ e \in Transcripts!EntryId /\ file[p] \in File /\ doing[p] = "ready"
      /\ parent' = Append(parent, b) /\ target' = Append(target, t)
      /\ mem' = [mem EXCEPT ![p] = Append(@, e)]
      /\ leaf' = [leaf EXCEPT ![p] = e]
      /\ UNCHANGED <<holder, file, lock, persist, exposed>>
  BY DEF Transcripts!AppendEntry, StoreInv, LockInv, Transcripts!TypeOK, Transcripts!EntryId
<1>2. mem[p] \in Seq(Transcripts!EntryId) /\ Append(mem[p], e) \in Seq(Transcripts!EntryId)
  BY <1>1, AppendProperties DEF StoreInv, Transcripts!TypeOK
<1>3. /\ parent' \in Seq(Nat) /\ target' \in Seq(Nat)
      /\ mem' \in [Store -> Seq(Transcripts!EntryId)] /\ leaf' \in [Store -> Nat]
  BY <1>1, <1>2, AppendProperties DEF StoreInv, Transcripts!TypeOK, Transcripts!EntryId
<1>4. CASE persist[p]
  <2>1. Transcripts!AppendData(file[p], e) /\ doing' = [doing EXCEPT ![p] = "writing"]
    BY <1>4 DEF Transcripts!AppendEntry
  <2>2. /\ present' \in SUBSET File /\ header' \in [File -> BOOLEAN]
        /\ log' \in [File -> Seq(Transcripts!EntryId)] /\ tail' \in [File -> Transcripts!Ending]
    BY <1>1, <2>1, AppendDataType DEF StoreInv
  <2>3. Transcripts!TypeOK'
    BY <1>1, <1>3, <2>1, <2>2 DEF StoreInv, Transcripts!TypeOK
  <2>4. LockInv'
    BY <1>1, <1>4, <2>1 DEF StoreInv, LockInv, Transcripts!TypeOK, Transcripts!Writing
  <2>5. /\ present' = present \cup {file[p]}
        /\ \A f \in File : f # file[p] => /\ log'[f] = log[f] /\ header'[f] = header[f]
                                       /\ tail'[f] = tail[f]
    BY <1>1, <2>1 DEF Transcripts!AppendData, Transcripts!JoinLastLine, StoreInv, Transcripts!TypeOK
  <2>6. FileInv'
    BY <1>1, <2>5, StoreFacts DEF StoreInv, FileInv
  <2>7. WriterInv'
    <3> SUFFICES ASSUME NEW q \in Store, Transcripts!Writing(q)', file[q] \notin exposed
                 PROVE  /\ lock[q] = file[q]
                        /\ header'[file[q]] /\ log'[file[q]] = mem'[q]
                        /\ doing'[q] = "ready" => tail'[file[q]] = "newline"
      BY <1>1 DEF WriterInv
    <3>1. Transcripts!Writing(q) /\ Transcripts!Writing(p) /\ file[q] \in File
      BY <1>1, <1>4, <2>1 DEF Transcripts!Writing, StoreInv, Transcripts!TypeOK, LockInv
    <3>2. CASE q = p
      <4>1. /\ tail[file[p]] = "newline" /\ header[file[p]]
            /\ log[file[p]] = mem[p] /\ lock[p] = file[p]
        BY <1>1, <3>1, <3>2 DEF StoreInv, WriterInv
      <4>2. header' = header /\ log' = [log EXCEPT ![file[p]] = Append(@, e)]
        BY <2>1, <4>1 DEF Transcripts!AppendData
      <4> QED
        BY <1>1, <2>1, <3>2, <4>1, <4>2 DEF StoreInv, Transcripts!TypeOK
    <3>3. CASE q # p
      <4>1. file[q] # file[p]
        BY <3>1, <3>3, OtherWriter
      <4> QED
        BY <1>1, <2>1, <2>5, <3>1, <3>3, <4>1 DEF StoreInv, Transcripts!TypeOK, WriterInv
    <3> QED
      BY <3>2, <3>3
  <2> QED
    BY <2>3, <2>4, <2>6, <2>7 DEF StoreInv
<1>5. CASE ~persist[p]
  <2>1. UNCHANGED <<present, header, log, tail, doing>>
    BY <1>5 DEF Transcripts!AppendEntry, Transcripts!diskVars
  <2>2. Transcripts!TypeOK'
    BY <1>1, <1>3, <2>1 DEF StoreInv, Transcripts!TypeOK
  <2>3. LockInv' /\ FileInv'
    BY <1>1, <2>1 DEF StoreInv, LockInv, FileInv, Transcripts!Writing
  <2>4. WriterInv'
    BY <1>1, <1>5, <2>1 DEF StoreInv, Transcripts!TypeOK, WriterInv, Transcripts!Writing
  <2> QED
    BY <2>2, <2>3, <2>4 DEF StoreInv
<1> QED
  BY <1>4, <1>5

LEMMA BranchStep ==
  ASSUME StoreInv, NEW p \in Store, Transcripts!Branch(p)
  PROVE  StoreInv'
<1>1. PICK b \in Transcripts!Entries(mem[p]) \cup {0} : leaf' = [leaf EXCEPT ![p] = b]
  BY DEF Transcripts!Branch
<1>2. b \in Nat /\ UNCHANGED <<Transcripts!diskVars, holder, Transcripts!treeVars, doing, file, lock, mem, persist, exposed>>
  BY EntriesType DEF Transcripts!Branch, StoreInv, Transcripts!TypeOK
<1>3. Transcripts!TypeOK'
  BY <1>1, <1>2 DEF StoreInv, Transcripts!TypeOK, Transcripts!diskVars, Transcripts!treeVars
<1>4. LockInv' /\ FileInv' /\ WriterInv'
  BY <1>2 DEF StoreInv, LockInv, FileInv, WriterInv, Transcripts!Writing, Transcripts!diskVars
<1> QED
  BY <1>3, <1>4 DEF StoreInv

-----------------------------------------------------------------------------
(* Transcripts!Opening and forking. *)

LEMMA BeginSwitchStep ==
  ASSUME StoreInv, NEW p \in Store, Transcripts!BeginSwitch(p)
  PROVE  StoreInv'
<1>1. Transcripts!TypeOK'
  BY HolderType DEF Transcripts!BeginSwitch, StoreInv, Transcripts!TypeOK, Transcripts!diskVars, Transcripts!treeVars
<1>2. LockInv'
  BY StoreFacts DEF Transcripts!BeginSwitch, StoreInv, Transcripts!TypeOK, LockInv, Transcripts!Released, Transcripts!Writing
<1>3. FileInv'
  BY DEF Transcripts!BeginSwitch, StoreInv, Transcripts!TypeOK, FileInv, Transcripts!Released, Transcripts!diskVars
<1>4. WriterInv'
  BY DEF Transcripts!BeginSwitch, StoreInv, Transcripts!TypeOK, WriterInv, Transcripts!Writing, Transcripts!diskVars
<1> QED
  BY <1>1, <1>2, <1>3, <1>4 DEF StoreInv

\* A store that opens a file is no writer and has no flock.
LEMMA OpeningHoldsNothing ==
  ASSUME StoreInv, NEW p \in Store, Transcripts!Opening(p)
  PROVE  lock[p] = NoFile /\ ~Transcripts!Writing(p)
BY DEF StoreInv, LockInv, Transcripts!Opening, Transcripts!Writing

\* A store that had no file takes up f, as a writer with the flock of g or as
\* a reader with none.  The other stores' files keep their text, unless they
\* are exposed.
LEMMA TakeUpStep ==
  ASSUME StoreInv, NEW p \in Store, ~Transcripts!Writing(p), lock[p] = NoFile,
         NEW f \in File, NEW g \in File \cup {NoFile}, NEW es \in Seq(Transcripts!EntryId),
         Transcripts!Load(p, f, g, es), Transcripts!TypeOK', FileInv',
         ~persist'[p] => g = NoFile,
         g # NoFile => holder[g] = NoStore /\ holder'[g] = p,
         \A h \in File : h # g /\ holder[h] # NoStore => holder'[h] = holder[h],
         \A q \in Store : q # p => persist'[q] = persist[q],
         persist'[p] => f \notin ReadOnly,
         exposed \subseteq exposed',
         \A h \in File : h \notin exposed' /\ holder[h] # NoStore
                           => UNCHANGED <<header[h], log[h]>>
                              /\ (tail[h] = "newline" => tail'[h] = "newline"),
         persist'[p] /\ f \notin exposed'
           => g = f /\ header'[f] /\ log'[f] = es /\ tail'[f] = "newline"
  PROVE  StoreInv'
<1>1. \A q \in Store : q # p =>
        /\ doing'[q] = doing[q] /\ file'[q] = file[q] /\ lock'[q] = lock[q]
        /\ mem'[q] = mem[q] /\ (Transcripts!Writing(q)' <=> Transcripts!Writing(q))
  BY DEF StoreInv, Transcripts!TypeOK, Transcripts!Load, Transcripts!Writing
<1>2. doing'[p] = "ready" /\ file'[p] = f /\ lock'[p] = g /\ mem'[p] = es
  BY DEF StoreInv, Transcripts!TypeOK, Transcripts!Load
<1>3. LockInv'
  <2> SUFFICES ASSUME NEW q \in Store
               PROVE  /\ doing'[q] \in {"detached", "writing"} => persist'[q]
                      /\ doing'[q] \in {"ready", "writing"} => file'[q] \in File
                      /\ doing'[q] \in {"detached", "switching"} \/ ~persist'[q]
                           => lock'[q] = NoFile
                      /\ lock'[q] # NoFile => holder'[lock'[q]] = q
                      /\ Transcripts!Writing(q)' => file'[q] \notin ReadOnly
    BY DEF LockInv
  <2>1. CASE q = p
    BY <1>2, <2>1 DEF Transcripts!Writing
  <2>2. CASE q # p
    <3>1. lock[q] # NoFile => lock[q] \in File /\ holder[lock[q]] = q
      BY DEF StoreInv, LockInv, Transcripts!TypeOK
    <3>2. lock'[q] # NoFile => holder'[lock'[q]] = q
      BY <1>1, <2>2, <3>1, StoreFacts
    <3> QED
      BY <1>1, <2>2, <3>2 DEF StoreInv, LockInv
  <2> QED
    BY <2>1, <2>2
<1>4. WriterInv'
  <2> SUFFICES ASSUME NEW q \in Store, Transcripts!Writing(q)', file'[q] \notin exposed'
               PROVE  /\ lock'[q] = file'[q]
                      /\ header'[file'[q]] /\ log'[file'[q]] = mem'[q]
                      /\ doing'[q] = "ready" => tail'[file'[q]] = "newline"
    BY DEF WriterInv
  <2>1. CASE q = p
    BY <1>2, <2>1 DEF Transcripts!Writing
  <2>2. CASE q # p
    <3>1. Transcripts!Writing(q) /\ file[q] \in File /\ file[q] \notin exposed
      BY <1>1, <2>2 DEF StoreInv, LockInv, Transcripts!Writing
    <3>2. holder[file[q]] # NoStore
      BY <3>1, StoreFacts DEF StoreInv, LockInv, WriterInv
    <3> QED
      BY <1>1, <2>2, <3>1, <3>2 DEF StoreInv, WriterInv
  <2> QED
    BY <2>1, <2>2
<1> QED
  BY <1>3, <1>4 DEF StoreInv

LEMMA OpenLockedStep ==
  ASSUME StoreInv, NEW p \in Store, NEW f \in File, Transcripts!OpenLocked(p, f)
  PROVE  StoreInv'
<1>1. /\ Transcripts!Opening(p) /\ persist[p] /\ f \in present \ ReadOnly /\ header[f]
      /\ holder[f] = NoStore /\ holder' = [holder EXCEPT ![f] = p]
      /\ tail' = [tail EXCEPT ![f] = "newline"]
      /\ Transcripts!Load(p, f, f, log[f])
      /\ UNCHANGED <<present, header, log, Transcripts!treeVars, persist, exposed>>
  BY DEF Transcripts!OpenLocked
<1>2. log[f] \in Seq(Transcripts!EntryId)
  BY DEF StoreInv, Transcripts!TypeOK
<1>3. Transcripts!TypeOK'
  BY <1>1, <1>2, LoadType DEF StoreInv, Transcripts!TypeOK, Transcripts!Ending, Transcripts!treeVars
<1>4. FileInv'
  BY <1>1 DEF StoreInv, Transcripts!TypeOK, FileInv
<1>5. \A h \in File : h # f /\ holder[h] # NoStore => holder'[h] = holder[h]
  BY <1>1 DEF StoreInv, Transcripts!TypeOK
<1>6. /\ holder'[f] = p /\ header'[f] /\ log'[f] = log[f] /\ tail'[f] = "newline"
      /\ exposed \subseteq exposed'
      /\ f \notin ReadOnly
  BY <1>1 DEF StoreInv, Transcripts!TypeOK
<1>7. \A h \in File : /\ UNCHANGED <<header[h], log[h]>>
                      /\ tail[h] = "newline" => tail'[h] = "newline"
  BY <1>1 DEF StoreInv, Transcripts!TypeOK
<1>8. \A q \in Store : q # p => persist'[q] = persist[q]
  BY <1>1
<1> QED
  BY <1>1, <1>2, <1>3, <1>4, <1>5, <1>6, <1>7, <1>8, OpeningHoldsNothing, TakeUpStep

\* A new file g, written whole, is nobody's but the one's that takes it up.
LEMMA TakeUpCopyStep ==
  ASSUME StoreInv, NEW p \in Store, Transcripts!Opening(p), persist[p], UNCHANGED persist,
         NEW g \in File, Transcripts!Fresh(g), NEW es \in Seq(Transcripts!EntryId), Transcripts!WriteAll(g, es),
         holder' = [holder EXCEPT ![g] = p],
         NEW l \in File \cup {NoFile}, Transcripts!Load(p, g, l, es),
         l = g \/ (l = NoFile /\ g \in exposed'),
         exposed \subseteq exposed', exposed' \subseteq File,
         parent' \in Seq(Nat), target' \in Seq(Nat)
  PROVE  StoreInv'
<1>1. Transcripts!TypeOK'
  BY WriteAllType, LoadType DEF StoreInv, Transcripts!TypeOK
<1>2. FileInv'
  BY DEF StoreInv, Transcripts!TypeOK, FileInv, Transcripts!WriteAll, Transcripts!Fresh
<1>3. \A h \in File : h # l /\ holder[h] # NoStore => holder'[h] = holder[h]
  BY DEF StoreInv, Transcripts!TypeOK, Transcripts!Fresh
<1>4. l # NoFile => holder[l] = NoStore /\ holder'[l] = p
  BY DEF StoreInv, Transcripts!TypeOK, Transcripts!Fresh
<1>5. g \notin ReadOnly
  BY DEF Transcripts!Fresh
<1>6. \A h \in File : holder[h] # NoStore
                        => UNCHANGED <<header[h], log[h]>>
                           /\ (tail[h] = "newline" => tail'[h] = "newline")
  BY DEF StoreInv, Transcripts!TypeOK, Transcripts!Fresh, Transcripts!WriteAll
<1>7. header'[g] /\ log'[g] = es /\ tail'[g] = "newline"
  BY DEF StoreInv, Transcripts!TypeOK, Transcripts!WriteAll
<1>8. lock[p] = NoFile /\ ~Transcripts!Writing(p) /\ persist'[p]
  BY OpeningHoldsNothing
<1>9. \A q \in Store : q # p => persist'[q] = persist[q]
  OBVIOUS
<1>10. persist'[p] /\ g \notin exposed'
           => l = g /\ header'[g] /\ log'[g] = es /\ tail'[g] = "newline"
  BY <1>7
<1> QED
  BY <1>1, <1>2, <1>3, <1>4, <1>5, <1>6, <1>8, <1>9, <1>10, TakeUpStep

LEMMA OpenForkStep ==
  ASSUME StoreInv, NEW p \in Store, NEW f \in File, Transcripts!OpenFork(p, f)
  PROVE  StoreInv'
<1>1. PICK g \in File :
        /\ Transcripts!Fresh(g) /\ Transcripts!WriteAll(g, log[f])
        /\ holder' = [holder EXCEPT ![g] = p]
        /\ Transcripts!Load(p, g, NoFile, log[f])
        /\ exposed' = exposed \cup {g}
  BY DEF Transcripts!OpenFork
<1>2. Transcripts!Opening(p) /\ persist[p] /\ UNCHANGED <<Transcripts!treeVars, persist>>
  BY DEF Transcripts!OpenFork
<1>3. /\ log[f] \in Seq(Transcripts!EntryId) /\ exposed' \subseteq File
      /\ parent' \in Seq(Nat) /\ target' \in Seq(Nat)
  BY <1>1, <1>2 DEF StoreInv, Transcripts!TypeOK, Transcripts!treeVars
<1>4. exposed \subseteq exposed' /\ g \in exposed'
  BY <1>1
<1> QED
  BY <1>1, <1>2, <1>3, <1>4, TakeUpCopyStep

LEMMA OpenReadOnlyStep ==
  ASSUME StoreInv, NEW p \in Store, NEW f \in File, Transcripts!OpenReadOnly(p, f)
  PROVE  StoreInv'
<1>1. PICK g \in File :
        /\ Transcripts!Fresh(g) /\ Transcripts!WriteAll(g, log[f])
        /\ holder' = [holder EXCEPT ![g] = p]
        /\ Transcripts!Load(p, g, g, log[f])
  BY DEF Transcripts!OpenReadOnly
<1>2. Transcripts!Opening(p) /\ persist[p] /\ UNCHANGED <<Transcripts!treeVars, persist, exposed>>
  BY DEF Transcripts!OpenReadOnly
<1>3. /\ log[f] \in Seq(Transcripts!EntryId) /\ g \in File \cup {NoFile}
      /\ parent' \in Seq(Nat) /\ target' \in Seq(Nat)
      /\ exposed \subseteq exposed' /\ exposed' \subseteq File
      /\ UNCHANGED persist
  BY <1>2 DEF StoreInv, Transcripts!TypeOK, Transcripts!treeVars
<1>4. g = g \/ (g = NoFile /\ g \in exposed')
  OBVIOUS
<1> QED
  BY <1>1, <1>2, <1>3, <1>4, TakeUpCopyStep

LEMMA OpenCorruptStep ==
  ASSUME StoreInv, NEW p \in Store, NEW f \in File, Transcripts!OpenCorrupt(p, f)
  PROVE  StoreInv'
<1>1. PICK s \in File :
        /\ Transcripts!Fresh(s)
        /\ holder' = [holder EXCEPT ![s] = p]
        /\ present' = present \cup {s}
        /\ header' = [header EXCEPT ![s] = TRUE, ![f] = TRUE]
        /\ log' = [log EXCEPT ![f] = <<>>]
        /\ tail' = [tail EXCEPT ![f] = "newline"]
        /\ Transcripts!Load(p, f, s, <<>>)
  BY DEF Transcripts!OpenCorrupt
<1>2. /\ Transcripts!Opening(p) /\ persist[p] /\ f \in present \ ReadOnly /\ ~header[f]
      /\ exposed' = exposed \cup {f}
      /\ UNCHANGED <<Transcripts!treeVars, persist>>
  BY DEF Transcripts!OpenCorrupt
<1>3. <<>> \in Seq(Transcripts!EntryId) /\ s \in File \cup {NoFile}
  OBVIOUS
<1>4. Transcripts!TypeOK'
  BY <1>1, <1>2, <1>3, LoadType DEF StoreInv, Transcripts!TypeOK, Transcripts!treeVars, Transcripts!Ending
<1>5. FileInv'
  BY <1>1, <1>2 DEF StoreInv, Transcripts!TypeOK, FileInv, Transcripts!Fresh
<1>6. \A h \in File : h # s /\ holder[h] # NoStore => holder'[h] = holder[h]
  BY <1>1 DEF StoreInv, Transcripts!TypeOK
<1>7. holder[s] = NoStore /\ holder'[s] = p
  BY <1>1 DEF StoreInv, Transcripts!TypeOK, Transcripts!Fresh
<1>8. \A h \in File : h \notin exposed' /\ holder[h] # NoStore
                        => UNCHANGED <<header[h], log[h]>>
                           /\ (tail[h] = "newline" => tail'[h] = "newline")
  BY <1>1, <1>2, <1>7 DEF StoreInv, Transcripts!TypeOK
<1>9. /\ f \in exposed' /\ exposed \subseteq exposed' /\ f \notin ReadOnly
      /\ persist'[p] /\ \A q \in Store : persist'[q] = persist[q]
  BY <1>2
<1> QED
  BY <1>1, <1>2, <1>3, <1>4, <1>5, <1>6, <1>7, <1>8, <1>9,
     OpeningHoldsNothing, TakeUpStep

LEMMA OpenMissingStep ==
  ASSUME StoreInv, NEW p \in Store, NEW f \in File, Transcripts!OpenMissing(p, f)
  PROVE  StoreInv'
<1>1. PICK s \in File \ {f} :
        /\ Transcripts!Fresh(s)
        /\ holder' = [holder EXCEPT ![s] = p]
        /\ present' = present \cup {s}
        /\ header' = [header EXCEPT ![s] = TRUE]
        /\ Transcripts!Load(p, f, s, <<>>)
  BY DEF Transcripts!OpenMissing
<1>2. /\ Transcripts!Opening(p) /\ persist[p] /\ f \notin present \cup ReadOnly
      /\ exposed' = exposed \cup {f}
      /\ UNCHANGED <<log, tail, Transcripts!treeVars, persist>>
  BY DEF Transcripts!OpenMissing
<1>3. <<>> \in Seq(Transcripts!EntryId) /\ s \in File \cup {NoFile}
  OBVIOUS
<1>4. Transcripts!TypeOK'
  BY <1>1, <1>2, <1>3, LoadType DEF StoreInv, Transcripts!TypeOK, Transcripts!treeVars
<1>5. FileInv'
  BY <1>1, <1>2 DEF StoreInv, Transcripts!TypeOK, FileInv, Transcripts!Fresh
<1>6. \A h \in File : h # s /\ holder[h] # NoStore => holder'[h] = holder[h]
  BY <1>1 DEF StoreInv, Transcripts!TypeOK
<1>7. holder[s] = NoStore /\ holder'[s] = p
  BY <1>1 DEF StoreInv, Transcripts!TypeOK, Transcripts!Fresh
<1>8. \A h \in File : h \notin exposed' /\ holder[h] # NoStore
                        => UNCHANGED <<header[h], log[h]>>
                           /\ (tail[h] = "newline" => tail'[h] = "newline")
  BY <1>1, <1>2, <1>7 DEF StoreInv, Transcripts!TypeOK
<1>9. /\ f \in exposed' /\ exposed \subseteq exposed' /\ f \notin ReadOnly
      /\ persist'[p] /\ \A q \in Store : persist'[q] = persist[q]
  BY <1>2
<1> QED
  BY <1>1, <1>2, <1>3, <1>4, <1>5, <1>6, <1>7, <1>8, <1>9,
     OpeningHoldsNothing, TakeUpStep

LEMMA OpenInMemoryStep ==
  ASSUME StoreInv, NEW p \in Store, NEW f \in File, Transcripts!OpenInMemory(p, f)
  PROVE  StoreInv'
<1> DEFINE es == IF header[f] THEN log[f] ELSE <<>>
<1>1. /\ Transcripts!Opening(p) /\ Transcripts!Load(p, f, NoFile, es)
      /\ persist' = [persist EXCEPT ![p] = FALSE]
      /\ UNCHANGED <<present, header, log, tail, holder, parent, target, exposed>>
  BY DEF Transcripts!OpenInMemory, Transcripts!diskVars, Transcripts!treeVars
<1>2. es \in Seq(Transcripts!EntryId) /\ NoFile \in File \cup {NoFile}
  BY DEF StoreInv, Transcripts!TypeOK
<1>3. Transcripts!TypeOK'
  BY <1>1, <1>2, LoadType DEF StoreInv, Transcripts!TypeOK
<1>4. FileInv'
  BY <1>1 DEF StoreInv, FileInv
<1>5. ~persist'[p] /\ \A q \in Store : q # p => persist'[q] = persist[q]
  BY <1>1 DEF StoreInv, Transcripts!TypeOK
<1> HIDE DEF es
<1> QED
  BY <1>1, <1>2, <1>3, <1>4, <1>5, OpeningHoldsNothing, TakeUpStep

\* A function from 1 .. n is a sequence.
LEMMA EnumerationType ==
  ASSUME NEW S, NEW n \in Nat, NEW s \in [1 .. n -> S]
  PROVE  s \in Seq(S) /\ Len(s) = n
OBVIOUS

LEMMA SameCardinality == \A S : Transcripts!Cardinality(S) = Cardinality(S)
BY DEF Transcripts!Cardinality, Cardinality

LEMMA EntriesFinite ==
  ASSUME NEW s \in Seq(Transcripts!EntryId)
  PROVE  /\ Transcripts!Entries(s) \subseteq Transcripts!EntryId
         /\ IsFiniteSet(Transcripts!Entries(s))
         /\ Transcripts!Cardinality(Transcripts!Entries(s)) \in Nat
<1> DEFINE S == Transcripts!Entries(s)
<1>1. s \in Seq(S) /\ \A e \in S : \E n \in 1 .. Len(s) : s[n] = e
  BY DEF Transcripts!Entries
<1>2. IsFiniteSet(S)
  BY <1>1 DEF IsFiniteSet
<1>3. Cardinality(S) \in Nat
  BY <1>2, FS_CardinalityType
<1>4. S \subseteq Transcripts!EntryId
  BY DEF Transcripts!Entries
<1> QED
  BY <1>2, <1>3, <1>4, SameCardinality

\* An ascending enumeration of a finite set of numbers leaves none out.
LEMMA AscendingIsOnto ==
  ASSUME NEW K \in SUBSET Nat, IsFiniteSet(K), NEW at \in Transcripts!Ascending(K)
  PROVE  /\ Transcripts!Cardinality(K) \in Nat
         /\ DOMAIN at = 1 .. Transcripts!Cardinality(K)
         /\ \A i \in DOMAIN at : at[i] \in K
         /\ \A i, j \in DOMAIN at : i < j => at[i] < at[j]
         /\ \A k \in K : \E i \in DOMAIN at : at[i] = k
<1> DEFINE n == Cardinality(K)
<1>1. n \in Nat /\ n = Transcripts!Cardinality(K)
  BY FS_CardinalityType, SameCardinality
<1>2. at \in [1 .. n -> K] /\ \A i, j \in DOMAIN at : i < j => at[i] < at[j]
  BY <1>1 DEF Transcripts!Ascending
<1>3. ASSUME NEW i \in 1 .. n, NEW j \in 1 .. n, at[i] = at[j] PROVE i = j
  <2>1. at[i] \in Nat /\ at[j] \in Nat /\ DOMAIN at = 1 .. n
    BY <1>2
  <2>2. (i < j => at[i] < at[j]) /\ (j < i => at[j] < at[i])
    BY <1>2, <2>1
  <2>3. ~(i < j) /\ ~(j < i)
    BY <1>3, <2>1, <2>2
  <2> HIDE DEF n
  <2> QED
    BY <1>1, <2>3
<1>4. at \in Injection(1 .. n, K)
  BY <1>2, <1>3 DEF Injection, IsInjective
<1>5. Cardinality(1 .. n) = Cardinality(K)
  BY <1>1, FS_Interval
<1>6. at \in Surjection(1 .. n, K)
  BY <1>4, <1>5, FS_Injection
<1>7. \A k \in K : \E i \in 1 .. n : at[i] = k
  BY <1>6 DEF Surjection
<1> HIDE DEF n
<1> QED
  BY <1>1, <1>2, <1>7

\* A branch is a chain of the entries it is taken from.
LEMMA BranchIs ==
  ASSUME NEW S \in SUBSET Transcripts!EntryId, NEW e, NEW b \in Transcripts!BranchesTo(S, e)
  PROVE  /\ b \in Seq(S) /\ Len(b) \in Nat /\ DOMAIN b = 1 .. Len(b)
         /\ parent[b[1]] \notin S
         /\ \A i \in 2 .. Len(b) : parent[b[i]] = b[i - 1]
<1>1. PICK n \in 1 .. Transcripts!Cardinality(S) : b \in [1 .. n -> S]
  BY DEF Transcripts!BranchesTo
<1>2. n \in Nat
  OBVIOUS
<1>3. b \in Seq(S) /\ Len(b) = n
  BY <1>1, <1>2, EnumerationType
<1> QED
  BY <1>1, <1>2, <1>3 DEF Transcripts!BranchesTo

\* What a fork keeps of a branch: its entries that are no labels, in their order.
LEMMA KeptIs ==
  ASSUME NEW S \in SUBSET Transcripts!EntryId, NEW b \in Seq(S), NEW kept \in Transcripts!WithoutLabels(b)
  PROVE  /\ kept \in Seq(S) /\ kept \in Seq(Transcripts!EntryId)
         /\ \E at \in [1 .. Len(kept) -> 1 .. Len(b)] :
              /\ \A i \in 1 .. Len(kept) : kept[i] = b[at[i]] /\ target[b[at[i]]] = 0
              /\ \A i, j \in 1 .. Len(kept) : i < j => at[i] < at[j]
              /\ \A k \in 1 .. Len(b) : target[b[k]] = 0 => \E i \in 1 .. Len(kept) : at[i] = k
<1> DEFINE K == {i \in DOMAIN b : target[b[i]] = 0}
<1>1. PICK at \in Transcripts!Ascending(K) : kept = [i \in DOMAIN at |-> b[at[i]]]
  BY DEF Transcripts!WithoutLabels
<1>2. DOMAIN b = 1 .. Len(b) /\ Len(b) \in Nat
  OBVIOUS
<1>3. K \in SUBSET (1 .. Len(b)) /\ \A i \in K : target[b[i]] = 0 /\ b[i] \in S
  BY <1>2
<1>4. IsFiniteSet(K)
  <2>1. IsFiniteSet(1 .. Len(b))
    BY <1>2, FS_Interval
  <2> HIDE DEF K
  <2> QED
    BY <1>3, <2>1, FS_Subset
<1>5. \A k \in 1 .. Len(b) : target[b[k]] = 0 => k \in K
  BY <1>2
<1> HIDE DEF K
<1>6. /\ Transcripts!Cardinality(K) \in Nat
      /\ DOMAIN at = 1 .. Transcripts!Cardinality(K)
      /\ \A i \in DOMAIN at : at[i] \in K
      /\ \A i, j \in DOMAIN at : i < j => at[i] < at[j]
      /\ \A k \in K : \E i \in DOMAIN at : at[i] = k
  <2>1. K \in SUBSET Nat
    BY <1>3
  <2> QED
    BY <1>4, <2>1, AscendingIsOnto
<1> DEFINE n == Transcripts!Cardinality(K)
<1>7. kept \in [1 .. n -> S]
  BY <1>1, <1>3, <1>6
<1>8. n \in Nat
  BY <1>6
<1> HIDE DEF n
<1>9. kept \in Seq(S) /\ Len(kept) = n
  BY <1>7, <1>8, EnumerationType
<1>10. kept \in Seq(Transcripts!EntryId)
  BY <1>7, <1>8, EnumerationType
<1>11. DOMAIN at = 1 .. Len(kept)
  BY <1>6, <1>9 DEF n
<1>12. at \in [1 .. Len(kept) -> 1 .. Len(b)]
  <2>1. at \in [1 .. n -> K]
    BY <1>1 DEF Transcripts!Ascending, n
  <2> QED
    BY <2>1, <1>3, <1>9
<1> QED
  BY <1>1, <1>3, <1>5, <1>6, <1>9, <1>10, <1>11, <1>12

\* The labels that a fork makes anew, and their parents.
NewLabels(n) == [i \in 1 .. n |-> Len(parent) + i]
LabelParents(kept, n) ==
  [i \in 1 .. n |-> IF i = 1 THEN Transcripts!LastOf(kept) ELSE Len(parent) + i - 1]

LEMMA ForkAtIs ==
  ASSUME StoreInv, NEW p \in Store, NEW f \in File, Transcripts!ForkAt(p, f)
  PROVE  \E e \in Transcripts!Entries(log[f]), g \in File, n \in Nat :
         \E b \in Transcripts!BranchesTo(Transcripts!Entries(log[f]), e) :
         \E kept \in Transcripts!WithoutLabels(b) :
         \E order \in [1 .. n -> Transcripts!Entries(kept)] :
           /\ kept \in Seq(Transcripts!EntryId)
           /\ Transcripts!Fresh(g)
           /\ target' = target \o order
           /\ parent' = parent \o LabelParents(kept, n)
           /\ Transcripts!WriteAll(g, kept \o NewLabels(n))
           /\ holder' = [holder EXCEPT ![g] = p]
           /\ Transcripts!Load(p, g, g, kept \o NewLabels(n))
           /\ exposed' = IF f \in exposed THEN exposed \cup {g} ELSE exposed
<1> DEFINE S == Transcripts!Entries(log[f])
           Lab(kept) == Transcripts!Labelled(Transcripts!Entries(kept), S)
           N(kept) == Transcripts!Cardinality(Lab(kept))
<1>1. PICK e \in S, g \in File : \E b \in Transcripts!BranchesTo(S, e) : \E kept \in Transcripts!WithoutLabels(b) :
        /\ Transcripts!Fresh(g)
        /\ \E order \in [1 .. N(kept) -> Lab(kept)] : target' = target \o order
        /\ parent' = parent \o LabelParents(kept, N(kept))
        /\ Transcripts!WriteAll(g, kept \o NewLabels(N(kept)))
        /\ holder' = [holder EXCEPT ![g] = p]
        /\ Transcripts!Load(p, g, g, kept \o NewLabels(N(kept)))
        /\ exposed' = IF f \in exposed THEN exposed \cup {g} ELSE exposed
  BY DEF Transcripts!ForkAt, LabelParents, NewLabels
<1> PICK b \in Transcripts!BranchesTo(S, e) : \E kept \in Transcripts!WithoutLabels(b) :
        /\ Transcripts!Fresh(g)
        /\ \E order \in [1 .. N(kept) -> Lab(kept)] : target' = target \o order
        /\ parent' = parent \o LabelParents(kept, N(kept))
        /\ Transcripts!WriteAll(g, kept \o NewLabels(N(kept)))
        /\ holder' = [holder EXCEPT ![g] = p]
        /\ Transcripts!Load(p, g, g, kept \o NewLabels(N(kept)))
        /\ exposed' = IF f \in exposed THEN exposed \cup {g} ELSE exposed
  BY <1>1
<1>2. PICK kept \in Transcripts!WithoutLabels(b) :
        /\ Transcripts!Fresh(g)
        /\ \E order \in [1 .. N(kept) -> Lab(kept)] : target' = target \o order
        /\ parent' = parent \o LabelParents(kept, N(kept))
        /\ Transcripts!WriteAll(g, kept \o NewLabels(N(kept)))
        /\ holder' = [holder EXCEPT ![g] = p]
        /\ Transcripts!Load(p, g, g, kept \o NewLabels(N(kept)))
        /\ exposed' = IF f \in exposed THEN exposed \cup {g} ELSE exposed
  OBVIOUS
<1>3. log[f] \in Seq(Transcripts!EntryId) /\ S \in SUBSET Transcripts!EntryId
  BY EntriesFinite DEF StoreInv, Transcripts!TypeOK
<1>4. kept \in Seq(Transcripts!EntryId)
  BY <1>3, BranchIs, KeptIs
<1>5. Lab(kept) \subseteq Transcripts!Entries(kept)
  BY DEF Transcripts!Labelled
<1>6. IsFiniteSet(Lab(kept))
  BY <1>4, <1>5, EntriesFinite, FS_Subset
<1>7. N(kept) \in Nat
  BY <1>6, FS_CardinalityType, SameCardinality
<1>8. PICK order \in [1 .. N(kept) -> Lab(kept)] : target' = target \o order
  BY <1>2
<1>9. order \in [1 .. N(kept) -> Transcripts!Entries(kept)]
  BY <1>5
<1> HIDE DEF S, Lab, N
<1> QED
  BY <1>2, <1>4, <1>7, <1>8, <1>9 DEF S

LEMMA ForkAtStep ==
  ASSUME StoreInv, NEW p \in Store, NEW f \in File, Transcripts!ForkAt(p, f)
  PROVE  StoreInv'
<1> DEFINE S == Transcripts!Entries(log[f])
<1>1. PICK g \in File, n \in Nat, kept \in Seq(Transcripts!EntryId) :
      \E order \in [1 .. n -> Transcripts!Entries(kept)] :
        /\ Transcripts!Fresh(g)
        /\ target' = target \o order
        /\ parent' = parent \o LabelParents(kept, n)
        /\ Transcripts!WriteAll(g, kept \o NewLabels(n))
        /\ holder' = [holder EXCEPT ![g] = p]
        /\ Transcripts!Load(p, g, g, kept \o NewLabels(n))
        /\ exposed' = IF f \in exposed THEN exposed \cup {g} ELSE exposed
  BY ForkAtIs
<1>2. Transcripts!Opening(p) /\ persist[p] /\ UNCHANGED persist
  BY DEF Transcripts!ForkAt, Transcripts!Opening, StoreInv, LockInv
<1>3. Len(parent) \in Nat /\ parent \in Seq(Nat) /\ target \in Seq(Nat)
  BY DEF StoreInv, Transcripts!TypeOK
<1>4. \A x \in Transcripts!Entries(kept) : x \in Nat
  BY EntriesType
<1>5. Transcripts!LastOf(kept) \in Nat
  BY LastOfType
<1>6. NewLabels(n) \in Seq(Transcripts!EntryId)
  <2>1. NewLabels(n) \in [1 .. n -> Transcripts!EntryId]
    BY <1>3 DEF NewLabels, Transcripts!EntryId
  <2> QED
    BY <2>1, EnumerationType
<1>7. LabelParents(kept, n) \in Seq(Nat)
  <2>1. LabelParents(kept, n) \in [1 .. n -> Nat]
    BY <1>3, <1>5 DEF LabelParents
  <2> QED
    BY <2>1, EnumerationType
<1>8. target' \in Seq(Nat)
  <2>1. PICK order \in [1 .. n -> Transcripts!Entries(kept)] : target' = target \o order
    BY <1>1
  <2>2. order \in [1 .. n -> Nat]
    BY <1>4, <2>1
  <2>3. order \in Seq(Nat)
    BY <2>2, EnumerationType
  <2> QED
    BY <1>3, <2>1, <2>3, ConcatProperties
<1> DEFINE child == kept \o NewLabels(n)
<1>9. parent' \in Seq(Nat) /\ child \in Seq(Transcripts!EntryId)
  BY <1>1, <1>3, <1>6, <1>7, ConcatProperties
<1>10. exposed \subseteq exposed' /\ exposed' \subseteq File
  BY <1>1 DEF StoreInv, Transcripts!TypeOK
<1>11. g \in File \cup {NoFile} /\ (g = g \/ (g = NoFile /\ g \in exposed'))
  OBVIOUS
<1>12. Transcripts!WriteAll(g, child) /\ Transcripts!Load(p, g, g, child) /\ child \in Seq(Transcripts!EntryId)
  BY <1>1, <1>9
<1>13. Transcripts!Fresh(g) /\ holder' = [holder EXCEPT ![g] = p]
  BY <1>1
<1> HIDE DEF child
<1> QED
  BY <1>2, <1>8, <1>9, <1>10, <1>11, <1>12, <1>13, TakeUpCopyStep

-----------------------------------------------------------------------------
(* Closing and dying. *)

\* A store that lets go of its file may disturb only what it had locked, and
\* files that are exposed.
LEMMA LetGoStep ==
  ASSUME StoreInv, NEW p \in Store, Transcripts!Detach(p), Transcripts!TypeOK', FileInv',
         exposed \subseteq exposed',
         \A h \in File : holder[h] # p => holder'[h] = holder[h],
         \A h \in File : h \notin exposed' /\ holder[h] # p
                           => UNCHANGED <<header[h], log[h]>>
                              /\ (tail[h] = "newline" => tail'[h] = "newline")
  PROVE  StoreInv'
<1>1. \A q \in Store : q # p =>
        /\ doing'[q] = doing[q] /\ file'[q] = file[q] /\ lock'[q] = lock[q]
        /\ mem'[q] = mem[q] /\ persist'[q] = persist[q]
        /\ (Transcripts!Writing(q)' <=> Transcripts!Writing(q))
  BY DEF StoreInv, Transcripts!TypeOK, Transcripts!Detach, Transcripts!Writing
<1>2. doing'[p] = "detached" /\ lock'[p] = NoFile /\ persist'[p] /\ ~Transcripts!Writing(p)'
  BY DEF StoreInv, Transcripts!TypeOK, Transcripts!Detach, Transcripts!Writing
<1>3. LockInv'
  <2>1. ASSUME NEW q \in Store, lock'[q] # NoFile PROVE holder'[lock'[q]] = q
    <3>1. q # p /\ lock'[q] = lock[q]
      BY <1>1, <1>2, <2>1
    <3>2. lock[q] \in File /\ holder[lock[q]] = q
      BY <2>1, <3>1 DEF StoreInv, LockInv, Transcripts!TypeOK
    <3> QED
      BY <3>1, <3>2
  <2> QED
    BY <1>1, <1>2, <2>1 DEF StoreInv, LockInv
<1>4. WriterInv'
  <2> SUFFICES ASSUME NEW q \in Store, Transcripts!Writing(q)', file'[q] \notin exposed'
               PROVE  /\ lock'[q] = file'[q]
                      /\ header'[file'[q]] /\ log'[file'[q]] = mem'[q]
                      /\ doing'[q] = "ready" => tail'[file'[q]] = "newline"
    BY DEF WriterInv
  <2>1. q # p
    BY <1>2
  <2>2. Transcripts!Writing(q) /\ file[q] \in File /\ file[q] \notin exposed
    BY <1>1, <2>1 DEF StoreInv, LockInv, Transcripts!Writing
  <2>3. holder[file[q]] # p
    BY <2>1, <2>2, StoreFacts DEF StoreInv, LockInv, WriterInv
  <2> QED
    BY <1>1, <2>1, <2>2, <2>3 DEF StoreInv, WriterInv
<1> QED
  BY <1>3, <1>4 DEF StoreInv

LEMMA CloseStep ==
  ASSUME StoreInv, NEW p \in Store, Transcripts!Close(p)
  PROVE  StoreInv'
<1>1. /\ holder' = Transcripts!Released(p) /\ Transcripts!Detach(p)
      /\ UNCHANGED <<present, header, log, tail, parent, target, exposed>>
  BY DEF Transcripts!Close, Transcripts!diskVars, Transcripts!treeVars
<1>2. Transcripts!TypeOK'
  BY <1>1, DetachType, HolderType DEF StoreInv, Transcripts!TypeOK
<1>3. FileInv'
  BY <1>1 DEF StoreInv, Transcripts!TypeOK, FileInv, Transcripts!Released
<1>4. \A h \in File : holder[h] # p => holder'[h] = holder[h]
  BY <1>1, StoreFacts DEF StoreInv, Transcripts!TypeOK, LockInv, Transcripts!Released
<1> QED
  BY <1>1, <1>2, <1>3, <1>4, LetGoStep

LEMMA CrashStep ==
  ASSUME StoreInv, NEW p \in Store, Transcripts!Crash(p)
  PROVE  StoreInv'
<1>1. /\ holder' = Transcripts!Dropped(p) /\ Transcripts!Detach(p)
      /\ UNCHANGED <<present, header, log, tail, parent, target, exposed>>
  BY DEF Transcripts!Crash, Transcripts!diskVars, Transcripts!treeVars
<1>2. Transcripts!TypeOK'
  BY <1>1, DetachType, HolderType DEF StoreInv, Transcripts!TypeOK
<1>3. FileInv'
  BY <1>1 DEF StoreInv, Transcripts!TypeOK, FileInv, Transcripts!Dropped
<1>4. \A h \in File : holder[h] # p => holder'[h] = holder[h]
  BY <1>1 DEF Transcripts!Dropped
<1> QED
  BY <1>1, <1>2, <1>3, <1>4, LetGoStep

LEMMA CrashMidAppendStep ==
  ASSUME StoreInv, NEW p \in Store, Transcripts!CrashMidAppend(p)
  PROVE  StoreInv'
<1>1. /\ holder' = Transcripts!Dropped(p) /\ Transcripts!Detach(p) /\ Transcripts!AppendTorn(file[p])
      /\ UNCHANGED <<parent, target, exposed>>
  BY DEF Transcripts!CrashMidAppend, Transcripts!treeVars
<1>2. Transcripts!Writing(p) /\ file[p] \in File /\ file[p] \notin ReadOnly
  BY DEF Transcripts!CrashMidAppend, Transcripts!Writing, StoreInv, LockInv
<1>3. Transcripts!TypeOK'
  BY <1>1, <1>2, AppendTornType, DetachType, HolderType DEF StoreInv, Transcripts!TypeOK
<1>4. /\ present' = present \cup {file[p]}
      /\ \A h \in File : h # file[p]
           => header'[h] = header[h] /\ log'[h] = log[h] /\ tail'[h] = tail[h]
  BY <1>1, <1>2 DEF Transcripts!AppendTorn, Transcripts!JoinLastLine, StoreInv, Transcripts!TypeOK
<1>5. \A h \in File : holder[h] # p => holder'[h] = holder[h]
  BY <1>1 DEF Transcripts!Dropped
<1>6. FileInv'
  BY <1>1, <1>2, <1>4 DEF StoreInv, Transcripts!TypeOK, FileInv, Transcripts!Dropped
<1>7. file[p] \notin exposed => holder[file[p]] = p
  BY <1>2, OneWriter DEF StoreInv
<1> QED
  BY <1>1, <1>3, <1>4, <1>5, <1>6, <1>7, LetGoStep

LEMMA CrashMidRewriteStep ==
  ASSUME StoreInv, NEW p \in Store, Transcripts!CrashMidRewrite(p)
  PROVE  StoreInv'
<1>1. /\ holder' = Transcripts!Dropped(p) /\ Transcripts!Detach(p)
      /\ present' = present \cup {file[p]} /\ exposed' = exposed \cup {file[p]}
      /\ UNCHANGED <<parent, target>>
  BY DEF Transcripts!CrashMidRewrite, Transcripts!treeVars
<1>2. Transcripts!Writing(p) /\ file[p] \in File /\ file[p] \notin ReadOnly
  BY DEF Transcripts!CrashMidRewrite, Transcripts!Writing, StoreInv, LockInv
<1>3. PICK n \in 0 .. Len(mem[p]), t \in Transcripts!Ending, hdr \in BOOLEAN :
        /\ header' = [header EXCEPT ![file[p]] = hdr]
        /\ log' = [log EXCEPT ![file[p]] = SubSeq(mem[p], 1, n)]
        /\ tail' = [tail EXCEPT ![file[p]] = t]
  BY DEF Transcripts!CrashMidRewrite
<1>4. SubSeq(mem[p], 1, n) \in Seq(Transcripts!EntryId)
  <2>1. mem[p] \in Seq(Transcripts!EntryId) /\ n \in Nat /\ n <= Len(mem[p])
    BY DEF StoreInv, Transcripts!TypeOK
  <2> QED
    BY <2>1, SubSeqProperties
<1>5. Transcripts!TypeOK'
  BY <1>1, <1>2, <1>3, <1>4, DetachType, HolderType DEF StoreInv, Transcripts!TypeOK
<1>6. \A h \in File : h # file[p]
        => header'[h] = header[h] /\ log'[h] = log[h] /\ tail'[h] = tail[h]
  BY <1>3 DEF StoreInv, Transcripts!TypeOK
<1>7. FileInv'
  BY <1>1, <1>2, <1>6 DEF StoreInv, Transcripts!TypeOK, FileInv, Transcripts!Dropped
<1>8. \A h \in File : holder[h] # p => holder'[h] = holder[h]
  BY <1>1 DEF Transcripts!Dropped
<1> QED
  BY <1>1, <1>5, <1>6, <1>7, <1>8, LetGoStep

LEMMA CollectLeakedLockStep ==
  ASSUME StoreInv, NEW f \in File, Transcripts!CollectLeakedLock(f)
  PROVE  StoreInv'
<1>1. /\ holder[f] # NoStore /\ lock[holder[f]] # f
      /\ holder' = [holder EXCEPT ![f] = NoStore]
      /\ UNCHANGED <<present, header, log, tail, parent, target,
                     doing, file, lock, mem, leaf, persist, exposed>>
  BY DEF Transcripts!CollectLeakedLock, Transcripts!diskVars, Transcripts!treeVars, Transcripts!storeVars
<1>2. Transcripts!TypeOK'
  BY <1>1 DEF StoreInv, Transcripts!TypeOK
<1>3. LockInv'
  BY <1>1 DEF StoreInv, Transcripts!TypeOK, LockInv, Transcripts!Writing
<1>4. FileInv' /\ WriterInv'
  BY <1>1 DEF StoreInv, Transcripts!TypeOK, FileInv, WriterInv, Transcripts!Writing
<1> QED
  BY <1>2, <1>3, <1>4 DEF StoreInv

-----------------------------------------------------------------------------
(* The theorems. *)

LEMMA NextStoreInv == StoreInv /\ [Transcripts!Next]_(Transcripts!vars) => StoreInv'
<1> SUFFICES ASSUME StoreInv, [Transcripts!Next]_(Transcripts!vars) PROVE StoreInv'
  OBVIOUS
<1>1. ASSUME NEW p \in Store, Transcripts!Write(p) PROVE StoreInv'
  <2>1. CASE Transcripts!FinishLine(p) \/ Transcripts!StampInvocation(p) \/ Transcripts!ForceFlush(p)
    BY <2>1, FinishLineStep, StampInvocationStep, ForceFlushStep
  <2>2. CASE Transcripts!AppendMessage(p)
    BY <2>2, AppendEntryStep DEF Transcripts!AppendMessage, StoreInv, Transcripts!TypeOK
  <2>3. CASE Transcripts!AppendLabelChange(p)
    <3>1. PICK t \in Transcripts!Entries(mem[p]) : Transcripts!AppendEntry(p, leaf[p], t)
      BY <2>3 DEF Transcripts!AppendLabelChange
    <3>2. leaf[p] \in Nat /\ t \in Nat
      BY EntriesType DEF StoreInv, Transcripts!TypeOK
    <3> QED
      BY <3>1, <3>2, AppendEntryStep
  <2>4. CASE Transcripts!BranchWithSummary(p)
    <3>1. PICK b \in Transcripts!Entries(mem[p]) \cup {0} : Transcripts!AppendEntry(p, b, 0)
      BY <2>4 DEF Transcripts!BranchWithSummary
    <3>2. b \in Nat
      BY EntriesType DEF StoreInv, Transcripts!TypeOK
    <3> QED
      BY <3>1, <3>2, AppendEntryStep
  <2> QED
    BY <1>1, <2>1, <2>2, <2>3, <2>4 DEF Transcripts!Write
<1>2. ASSUME NEW p \in Store, Transcripts!Open(p) PROVE StoreInv'
  BY <1>2, OpenLockedStep, OpenForkStep, OpenCorruptStep, OpenMissingStep,
     OpenReadOnlyStep, OpenInMemoryStep, ForkAtStep DEF Transcripts!Open
<1>3. ASSUME NEW p \in Store, Transcripts!Die(p) PROVE StoreInv'
  BY <1>3, CrashStep, CrashMidAppendStep, CrashMidRewriteStep DEF Transcripts!Die
<1>4. CASE UNCHANGED Transcripts!vars
  BY <1>4 DEF Transcripts!vars, Transcripts!diskVars, Transcripts!treeVars, Transcripts!storeVars, StoreInv, Transcripts!TypeOK, LockInv,
              FileInv, WriterInv, Transcripts!Writing
<1> QED
  BY <1>1, <1>2, <1>3, <1>4, NewSessionStep, NewSessionInMemoryStep, BranchStep,
     BeginSwitchStep, CloseStep, CollectLeakedLockStep DEF Transcripts!Next

LEMMA AlwaysStoreInv == Transcripts!Spec => []StoreInv
<1> QED
  BY InitStoreInv, NextStoreInv, PTL DEF Transcripts!Spec

\* The variables of SessionStore keep their types, for any number of stores,
\* files and entries.
THEOREM TranscriptsTypeCorrect == Transcripts!Spec => []Transcripts!TypeOK
<1>1. StoreInv => Transcripts!TypeOK
  BY DEF StoreInv
<1> QED
  BY <1>1, AlwaysStoreInv, PTL

\* tryLockSession keeps every second writer out of a file whose flock was
\* never passed by.
THEOREM OneWriterPerFile == Transcripts!Spec => []SingleWriter
<1>1. StoreInv => SingleWriter
  BY OneWriter DEF StoreInv, SingleWriter, Transcripts!SingleWriter
<1> QED
  BY <1>1, AlwaysStoreInv, PTL

\* The writer of such a file has in memory what a reload would give.
THEOREM NothingSavedIsLost == Transcripts!Spec => []MemoryIsOnDisk
<1>1. StoreInv => MemoryIsOnDisk
  BY DEF StoreInv, WriterInv, MemoryIsOnDisk, Transcripts!MemoryIsOnDisk
<1> QED
  BY <1>1, AlwaysStoreInv, PTL

-----------------------------------------------------------------------------
(* What a step may do to the text of a file. *)

SameText(f) == UNCHANGED <<header[f], log[f], tail[f]>>
Grown(f) == f \notin ReadOnly /\ (f \in exposed' \/ Transcripts!Extends(log[f], log'[f]))

LEMMA AppendExtends ==
  ASSUME NEW s \in Seq(Transcripts!EntryId), NEW e \in Transcripts!EntryId
  PROVE  Transcripts!Extends(s, Append(s, e))
BY AppendProperties DEF Transcripts!Extends

\* A new file has no text yet.
LEMMA FreshGrows ==
  ASSUME StoreInv, NEW g \in File, Transcripts!Fresh(g), NEW es \in Seq(Transcripts!EntryId), Transcripts!WriteAll(g, es),
         NEW f \in File
  PROVE  SameText(f) \/ Grown(f)
<1>1. CASE f = g
  <2>1. log[f] = <<>> /\ f \notin ReadOnly /\ log'[f] = es
    BY <1>1 DEF StoreInv, Transcripts!TypeOK, FileInv, Transcripts!Fresh, Transcripts!WriteAll
  <2> QED
    BY <2>1 DEF Grown, Transcripts!Extends
<1>2. CASE f # g
  BY <1>2 DEF StoreInv, Transcripts!TypeOK, Transcripts!WriteAll, SameText
<1> QED
  BY <1>1, <1>2

LEMMA NewSessionGrows ==
  ASSUME StoreInv, NEW p \in Store, Transcripts!NewSession(p), NEW f \in File
  PROVE  SameText(f) \/ Grown(f)
<1>1. PICK g \in File :
        /\ Transcripts!Fresh(g)
        /\ header' = [header EXCEPT ![g] = TRUE]
        /\ log' = [log EXCEPT ![g] = <<>>]
        /\ tail' = [tail EXCEPT ![g] = "header"]
  BY DEF Transcripts!NewSession
<1>2. CASE f = g
  <2>1. log[f] = <<>> /\ f \notin ReadOnly /\ log'[f] = <<>>
    BY <1>1, <1>2 DEF StoreInv, Transcripts!TypeOK, FileInv, Transcripts!Fresh
  <2>2. <<>> \in Seq(Transcripts!EntryId)
    OBVIOUS
  <2> QED
    BY <2>1, <2>2 DEF Grown, Transcripts!Extends
<1>3. CASE f # g
  BY <1>1, <1>3 DEF StoreInv, Transcripts!TypeOK, SameText
<1> QED
  BY <1>2, <1>3

LEMMA FinishLineGrows ==
  ASSUME StoreInv, NEW p \in Store, Transcripts!FinishLine(p), NEW f \in File
  PROVE  SameText(f) \/ Grown(f)
<1>1. CASE f = file[p]
  <2>1. f \notin ReadOnly /\ log' = log /\ log[f] \in Seq(Transcripts!EntryId)
    BY <1>1 DEF Transcripts!FinishLine, StoreInv, Transcripts!TypeOK, LockInv, Transcripts!Writing
  <2> QED
    BY <2>1 DEF Grown, Transcripts!Extends
<1>2. CASE f # file[p]
  BY <1>2 DEF Transcripts!FinishLine, StoreInv, Transcripts!TypeOK, SameText
<1> QED
  BY <1>1, <1>2

LEMMA RewriteGrows ==
  ASSUME StoreInv, NEW p \in Store, doing[p] = "ready", persist[p],
         Transcripts!WriteAll(file[p], mem[p]), exposed' = exposed, NEW f \in File
  PROVE  SameText(f) \/ Grown(f)
<1>1. CASE f = file[p]
  <2>1. f \notin ReadOnly /\ log'[f] = mem[p] /\ log[f] \in Seq(Transcripts!EntryId)
    BY <1>1 DEF Transcripts!WriteAll, StoreInv, Transcripts!TypeOK, LockInv, Transcripts!Writing
  <2>2. f \in exposed \/ mem[p] = log[f]
    BY <1>1 DEF StoreInv, WriterInv, Transcripts!Writing
  <2> QED
    BY <2>1, <2>2 DEF Grown, Transcripts!Extends
<1>2. CASE f # file[p]
  BY <1>2 DEF Transcripts!WriteAll, StoreInv, Transcripts!TypeOK, SameText
<1> QED
  BY <1>1, <1>2

LEMMA AppendEntryGrows ==
  ASSUME StoreInv, NEW p \in Store, NEW b, NEW t, Transcripts!AppendEntry(p, b, t), NEW f \in File
  PROVE  SameText(f) \/ Grown(f)
<1> DEFINE e == Len(parent) + 1
<1>1. e \in Transcripts!EntryId /\ log[f] \in Seq(Transcripts!EntryId) /\ doing[p] = "ready" /\ exposed' = exposed
  BY DEF Transcripts!AppendEntry, StoreInv, Transcripts!TypeOK, Transcripts!EntryId
<1>2. CASE persist[p] /\ f = file[p]
  <2>1. f \notin ReadOnly
    BY <1>1, <1>2 DEF StoreInv, LockInv, Transcripts!Writing
  <2>2. CASE f \notin exposed
    <3>1. tail[f] = "newline"
      BY <1>1, <1>2, <2>2 DEF StoreInv, WriterInv, Transcripts!Writing
    <3>2. log' = [log EXCEPT ![f] = Append(@, e)]
      BY <1>2, <3>1 DEF Transcripts!AppendEntry, Transcripts!AppendData
    <3>3. log'[f] = Append(log[f], e)
      BY <3>2 DEF StoreInv, Transcripts!TypeOK
    <3> QED
      BY <1>1, <2>1, <3>3, AppendExtends DEF Grown
  <2> QED
    BY <1>1, <2>1, <2>2 DEF Grown
<1>3. CASE persist[p] /\ f # file[p]
  <2>1. Transcripts!AppendData(file[p], e)
    BY <1>3 DEF Transcripts!AppendEntry
  <2> QED
    BY <1>3, <2>1 DEF Transcripts!AppendData, Transcripts!JoinLastLine, StoreInv, Transcripts!TypeOK, SameText
<1>4. CASE ~persist[p]
  BY <1>4 DEF Transcripts!AppendEntry, Transcripts!diskVars, SameText
<1> QED
  BY <1>2, <1>3, <1>4

LEMMA OpenGrows ==
  ASSUME StoreInv, NEW p \in Store, Transcripts!Open(p), NEW f \in File
  PROVE  SameText(f) \/ Grown(f)
<1> PICK g \in File :
      \/ Transcripts!OpenLocked(p, g) \/ Transcripts!OpenFork(p, g) \/ Transcripts!OpenCorrupt(p, g)
      \/ Transcripts!OpenMissing(p, g) \/ Transcripts!OpenReadOnly(p, g) \/ Transcripts!OpenInMemory(p, g)
      \/ Transcripts!ForkAt(p, g)
  BY DEF Transcripts!Open
<1>1. log[f] \in Seq(Transcripts!EntryId) /\ log[g] \in Seq(Transcripts!EntryId)
  BY DEF StoreInv, Transcripts!TypeOK
<1>2. CASE Transcripts!OpenLocked(p, g)
  BY <1>1, <1>2 DEF Transcripts!OpenLocked, StoreInv, Transcripts!TypeOK, SameText, Grown, Transcripts!Extends
<1>3. CASE Transcripts!OpenFork(p, g) \/ Transcripts!OpenReadOnly(p, g)
  BY <1>1, <1>3, FreshGrows DEF Transcripts!OpenFork, Transcripts!OpenReadOnly
<1>4. CASE Transcripts!OpenCorrupt(p, g)
  <2>1. PICK s \in File :
          /\ Transcripts!Fresh(s)
          /\ header' = [header EXCEPT ![s] = TRUE, ![g] = TRUE]
          /\ log' = [log EXCEPT ![g] = <<>>]
          /\ tail' = [tail EXCEPT ![g] = "newline"]
    BY <1>4 DEF Transcripts!OpenCorrupt
  <2>2. g \in exposed' /\ g \notin ReadOnly /\ s \notin ReadOnly
    BY <1>4, <2>1 DEF Transcripts!OpenCorrupt, Transcripts!Fresh
  <2>3. CASE f # g
    <3>1. log'[f] = log[f] /\ tail'[f] = tail[f] /\ (f # s => header'[f] = header[f])
      BY <2>1, <2>3 DEF StoreInv, Transcripts!TypeOK
    <3> QED
      BY <1>1, <2>2, <3>1 DEF SameText, Grown, Transcripts!Extends
  <2> QED
    BY <2>2, <2>3 DEF Grown
<1>5. CASE Transcripts!OpenMissing(p, g)
  <2>1. PICK s \in File :
          Transcripts!Fresh(s) /\ header' = [header EXCEPT ![s] = TRUE] /\ UNCHANGED <<log, tail>>
    BY <1>5 DEF Transcripts!OpenMissing
  <2>2. log'[f] = log[f] /\ tail'[f] = tail[f] /\ (f # s => header'[f] = header[f])
    BY <2>1 DEF StoreInv, Transcripts!TypeOK
  <2>3. s \notin ReadOnly
    BY <2>1 DEF Transcripts!Fresh
  <2> QED
    BY <1>1, <2>2, <2>3 DEF SameText, Grown, Transcripts!Extends
<1>6. CASE Transcripts!OpenInMemory(p, g)
  BY <1>6 DEF Transcripts!OpenInMemory, Transcripts!diskVars, SameText
<1>7. CASE Transcripts!ForkAt(p, g)
  <2>1. PICK h \in File : Transcripts!Fresh(h) /\ \E child : Transcripts!WriteAll(h, child)
    BY <1>7 DEF Transcripts!ForkAt
  <2>2. CASE f = h
    <3>1. log[f] = <<>> /\ f \notin ReadOnly
      BY <2>1, <2>2 DEF Transcripts!Fresh, StoreInv, FileInv
    <3>2. Len(log'[f]) \in Nat
      BY <1>7, ForkAtStep DEF StoreInv, Transcripts!TypeOK
    <3> QED
      BY <3>1, <3>2 DEF Grown, Transcripts!Extends
  <2>3. CASE f # h
    BY <2>1, <2>3 DEF Transcripts!WriteAll, StoreInv, Transcripts!TypeOK, SameText
  <2> QED
    BY <2>2, <2>3
<1> QED
  BY <1>2, <1>3, <1>4, <1>5, <1>6, <1>7

LEMMA DieGrows ==
  ASSUME StoreInv, NEW p \in Store, Transcripts!Die(p), NEW f \in File
  PROVE  SameText(f) \/ Grown(f)
<1>1. log[f] \in Seq(Transcripts!EntryId)
  BY DEF StoreInv, Transcripts!TypeOK
<1>2. CASE Transcripts!Crash(p)
  BY <1>2 DEF Transcripts!Crash, Transcripts!diskVars, SameText
<1>3. CASE Transcripts!CrashMidAppend(p)
  <2>1. Transcripts!Writing(p) /\ Transcripts!AppendTorn(file[p]) /\ exposed' = exposed /\ doing[p] = "ready"
    BY <1>3 DEF Transcripts!CrashMidAppend, Transcripts!Writing
  <2>2. CASE f = file[p]
    <3>1. f \notin ReadOnly /\ (f \notin exposed => tail[f] = "newline")
      BY <2>1, <2>2 DEF StoreInv, LockInv, WriterInv
    <3> QED
      BY <1>1, <2>1, <2>2, <3>1 DEF Transcripts!AppendTorn, Grown, Transcripts!Extends
  <2>3. CASE f # file[p]
    BY <2>1, <2>3 DEF Transcripts!AppendTorn, Transcripts!JoinLastLine, StoreInv, Transcripts!TypeOK, SameText
  <2> QED
    BY <2>2, <2>3
<1>4. CASE Transcripts!CrashMidRewrite(p)
  BY <1>4 DEF Transcripts!CrashMidRewrite, StoreInv, Transcripts!TypeOK, LockInv, Transcripts!Writing, SameText, Grown
<1> QED
  BY <1>2, <1>3, <1>4 DEF Transcripts!Die

LEMMA StepGrows ==
  ASSUME StoreInv, [Transcripts!Next]_(Transcripts!vars), NEW f \in File
  PROVE  SameText(f) \/ Grown(f)
<1>1. CASE UNCHANGED <<present, header, log, tail>>
  BY <1>1 DEF SameText
<1>2. ASSUME NEW p \in Store, Transcripts!Write(p) PROVE SameText(f) \/ Grown(f)
  <2>1. CASE Transcripts!FinishLine(p)
    BY <2>1, FinishLineGrows
  <2>2. CASE Transcripts!StampInvocation(p) \/ Transcripts!ForceFlush(p)
    BY <2>2, RewriteGrows DEF Transcripts!StampInvocation, Transcripts!ForceFlush
  <2>3. CASE Transcripts!AppendMessage(p) \/ Transcripts!AppendLabelChange(p) \/ Transcripts!BranchWithSummary(p)
    BY <2>3, AppendEntryGrows DEF Transcripts!AppendMessage, Transcripts!AppendLabelChange, Transcripts!BranchWithSummary
  <2> QED
    BY <1>2, <2>1, <2>2, <2>3 DEF Transcripts!Write
<1>3. ASSUME NEW p \in Store,
             Transcripts!NewSessionInMemory(p) \/ Transcripts!Branch(p) \/ Transcripts!BeginSwitch(p) \/ Transcripts!Close(p)
      PROVE  UNCHANGED <<present, header, log, tail>>
  BY <1>3 DEF Transcripts!NewSessionInMemory, Transcripts!Branch, Transcripts!BeginSwitch, Transcripts!Close, Transcripts!diskVars
<1>4. ASSUME NEW g \in File, Transcripts!CollectLeakedLock(g)
      PROVE  UNCHANGED <<present, header, log, tail>>
  BY <1>4 DEF Transcripts!CollectLeakedLock, Transcripts!diskVars
<1>5. CASE UNCHANGED Transcripts!vars
  BY <1>1, <1>5 DEF Transcripts!vars, Transcripts!diskVars
<1> QED
  BY <1>1, <1>2, <1>3, <1>4, <1>5, NewSessionGrows, OpenGrows, DieGrows DEF Transcripts!Next

\* A transcript only grows, unless it is exposed.
THEOREM TranscriptsOnlyGrow == Transcripts!Spec => AppendOnly
<1>1. StoreInv /\ [Transcripts!Next]_(Transcripts!vars)
        => \A f \in File : f \notin exposed' => Transcripts!Extends(log[f], log'[f])
  <2> SUFFICES ASSUME StoreInv, [Transcripts!Next]_(Transcripts!vars), NEW f \in File, f \notin exposed'
               PROVE  Transcripts!Extends(log[f], log'[f])
    OBVIOUS
  <2>1. log[f] \in Seq(Transcripts!EntryId)
    BY DEF StoreInv, Transcripts!TypeOK
  <2> QED
    BY <2>1, StepGrows DEF SameText, Grown, Transcripts!Extends
<1> QED
  BY <1>1, AlwaysStoreInv, PTL DEF Transcripts!Spec, AppendOnly, Transcripts!AppendOnly

\* No step writes to a transcript of a read-only store, or takes its flock.
THEOREM ReadOnlyStaysUntouched == Transcripts!Spec => Transcripts!ReadOnlyUntouched
<1>1. StoreInv /\ StoreInv' /\ [Transcripts!Next]_(Transcripts!vars)
        => \A f \in ReadOnly :
             /\ header'[f] = header[f] /\ log'[f] = log[f] /\ tail'[f] = tail[f]
             /\ holder'[f] = NoStore
  BY StepGrows, StoreFacts DEF SameText, Grown, StoreInv, FileInv
<1> QED
  BY <1>1, AlwaysStoreInv, PTL DEF Transcripts!Spec, Transcripts!ReadOnlyUntouched

-----------------------------------------------------------------------------
(* Transcripts: parents come before children. *)

\* The entries of s have been created; each one comes after its parent, if that is no label.
KnownIn(s, P) == \A i \in DOMAIN s : s[i] \in DOMAIN P
FoundBefore(s, i, b) == \E j \in DOMAIN s : j < i /\ s[j] = b
RootedIn(s, P, T) ==
  \A i \in DOMAIN s : P[s[i]] = 0 \/ FoundBefore(s, i, P[s[i]]) \/ T[P[s[i]]] # 0

\* Parents are entries, and they and targets never change.
TreeOK(P, T) ==
  /\ P \in Seq(Nat) /\ T \in Seq(Nat) /\ Len(T) = Len(P)
  /\ \A e \in DOMAIN P : P[e] \in 0 .. Len(P)

LEMMA RootedStays ==
  ASSUME NEW P, NEW T, NEW Q, NEW U, TreeOK(P, T), Q \in Seq(Nat), U \in Seq(Nat),
         Transcripts!Extends(P, Q), Transcripts!Extends(T, U), NEW s, KnownIn(s, P)
  PROVE  /\ KnownIn(s, Q)
         /\ RootedIn(s, P, T) => RootedIn(s, Q, U)
<1>1. \A e \in DOMAIN P : /\ e \in DOMAIN Q /\ Q[e] = P[e]
                          /\ P[e] = 0 \/ (P[e] \in DOMAIN T /\ U[P[e]] = T[P[e]])
  <2>1. /\ DOMAIN P = 1 .. Len(P) /\ DOMAIN Q = 1 .. Len(Q) /\ DOMAIN T = 1 .. Len(P)
        /\ Len(P) \in Nat /\ Len(Q) \in Nat /\ Len(P) <= Len(Q)
    BY DEF TreeOK, Transcripts!Extends
  <2>2. \A e \in 1 .. Len(P) : Q[e] = P[e] /\ U[e] = T[e] /\ P[e] \in 0 .. Len(P)
    BY <2>1 DEF TreeOK, Transcripts!Extends
  <2> QED
    BY <2>1, <2>2
<1>2. KnownIn(s, Q)
  BY <1>1 DEF KnownIn
<1>3. ASSUME RootedIn(s, P, T), NEW i \in DOMAIN s
      PROVE  Q[s[i]] = 0 \/ FoundBefore(s, i, Q[s[i]]) \/ U[Q[s[i]]] # 0
  <2>1. s[i] \in DOMAIN P
    BY DEF KnownIn
  <2>2. P[s[i]] = 0 \/ FoundBefore(s, i, P[s[i]]) \/ T[P[s[i]]] # 0
    BY <1>3 DEF RootedIn
  <2>3. /\ Q[s[i]] = P[s[i]]
        /\ P[s[i]] = 0 \/ (P[s[i]] \in DOMAIN T /\ U[P[s[i]]] = T[P[s[i]]])
    BY <1>1, <2>1
  <2> QED
    BY <2>2, <2>3
<1> QED
  BY <1>2, <1>3 DEF RootedIn

LEMMA RootedPrefix ==
  ASSUME NEW P, NEW T, NEW s \in Seq(Transcripts!EntryId), KnownIn(s, P), NEW n \in 0 .. Len(s)
  PROVE  /\ SubSeq(s, 1, n) \in Seq(Transcripts!EntryId)
         /\ KnownIn(SubSeq(s, 1, n), P)
         /\ RootedIn(s, P, T) => RootedIn(SubSeq(s, 1, n), P, T)
<1> DEFINE r == SubSeq(s, 1, n)
<1>1. /\ r \in Seq(Transcripts!EntryId) /\ DOMAIN r = 1 .. n
      /\ \A i \in 1 .. n : r[i] = s[i] /\ i \in DOMAIN s
  BY SubSeqProperties
<1> HIDE DEF r
<1>2. KnownIn(r, P)
  BY <1>1 DEF KnownIn
<1>3. ASSUME RootedIn(s, P, T), NEW i \in DOMAIN r
      PROVE  P[r[i]] = 0 \/ FoundBefore(r, i, P[r[i]]) \/ T[P[r[i]]] # 0
  <2>1. CASE FoundBefore(s, i, P[s[i]])
    <3>1. PICK j \in DOMAIN s : j < i /\ s[j] = P[s[i]]
      BY <2>1 DEF FoundBefore
    <3>2. j \in DOMAIN r /\ r[j] = s[j] /\ r[i] = s[i]
      <4>1. j \in 1 .. n
        BY <1>1, <1>3, <3>1
      <4> QED
        BY <1>1, <1>3, <4>1
    <3> QED
      BY <3>1, <3>2 DEF FoundBefore
  <2> QED
    BY <1>1, <1>3, <2>1 DEF RootedIn
<1> QED
  BY <1>1, <1>2, <1>3 DEF RootedIn, r

LEMMA RootedAppend ==
  ASSUME NEW P, NEW T, NEW s \in Seq(Transcripts!EntryId), KnownIn(s, P),
         NEW e \in Transcripts!EntryId, e \in DOMAIN P,
         P[e] \in Transcripts!Entries(s) \cup {0}
  PROVE  /\ Append(s, e) \in Seq(Transcripts!EntryId)
         /\ KnownIn(Append(s, e), P)
         /\ RootedIn(s, P, T) => RootedIn(Append(s, e), P, T)
<1> DEFINE r == Append(s, e)
<1>1. /\ r \in Seq(Transcripts!EntryId) /\ DOMAIN r = 1 .. Len(s) + 1 /\ DOMAIN s = 1 .. Len(s)
      /\ \A i \in 1 .. Len(s) : r[i] = s[i]
      /\ r[Len(s) + 1] = e /\ Len(s) \in Nat
  BY AppendProperties
<1> HIDE DEF r
<1>2. \A i \in DOMAIN r : i = Len(s) + 1 \/ (i \in DOMAIN s /\ r[i] = s[i])
  BY <1>1
<1>3. KnownIn(r, P)
  BY <1>1, <1>2 DEF KnownIn
<1>4. ASSUME RootedIn(s, P, T), NEW i \in DOMAIN r
      PROVE  P[r[i]] = 0 \/ FoundBefore(r, i, P[r[i]]) \/ T[P[r[i]]] # 0
  <2>1. CASE i = Len(s) + 1
    <3>1. r[i] = e
      BY <1>1, <2>1
    <3>2. CASE P[e] \in Transcripts!Entries(s)
      <4>1. PICK j \in DOMAIN s : s[j] = P[e]
        BY <3>2 DEF Transcripts!Entries
      <4>2. j \in DOMAIN r /\ j < i /\ r[j] = s[j]
        BY <1>1, <2>1, <4>1
      <4> QED
        BY <3>1, <4>1, <4>2 DEF FoundBefore
    <3> QED
      BY <3>1, <3>2
  <2>2. CASE i \in DOMAIN s /\ r[i] = s[i]
    <3>1. CASE FoundBefore(s, i, P[s[i]])
      <4>1. PICK j \in DOMAIN s : j < i /\ s[j] = P[s[i]]
        BY <3>1 DEF FoundBefore
      <4>2. j \in DOMAIN r /\ r[j] = s[j]
        BY <1>1
      <4> QED
        BY <2>2, <4>1, <4>2 DEF FoundBefore
    <3> QED
      BY <1>4, <2>2, <3>1 DEF RootedIn
  <2> QED
    BY <1>2, <2>1, <2>2
<1> QED
  BY <1>1, <1>3, <1>4 DEF RootedIn, r

\* What a fork keeps is rooted: a kept entry's parent on the branch is the entry
\* before it, kept too or a label; the branch starts where the parent is none, or a
\* label that the transcript forked from has not got.
LEMMA KeptRooted ==
  ASSUME NEW s \in Seq(Transcripts!EntryId), KnownIn(s, parent), NEW e,
         NEW b \in Transcripts!BranchesTo(Transcripts!Entries(s), e),
         NEW kept \in Transcripts!WithoutLabels(b)
  PROVE  /\ kept \in Seq(Transcripts!EntryId)
         /\ KnownIn(kept, parent)
         /\ RootedIn(s, parent, target) => RootedIn(kept, parent, target)
<1> DEFINE S == Transcripts!Entries(s)
<1>1. S \in SUBSET Transcripts!EntryId /\ \A x \in S : \E k \in DOMAIN s : s[k] = x
  BY EntriesFinite DEF Transcripts!Entries
<1>2. \A k \in DOMAIN s : s[k] \in S
  BY DEF Transcripts!Entries
<1> HIDE DEF S
<1>3. b \in Transcripts!BranchesTo(S, e) /\ S \in SUBSET Transcripts!EntryId
  BY <1>1 DEF S
<1>4. /\ b \in Seq(S) /\ Len(b) \in Nat /\ DOMAIN b = 1 .. Len(b)
      /\ parent[b[1]] \notin S
      /\ \A i \in 2 .. Len(b) : parent[b[i]] = b[i - 1]
  BY ONLY <1>3, BranchIs
<1>5. kept \in Seq(S) /\ kept \in Seq(Transcripts!EntryId)
  BY <1>1, <1>4, KeptIs
<1>6. PICK at \in [1 .. Len(kept) -> 1 .. Len(b)] :
        /\ \A i \in 1 .. Len(kept) : kept[i] = b[at[i]] /\ target[b[at[i]]] = 0
        /\ \A i, j \in 1 .. Len(kept) : i < j => at[i] < at[j]
        /\ \A k \in 1 .. Len(b) : target[b[k]] = 0 => \E i \in 1 .. Len(kept) : at[i] = k
  BY <1>1, <1>4, KeptIs
<1>7. DOMAIN kept = 1 .. Len(kept) /\ \A i \in DOMAIN kept : kept[i] \in S
  BY <1>5
<1>8. KnownIn(kept, parent)
  BY <1>1, <1>7 DEF KnownIn
<1>9. ASSUME RootedIn(s, parent, target), NEW i \in DOMAIN kept
      PROVE  \/ parent[kept[i]] = 0
             \/ FoundBefore(kept, i, parent[kept[i]])
             \/ target[parent[kept[i]]] # 0
  <2>1. at[i] \in 1 .. Len(b) /\ kept[i] = b[at[i]] /\ kept[i] \in S
    BY <1>6, <1>7
  <2>2. CASE at[i] = 1
    <3>1. parent[kept[i]] \notin S
      BY <1>4, <2>1, <2>2
    <3>2. PICK k \in DOMAIN s : s[k] = kept[i]
      BY <1>1, <2>1
    <3>3. parent[s[k]] = 0 \/ FoundBefore(s, k, parent[s[k]]) \/ target[parent[s[k]]] # 0
      BY <1>9 DEF RootedIn
    <3>4. ~FoundBefore(s, k, parent[s[k]])
      BY <1>2, <3>1, <3>2 DEF FoundBefore
    <3> QED
      BY <3>2, <3>3, <3>4
  <2>3. CASE at[i] # 1
    <3>1. at[i] \in 2 .. Len(b) /\ at[i] - 1 \in 1 .. Len(b)
      BY <1>4, <2>1, <2>3
    <3>2. parent[kept[i]] = b[at[i] - 1]
      BY <1>4, <2>1, <3>1
    <3>3. CASE target[b[at[i] - 1]] = 0
      <4>1. PICK j \in 1 .. Len(kept) : at[j] = at[i] - 1
        BY <1>6, <3>1, <3>3
      <4>2. at[j] < at[i] /\ at[i] \in Nat
        BY <1>4, <2>1, <4>1
      <4>3. j < i
        <5>1. i \in Nat /\ j \in Nat /\ i \in 1 .. Len(kept)
          BY <1>7
        <5>2. (i < j => at[i] < at[j]) /\ (i = j => at[i] = at[j])
          BY <1>6, <5>1
        <5>3. ~(at[i] < at[j]) /\ at[i] # at[j]
          BY <4>1, <4>2
        <5> QED
          BY <5>1, <5>2, <5>3
      <4>4. kept[j] = b[at[i] - 1] /\ j \in DOMAIN kept
        BY <1>6, <1>7, <4>1
      <4> QED
        BY <3>2, <4>3, <4>4 DEF FoundBefore
    <3> QED
      BY <3>2, <3>3
  <2> QED
    BY <2>2, <2>3
<1> QED
  BY <1>5, <1>8, <1>9 DEF RootedIn

\* The labels of a fork go below its last entry, each under the one before it.
LEMMA ForkRooted ==
  ASSUME TreeOK(parent, target), NEW kept \in Seq(Transcripts!EntryId), KnownIn(kept, parent),
         NEW n \in Nat, NEW order \in [1 .. n -> Transcripts!Entries(kept)],
         NEW Q, NEW U, NEW child,
         Q = parent \o LabelParents(kept, n), U = target \o order, child = kept \o NewLabels(n)
  PROVE  /\ TreeOK(Q, U) /\ Transcripts!Extends(parent, Q) /\ Transcripts!Extends(target, U)
         /\ child \in Seq(Transcripts!EntryId)
         /\ KnownIn(child, Q)
         /\ RootedIn(kept, parent, target) => RootedIn(child, Q, U)
<1> DEFINE m == Len(parent)
           c == Len(kept)
           last == Transcripts!LastOf(kept)
<1>1. /\ m \in Nat /\ parent \in Seq(Nat) /\ target \in Seq(Nat) /\ Len(target) = m
      /\ DOMAIN parent = 1 .. m /\ DOMAIN target = 1 .. m
      /\ \A e \in 1 .. m : parent[e] \in 0 .. m
  <2>1. parent \in Seq(Nat) /\ target \in Seq(Nat) /\ Len(target) = Len(parent)
    BY DEF TreeOK
  <2>2. m \in Nat /\ DOMAIN parent = 1 .. m /\ DOMAIN target = 1 .. m
    BY <2>1
  <2> QED
    BY <2>1, <2>2 DEF TreeOK
<1>2. c \in Nat /\ DOMAIN kept = 1 .. c /\ \A i \in 1 .. c : kept[i] \in 1 .. m
  BY <1>1 DEF KnownIn
<1>3. (c = 0 /\ last = 0) \/ (c \in 1 .. c /\ last = kept[c])
  BY <1>2 DEF Transcripts!LastOf
<1>4. last \in 0 .. m
  BY <1>1, <1>2, <1>3
<1>5. LabelParents(kept, n) \in Seq(Nat) /\ Len(LabelParents(kept, n)) = n
  <2>1. LabelParents(kept, n) \in [1 .. n -> Nat]
    BY <1>1, <1>4 DEF LabelParents
  <2> QED
    BY <2>1, EnumerationType
<1>6. \A i \in 1 .. n : /\ LabelParents(kept, n)[i] = IF i = 1 THEN last ELSE m + i - 1
                        /\ NewLabels(n)[i] = m + i
  BY DEF LabelParents, NewLabels
<1>7. NewLabels(n) \in Seq(Transcripts!EntryId) /\ Len(NewLabels(n)) = n
  <2>1. NewLabels(n) \in [1 .. n -> Transcripts!EntryId]
    BY <1>1 DEF NewLabels, Transcripts!EntryId
  <2> QED
    BY <2>1, EnumerationType
<1>8. order \in Seq(Nat) /\ Len(order) = n
  <2>1. order \in [1 .. n -> Nat]
    BY EntriesType
  <2> QED
    BY <2>1, EnumerationType
<1> HIDE DEF m, c, last
<1>9. /\ Q \in Seq(Nat) /\ Len(Q) = m + n /\ DOMAIN Q = 1 .. m + n
      /\ \A i \in 1 .. m : Q[i] = parent[i]
      /\ \A i \in 1 .. n : Q[m + i] = LabelParents(kept, n)[i]
  <2>1. Q \in Seq(Nat) /\ Len(Q) = Len(parent) + Len(LabelParents(kept, n))
    BY <1>1, <1>5, ConcatProperties
  <2>2. \A i \in 1 .. m : Q[i] = parent[i]
    BY <1>1, <1>5, ConcatProperties DEF m
  <2>3. ASSUME NEW i \in 1 .. n PROVE Q[m + i] = LabelParents(kept, n)[i]
    <3>1. m + i \in 1 .. m + n /\ m + i > m /\ m + i - m = i
      BY <1>1
    <3> QED
      BY <1>1, <1>5, <3>1, ConcatProperties DEF m
  <2> QED
    BY <1>1, <1>5, <2>1, <2>2, <2>3 DEF m
<1>10. /\ U \in Seq(Nat) /\ Len(U) = m + n
       /\ \A i \in 1 .. m : U[i] = target[i]
  <2>1. U \in Seq(Nat) /\ Len(U) = Len(target) + Len(order)
    BY <1>1, <1>8, ConcatProperties
  <2>2. \A i \in 1 .. Len(target) : U[i] = target[i]
    BY <1>1, <1>8, ConcatProperties
  <2> QED
    BY <1>1, <1>8, <2>1, <2>2
<1>11. /\ child \in Seq(Transcripts!EntryId) /\ Len(child) = c + n /\ DOMAIN child = 1 .. c + n
       /\ \A i \in 1 .. c : child[i] = kept[i]
       /\ \A i \in 1 .. n : child[c + i] = m + i
  <2>1. child \in Seq(Transcripts!EntryId) /\ Len(child) = Len(kept) + Len(NewLabels(n))
    BY <1>7, ConcatProperties
  <2>2. \A i \in 1 .. c : child[i] = kept[i]
    BY <1>2, <1>7, ConcatProperties DEF c
  <2>3. ASSUME NEW i \in 1 .. n PROVE child[c + i] = m + i
    <3>1. c + i \in 1 .. c + n /\ c + i > c /\ c + i - c = i
      BY <1>2
    <3>2. child[c + i] = NewLabels(n)[i]
      BY <1>2, <1>7, <3>1, ConcatProperties DEF c
    <3> QED
      BY <1>6, <3>2
  <2> QED
    BY <1>2, <1>7, <2>1, <2>2, <2>3 DEF c
<1>12. \A e \in 1 .. m + n : e \in 1 .. m \/ \E i \in 1 .. n : e = m + i
  <2> SUFFICES ASSUME NEW e \in 1 .. m + n, e \notin 1 .. m PROVE \E i \in 1 .. n : e = m + i
    OBVIOUS
  <2>1. e - m \in 1 .. n /\ e = m + (e - m)
    BY <1>1
  <2> QED
    BY <2>1
<1>13. TreeOK(Q, U)
  <2>1. \A e \in 1 .. m : Q[e] \in 0 .. m + n
    BY <1>1, <1>9
  <2>2. ASSUME NEW i \in 1 .. n PROVE Q[m + i] \in 0 .. m + n
    <3>1. Q[m + i] = IF i = 1 THEN last ELSE m + i - 1
      BY <1>6, <1>9
    <3>2. last \in 0 .. m + n /\ (i # 1 => m + i - 1 \in 0 .. m + n)
      BY <1>1, <1>4
    <3> QED
      BY <3>1, <3>2
  <2>3. \A e \in 1 .. m + n : Q[e] \in 0 .. m + n
    BY <1>12, <2>1, <2>2
  <2> QED
    BY <1>9, <1>10, <2>3 DEF TreeOK
<1>14. Transcripts!Extends(parent, Q) /\ Transcripts!Extends(target, U)
  BY <1>1, <1>9, <1>10 DEF Transcripts!Extends, m
<1>15. \A k \in 1 .. c + n : k \in 1 .. c \/ \E i \in 1 .. n : k = c + i
  <2> SUFFICES ASSUME NEW k \in 1 .. c + n, k \notin 1 .. c PROVE \E i \in 1 .. n : k = c + i
    OBVIOUS
  <2>1. k - c \in 1 .. n /\ k = c + (k - c)
    BY <1>2
  <2> QED
    BY <2>1
<1>16. KnownIn(child, Q)
  <2>1. \A k \in 1 .. c : child[k] \in 1 .. m + n
    BY <1>1, <1>2, <1>11
  <2>2. ASSUME NEW i \in 1 .. n PROVE child[c + i] \in 1 .. m + n
    <3>1. child[c + i] = m + i
      BY <1>11
    <3>2. m + i \in 1 .. m + n
      BY <1>1
    <3> QED
      BY <3>1, <3>2
  <2>3. \A k \in 1 .. c + n : child[k] \in 1 .. m + n
    BY <1>15, <2>1, <2>2
  <2> QED
    BY <1>9, <1>11, <2>3 DEF KnownIn
<1>17. ASSUME RootedIn(kept, parent, target), NEW k \in DOMAIN child
       PROVE  Q[child[k]] = 0 \/ FoundBefore(child, k, Q[child[k]]) \/ U[Q[child[k]]] # 0
  <2>1. RootedIn(kept, Q, U)
    BY <1>9, <1>10, <1>14, <1>17, RootedStays
  <2>2. CASE k \in 1 .. c
    <3>1. child[k] = kept[k] /\ k \in DOMAIN kept
      BY <1>2, <1>11, <2>2
    <3>2. CASE FoundBefore(kept, k, Q[kept[k]])
      <4>1. PICK j \in DOMAIN kept : j < k /\ kept[j] = Q[kept[k]]
        BY <3>2 DEF FoundBefore
      <4>2. j \in DOMAIN child /\ child[j] = kept[j]
        BY <1>2, <1>11
      <4> QED
        BY <3>1, <4>1, <4>2 DEF FoundBefore
    <3> QED
      BY <2>1, <3>1, <3>2 DEF RootedIn
  <2>3. ASSUME NEW i \in 1 .. n, k = c + i
        PROVE  Q[child[k]] = 0 \/ FoundBefore(child, k, Q[child[k]])
    <3>1. child[k] = m + i /\ Q[m + i] = IF i = 1 THEN last ELSE m + i - 1
      BY <1>6, <1>9, <1>11, <2>3
    <3>2. CASE i = 1
      <4>1. CASE c \in 1 .. c /\ last = kept[c]
        <5>1. c \in DOMAIN child /\ child[c] = last /\ c < k
          BY <1>2, <1>11, <2>3, <4>1
        <5> QED
          BY <3>1, <3>2, <5>1 DEF FoundBefore
      <4> QED
        BY <1>3, <3>1, <3>2, <4>1
    <3>3. CASE i # 1
      <4>1. i - 1 \in 1 .. n /\ c + (i - 1) \in 1 .. c + n /\ c + (i - 1) < k
        BY <1>2, <2>3, <3>3
      <4>2. child[c + (i - 1)] = m + (i - 1)
        BY <1>11, <4>1
      <4>3. m + (i - 1) = m + i - 1
        BY <1>1
      <4> QED
        BY <1>11, <3>1, <3>3, <4>1, <4>2, <4>3 DEF FoundBefore
    <3> QED
      BY <3>2, <3>3
  <2> QED
    BY <1>11, <1>15, <2>2, <2>3
<1> QED
  BY <1>11, <1>13, <1>14, <1>16, <1>17 DEF RootedIn

\* Files and memories hold entries that exist; in a file that is not exposed, each
\* comes after its parent.
TreeInv ==
  /\ TreeOK(parent, target)
  /\ exposed \cap ReadOnly = {}
  /\ \A f \in File : /\ KnownIn(log[f], parent)
                     /\ f \notin exposed => RootedIn(log[f], parent, target)
  /\ \A q \in Store : /\ KnownIn(mem[q], parent)
                      /\ leaf[q] \in Transcripts!Entries(mem[q]) \cup {0}

LEMMA InitTreeInv == Transcripts!Init => TreeInv
<1> SUFFICES ASSUME Transcripts!Init PROVE TreeInv
  OBVIOUS
<1>1. parent = <<>> \/ parent = <<0>>
  BY DEF Transcripts!Init
<1>2. target = parent /\ exposed = {} /\ (ReadOnly # {} => parent = <<0>>)
  BY DEF Transcripts!Init
<1>3. TreeOK(parent, target)
  <2>1. parent \in Seq(Nat) /\ Len(parent) \in Nat /\ \A e \in DOMAIN parent : parent[e] = 0
    <3>1. CASE parent = <<>>
      BY <3>1
    <3>2. CASE parent = <<0>>
      BY <3>2
    <3> QED
      BY <1>1, <3>1, <3>2
  <2> QED
    BY <1>2, <2>1 DEF TreeOK
<1>4. ASSUME NEW f \in File
      PROVE  KnownIn(log[f], parent) /\ RootedIn(log[f], parent, target)
  <2>1. CASE f \in ReadOnly
    <3>1. log[f] = <<1>> /\ parent = <<0>>
      BY <1>2, <2>1 DEF Transcripts!Init
    <3>2. DOMAIN log[f] = {1} /\ log[f][1] = 1 /\ DOMAIN parent = {1} /\ parent[1] = 0
      BY <3>1
    <3> QED
      BY <3>2 DEF KnownIn, RootedIn
  <2>2. CASE f \notin ReadOnly
    BY <2>2 DEF Transcripts!Init, KnownIn, RootedIn
  <2> QED
    BY <2>1, <2>2
<1>5. ASSUME NEW q \in Store
      PROVE  KnownIn(mem[q], parent) /\ leaf[q] \in Transcripts!Entries(mem[q]) \cup {0}
  BY DEF Transcripts!Init, KnownIn
<1> QED
  BY <1>2, <1>3, <1>4, <1>5 DEF TreeInv

LEMMA EmptyIsRooted ==
  ASSUME NEW P, NEW T
  PROVE  KnownIn(<<>>, P) /\ RootedIn(<<>>, P, T)
BY DEF KnownIn, RootedIn

LEMMA LastIsEntry ==
  ASSUME NEW s \in Seq(Transcripts!EntryId)
  PROVE  Transcripts!LastOf(s) \in Transcripts!Entries(s) \cup {0}
BY DEF Transcripts!LastOf, Transcripts!Entries

\* A step that creates no entry: each text is a prefix of one there was.
LEMMA OldTextStep ==
  ASSUME StoreInv, TreeInv, UNCHANGED <<parent, target>>,
         exposed \subseteq exposed', exposed' \cap ReadOnly = {},
         \A f \in File : \/ log'[f] = log[f]
                         \/ KnownIn(log'[f], parent) /\ f \in exposed'
                         \/ KnownIn(log'[f], parent) /\ RootedIn(log'[f], parent, target),
         \A q \in Store : /\ KnownIn(mem'[q], parent)
                          /\ leaf'[q] \in Transcripts!Entries(mem'[q]) \cup {0}
  PROVE  TreeInv'
<1>1. TreeOK(parent, target)' /\ (exposed \cap ReadOnly = {})'
  BY DEF TreeInv
<1>2. ASSUME NEW f \in File
      PROVE  KnownIn(log'[f], parent) /\ (f \notin exposed' => RootedIn(log'[f], parent, target))
  BY DEF TreeInv
<1>3. parent' = parent /\ target' = target
  OBVIOUS
<1>4. \A f \in File : KnownIn(log'[f], parent') /\ (f \notin exposed' => RootedIn(log'[f], parent', target'))
  BY <1>2, <1>3
<1>5. \A q \in Store : /\ KnownIn(mem'[q], parent')
                       /\ leaf'[q] \in Transcripts!Entries(mem'[q]) \cup {0}
  BY <1>3
<1> QED
  BY <1>1, <1>4, <1>5 DEF TreeInv

\* The same, of steps that leave the memories or the text alone.
LEMMA OneMemory ==
  ASSUME StoreInv, TreeInv, NEW p \in Store, NEW s \in Seq(Transcripts!EntryId), KnownIn(s, parent),
         mem' = [mem EXCEPT ![p] = s], NEW b \in Transcripts!Entries(s) \cup {0},
         leaf' = [leaf EXCEPT ![p] = b]
  PROVE  \A q \in Store : /\ KnownIn(mem'[q], parent)
                          /\ leaf'[q] \in Transcripts!Entries(mem'[q]) \cup {0}
<1> SUFFICES ASSUME NEW q \in Store
             PROVE  /\ KnownIn(mem'[q], parent)
                    /\ leaf'[q] \in Transcripts!Entries(mem'[q]) \cup {0}
  OBVIOUS
<1>1. mem \in [Store -> Seq(Transcripts!EntryId)] /\ leaf \in [Store -> Nat]
  BY DEF StoreInv, Transcripts!TypeOK
<1>2. CASE q = p
  <2>1. mem'[q] = s /\ leaf'[q] = b
    BY <1>1, <1>2
  <2> QED
    BY <2>1
<1>3. CASE q # p
  <2>1. mem'[q] = mem[q] /\ leaf'[q] = leaf[q]
    BY <1>1, <1>3
  <2> QED
    BY <2>1 DEF TreeInv
<1> QED
  BY <1>2, <1>3

LEMMA SameMemories ==
  ASSUME TreeInv, UNCHANGED <<mem, leaf>>
  PROVE  \A q \in Store : /\ KnownIn(mem'[q], parent)
                          /\ leaf'[q] \in Transcripts!Entries(mem'[q]) \cup {0}
BY DEF TreeInv

LEMMA LetGoMemory ==
  ASSUME StoreInv, TreeInv, NEW p \in Store, Transcripts!Detach(p)
  PROVE  \A q \in Store : /\ KnownIn(mem'[q], parent)
                          /\ leaf'[q] \in Transcripts!Entries(mem'[q]) \cup {0}
<1>1. <<>> \in Seq(Transcripts!EntryId) /\ KnownIn(<<>>, parent) /\ 0 \in Transcripts!Entries(<<>>) \cup {0}
  BY EmptyIsRooted
<1>2. mem' = [mem EXCEPT ![p] = <<>>] /\ leaf' = [leaf EXCEPT ![p] = 0]
  BY DEF Transcripts!Detach
<1> QED
  BY <1>1, <1>2, OneMemory

LEMMA LoadMemory ==
  ASSUME StoreInv, TreeInv, NEW p \in Store, NEW f, NEW g, NEW es \in Seq(Transcripts!EntryId),
         KnownIn(es, parent), Transcripts!Load(p, f, g, es)
  PROVE  \A q \in Store : /\ KnownIn(mem'[q], parent)
                          /\ leaf'[q] \in Transcripts!Entries(mem'[q]) \cup {0}
<1>1. mem' = [mem EXCEPT ![p] = es] /\ leaf' = [leaf EXCEPT ![p] = Transcripts!LastOf(es)]
  BY DEF Transcripts!Load
<1>2. Transcripts!LastOf(es) \in Transcripts!Entries(es) \cup {0}
  BY LastIsEntry
<1> QED
  BY <1>1, <1>2, OneMemory

\* One file is given a text that is known, and rooted unless the file is exposed.
LEMMA OneText ==
  ASSUME StoreInv, NEW g \in File, NEW es, KnownIn(es, parent),
         log' = [log EXCEPT ![g] = es],
         g \in exposed' \/ RootedIn(es, parent, target)
  PROVE  \A f \in File : \/ log'[f] = log[f]
                         \/ KnownIn(log'[f], parent) /\ f \in exposed'
                         \/ KnownIn(log'[f], parent) /\ RootedIn(log'[f], parent, target)
<1>1. log \in [File -> Seq(Transcripts!EntryId)]
  BY DEF StoreInv, Transcripts!TypeOK
<1> SUFFICES ASSUME NEW f \in File
             PROVE  \/ log'[f] = log[f]
                    \/ KnownIn(log'[f], parent) /\ f \in exposed'
                    \/ KnownIn(log'[f], parent) /\ RootedIn(log'[f], parent, target)
  OBVIOUS
<1>2. CASE f = g
  <2>1. log'[f] = es
    BY <1>1, <1>2
  <2> QED
    BY <1>2, <2>1
<1>3. CASE f # g
  BY <1>1, <1>3
<1> QED
  BY <1>2, <1>3

LEMMA SameTexts ==
  ASSUME UNCHANGED log
  PROVE  \A f \in File : \/ log'[f] = log[f]
                         \/ KnownIn(log'[f], parent) /\ f \in exposed'
                         \/ KnownIn(log'[f], parent) /\ RootedIn(log'[f], parent, target)
OBVIOUS

LEMMA CutIsKnown ==
  ASSUME NEW s \in Seq(Transcripts!EntryId), NEW P, KnownIn(s, P)
  PROVE  KnownIn(SubSeq(s, 1, Len(s) - 1), P)
<1>1. CASE s = <<>>
  <2>1. SubSeq(s, 1, Len(s) - 1) = <<>>
    BY <1>1
  <2> QED
    BY <2>1, EmptyIsRooted
<1>2. CASE s # <<>>
  <2>1. Len(s) - 1 \in 0 .. Len(s)
    BY <1>2
  <2> QED
    BY <2>1, RootedPrefix
<1> QED
  BY <1>1, <1>2

LEMMA CreateTree ==
  ASSUME StoreInv, TreeInv, NEW p \in Store,
         Transcripts!NewSession(p) \/ Transcripts!NewSessionInMemory(p)
  PROVE  TreeInv'
<1>1. <<>> \in Seq(Transcripts!EntryId) /\ KnownIn(<<>>, parent) /\ RootedIn(<<>>, parent, target)
  BY EmptyIsRooted
<1>2. mem' = [mem EXCEPT ![p] = <<>>] /\ leaf' = [leaf EXCEPT ![p] = 0]
      /\ 0 \in Transcripts!Entries(<<>>) \cup {0}
  BY DEF Transcripts!NewSession, Transcripts!NewSessionInMemory
<1>3. \A q \in Store : /\ KnownIn(mem'[q], parent)
                       /\ leaf'[q] \in Transcripts!Entries(mem'[q]) \cup {0}
  BY <1>1, <1>2, OneMemory
<1>4. exposed' = exposed /\ UNCHANGED <<parent, target>> /\ exposed' \cap ReadOnly = {}
  BY DEF Transcripts!NewSession, Transcripts!NewSessionInMemory, Transcripts!treeVars, TreeInv
<1>5. \A f \in File : \/ log'[f] = log[f]
                      \/ KnownIn(log'[f], parent) /\ f \in exposed'
                      \/ KnownIn(log'[f], parent) /\ RootedIn(log'[f], parent, target)
  <2>1. CASE Transcripts!NewSession(p)
    <3>1. PICK f \in File : log' = [log EXCEPT ![f] = <<>>]
      BY <2>1 DEF Transcripts!NewSession
    <3> QED
      BY <1>1, <3>1, OneText
  <2>2. CASE Transcripts!NewSessionInMemory(p)
    BY <2>2, SameTexts DEF Transcripts!NewSessionInMemory, Transcripts!diskVars
  <2> QED
    BY <2>1, <2>2
<1> QED
  BY <1>3, <1>4, <1>5, OldTextStep

\* rewriteFile writes what is there already, unless the file is exposed.
LEMMA RewriteTree ==
  ASSUME StoreInv, TreeInv, NEW p \in Store,
         Transcripts!StampInvocation(p) \/ Transcripts!ForceFlush(p)
  PROVE  TreeInv'
<1>1. /\ doing[p] = "ready" /\ persist[p] /\ Transcripts!WriteAll(file[p], mem[p])
      /\ exposed' = exposed /\ UNCHANGED <<parent, target>> /\ UNCHANGED <<mem, leaf>>
  BY DEF Transcripts!StampInvocation, Transcripts!ForceFlush, Transcripts!treeVars, Transcripts!storeVars
<1>2. file[p] \in File /\ log' = [log EXCEPT ![file[p]] = mem[p]] /\ KnownIn(mem[p], parent)
  BY <1>1 DEF StoreInv, LockInv, Transcripts!WriteAll, TreeInv
<1>3. file[p] \in exposed' \/ RootedIn(mem[p], parent, target)
  <2>1. file[p] \notin exposed => mem[p] = log[file[p]]
    BY <1>1 DEF StoreInv, WriterInv, Transcripts!Writing
  <2> QED
    BY <1>1, <1>2, <2>1 DEF TreeInv
<1>4. \A f \in File : \/ log'[f] = log[f]
                      \/ KnownIn(log'[f], parent) /\ f \in exposed'
                      \/ KnownIn(log'[f], parent) /\ RootedIn(log'[f], parent, target)
  BY <1>2, <1>3, OneText
<1>5. exposed' \cap ReadOnly = {}
  BY <1>1 DEF TreeInv
<1> QED
  BY <1>1, <1>4, <1>5, SameMemories, OldTextStep

\* Steps that touch neither text nor memory, but for the leaf.
LEMMA IdleTree ==
  ASSUME StoreInv, TreeInv, UNCHANGED <<parent, target>>, UNCHANGED log, UNCHANGED exposed, UNCHANGED mem,
         \/ UNCHANGED leaf
         \/ \E p \in Store : \E b \in Transcripts!Entries(mem[p]) \cup {0} : leaf' = [leaf EXCEPT ![p] = b]
  PROVE  TreeInv'
<1>1. \A f \in File : \/ log'[f] = log[f]
                      \/ KnownIn(log'[f], parent) /\ f \in exposed'
                      \/ KnownIn(log'[f], parent) /\ RootedIn(log'[f], parent, target)
  BY SameTexts
<1>2. exposed \subseteq exposed' /\ exposed' \cap ReadOnly = {}
  BY DEF TreeInv
<1>3. CASE UNCHANGED leaf
  BY <1>1, <1>2, <1>3, SameMemories, OldTextStep
<1>4. ASSUME NEW p \in Store, NEW b \in Transcripts!Entries(mem[p]) \cup {0}, leaf' = [leaf EXCEPT ![p] = b]
      PROVE  TreeInv'
  <2>1. mem[p] \in Seq(Transcripts!EntryId) /\ KnownIn(mem[p], parent) /\ mem' = [mem EXCEPT ![p] = mem[p]]
    BY DEF StoreInv, Transcripts!TypeOK, TreeInv
  <2>2. \A q \in Store : /\ KnownIn(mem'[q], parent)
                         /\ leaf'[q] \in Transcripts!Entries(mem'[q]) \cup {0}
    BY <1>4, <2>1, OneMemory
  <2> QED
    BY <1>1, <1>2, <2>2, OldTextStep
<1> QED
  BY <1>3, <1>4

\* A new entry goes below the leaf, which is an entry of the writer's memory: of the
\* file too, unless it is exposed.
LEMMA AppendEntryTree ==
  ASSUME StoreInv, TreeInv, NEW p \in Store, NEW b \in Transcripts!Entries(mem[p]) \cup {0}, NEW t \in Nat,
         Transcripts!AppendEntry(p, b, t)
  PROVE  TreeInv'
<1> DEFINE m == Len(parent)
           e == m + 1
<1>1. /\ doing[p] = "ready" /\ parent' = Append(parent, b) /\ target' = Append(target, t)
      /\ mem' = [mem EXCEPT ![p] = Append(@, e)] /\ leaf' = [leaf EXCEPT ![p] = e]
      /\ IF persist[p] THEN Transcripts!AppendData(file[p], e) ELSE log' = log
      /\ exposed' = exposed
  BY DEF Transcripts!AppendEntry, Transcripts!diskVars
<1>2. /\ TreeOK(parent, target) /\ m \in Nat /\ parent \in Seq(Nat) /\ target \in Seq(Nat) /\ Len(target) = m
      /\ mem[p] \in Seq(Transcripts!EntryId) /\ KnownIn(mem[p], parent)
      /\ mem \in [Store -> Seq(Transcripts!EntryId)] /\ leaf \in [Store -> Nat]
      /\ log \in [File -> Seq(Transcripts!EntryId)]
  BY DEF TreeInv, TreeOK, StoreInv, Transcripts!TypeOK
<1>3. b \in 0 .. m
  <2>1. DOMAIN parent = 1 .. m
    BY <1>2
  <2> QED
    BY <1>2, <2>1 DEF KnownIn, Transcripts!Entries
<1>4. /\ parent' \in Seq(Nat) /\ target' \in Seq(Nat) /\ Len(parent') = m + 1 /\ Len(target') = m + 1
      /\ e \in DOMAIN parent' /\ parent'[e] = b /\ e \in Transcripts!EntryId
  BY <1>1, <1>2, <1>3, AppendProperties DEF Transcripts!EntryId
<1>5. Transcripts!Extends(parent, parent') /\ Transcripts!Extends(target, target')
  BY <1>1, <1>2, <1>3, AppendProperties DEF Transcripts!Extends
<1>6. TreeOK(parent', target')
  <2>1. ASSUME NEW i \in DOMAIN parent' PROVE parent'[i] \in 0 .. Len(parent')
    <3>1. DOMAIN parent = 1 .. m /\ DOMAIN parent' = 1 .. m + 1
      BY <1>2, <1>4
    <3>2. CASE i = e
      <4>1. parent'[i] = b /\ b \in 0 .. Len(parent')
        BY <1>2, <1>3, <1>4, <3>2
      <4> QED
        BY <4>1
    <3>3. CASE i # e
      <4>1. i \in DOMAIN parent
        BY <1>2, <3>1, <3>3
      <4>2. parent[i] \in 0 .. m
        BY <1>2, <4>1 DEF TreeOK
      <4>3. parent'[i] = parent[i]
        BY <1>5, <3>1, <4>1 DEF Transcripts!Extends
      <4> QED
        BY <1>2, <1>4, <4>2, <4>3
    <3> QED
      BY <3>2, <3>3
  <2> QED
    BY <1>4, <2>1 DEF TreeOK
<1> HIDE DEF e
\* What was known and rooted still is.
<1>7. ASSUME NEW s, KnownIn(s, parent)
      PROVE  KnownIn(s, parent') /\ (RootedIn(s, parent, target) => RootedIn(s, parent', target'))
  BY <1>2, <1>4, <1>5, <1>7, RootedStays
<1>8. ASSUME NEW q \in Store
      PROVE  KnownIn(mem'[q], parent') /\ leaf'[q] \in Transcripts!Entries(mem'[q]) \cup {0}
  <2>1. CASE q = p
    <3>1. mem'[q] = Append(mem[p], e) /\ leaf'[q] = e
      BY <1>1, <1>2, <2>1
    <3>2. KnownIn(mem[p], parent')
      BY <1>2, <1>7
    <3>3. KnownIn(Append(mem[p], e), parent')
      BY <1>2, <1>4, <3>2, RootedAppend
    <3>4. e \in Transcripts!Entries(Append(mem[p], e))
      <4>1. Len(mem[p]) + 1 \in DOMAIN Append(mem[p], e) /\ Append(mem[p], e)[Len(mem[p]) + 1] = e
        BY <1>2, <1>4, AppendProperties
      <4> QED
        BY <4>1 DEF Transcripts!Entries
    <3> QED
      BY <3>1, <3>3, <3>4
  <2>2. CASE q # p
    <3>1. mem'[q] = mem[q] /\ leaf'[q] = leaf[q]
      BY <1>1, <1>2, <2>2
    <3> QED
      BY <1>7, <3>1 DEF TreeInv
  <2> QED
    BY <2>1, <2>2
<1>9. ASSUME NEW f \in File
      PROVE  KnownIn(log'[f], parent') /\ (f \notin exposed' => RootedIn(log'[f], parent', target'))
  <2>1. KnownIn(log[f], parent) /\ (f \notin exposed' => RootedIn(log[f], parent, target))
        /\ log[f] \in Seq(Transcripts!EntryId)
    BY <1>1, <1>2 DEF TreeInv
  <2>2. KnownIn(log[f], parent') /\ (f \notin exposed' => RootedIn(log[f], parent', target'))
    BY <1>7, <2>1
  <2>3. CASE log'[f] = log[f]
    BY <2>2, <2>3
  <2>4. CASE persist[p] /\ f = file[p] /\ tail[f] = "newline"
    <3>1. log'[f] = Append(log[f], e)
      BY <1>1, <1>2, <2>4 DEF Transcripts!AppendData
    <3>2. CASE f \notin exposed
      <4>1. log[f] = mem[p]
        BY <1>1, <2>4, <3>2 DEF StoreInv, WriterInv, Transcripts!Writing
      <4> QED
        BY <1>4, <2>1, <2>2, <3>1, <4>1, RootedAppend
    <3>3. CASE f \in exposed
      <4>1. KnownIn(Append(log[f], e), parent')
        <5>1. ASSUME NEW i \in DOMAIN Append(log[f], e)
              PROVE  Append(log[f], e)[i] \in DOMAIN parent'
          <6>1. CASE i \in DOMAIN log[f]
            <7>1. Append(log[f], e)[i] = log[f][i]
              BY <1>4, <2>1, <6>1, AppendProperties
            <7> QED
              BY <2>2, <6>1, <7>1 DEF KnownIn
          <6>2. CASE i \notin DOMAIN log[f]
            <7>1. i = Len(log[f]) + 1
              <8>1. /\ DOMAIN Append(log[f], e) = 1 .. Len(log[f]) + 1
                    /\ DOMAIN log[f] = 1 .. Len(log[f]) /\ Len(log[f]) \in Nat
                BY <1>4, <2>1, AppendProperties
              <8> QED
                BY <6>2, <8>1
            <7>2. Append(log[f], e)[i] = e
              BY <1>4, <2>1, <7>1, AppendProperties
            <7> QED
              BY <1>4, <7>2
          <6> QED
            BY <6>1, <6>2
        <5> QED
          BY <5>1 DEF KnownIn
      <4> QED
        BY <1>1, <3>1, <3>3, <4>1
    <3> QED
      BY <3>2, <3>3
  <2>5. CASE persist[p] /\ f = file[p] /\ tail[f] # "newline"
    <3>1. f \in exposed'
      BY <1>1, <2>5 DEF StoreInv, WriterInv, Transcripts!Writing
    <3>2. log'[f] = log[f] \/ log'[f] = SubSeq(log[f], 1, Len(log[f]) - 1)
      BY <1>1, <1>2, <2>5 DEF Transcripts!AppendData, Transcripts!JoinLastLine
    <3>3. KnownIn(SubSeq(log[f], 1, Len(log[f]) - 1), parent')
      BY <2>1, <2>2, CutIsKnown
    <3> QED
      BY <2>2, <3>1, <3>2, <3>3
  <2>6. CASE ~persist[p] \/ f # file[p]
    <3>1. log'[f] = log[f]
      BY <1>1, <1>2, <2>6 DEF Transcripts!AppendData, Transcripts!JoinLastLine
    <3> QED
      BY <2>3, <3>1
  <2> QED
    BY <2>4, <2>5, <2>6
<1>10. exposed' \cap ReadOnly = {}
  BY <1>1 DEF TreeInv
<1> QED
  BY <1>6, <1>8, <1>9, <1>10 DEF TreeInv

LEMMA OpenTree ==
  ASSUME StoreInv, TreeInv, NEW p \in Store, NEW f \in File,
         \/ Transcripts!OpenLocked(p, f) \/ Transcripts!OpenFork(p, f) \/ Transcripts!OpenCorrupt(p, f)
         \/ Transcripts!OpenMissing(p, f) \/ Transcripts!OpenReadOnly(p, f) \/ Transcripts!OpenInMemory(p, f)
  PROVE  TreeInv'
<1>1. /\ log[f] \in Seq(Transcripts!EntryId) /\ KnownIn(log[f], parent)
      /\ <<>> \in Seq(Transcripts!EntryId) /\ KnownIn(<<>>, parent) /\ RootedIn(<<>>, parent, target)
      /\ f \notin exposed => RootedIn(log[f], parent, target)
      /\ exposed \cap ReadOnly = {}
  BY EmptyIsRooted DEF StoreInv, Transcripts!TypeOK, TreeInv
<1>2. UNCHANGED <<parent, target>>
  BY DEF Transcripts!OpenLocked, Transcripts!OpenFork, Transcripts!OpenCorrupt, Transcripts!OpenMissing,
         Transcripts!OpenReadOnly, Transcripts!OpenInMemory, Transcripts!treeVars
<1>3. \A q \in Store : /\ KnownIn(mem'[q], parent)
                       /\ leaf'[q] \in Transcripts!Entries(mem'[q]) \cup {0}
  <2>1. \E g, h : Transcripts!Load(p, g, h, log[f]) \/ Transcripts!Load(p, g, h, <<>>)
    BY DEF Transcripts!OpenLocked, Transcripts!OpenFork, Transcripts!OpenCorrupt, Transcripts!OpenMissing,
           Transcripts!OpenReadOnly, Transcripts!OpenInMemory
  <2> QED
    BY <1>1, <2>1, LoadMemory
<1>4. exposed \subseteq exposed' /\ exposed' \cap ReadOnly = {}
  BY <1>1 DEF Transcripts!OpenLocked, Transcripts!OpenFork, Transcripts!OpenCorrupt, Transcripts!OpenMissing,
         Transcripts!OpenReadOnly, Transcripts!OpenInMemory, Transcripts!Fresh
<1>5. \A h \in File : \/ log'[h] = log[h]
                      \/ KnownIn(log'[h], parent) /\ h \in exposed'
                      \/ KnownIn(log'[h], parent) /\ RootedIn(log'[h], parent, target)
  <2>1. CASE Transcripts!OpenLocked(p, f) \/ Transcripts!OpenMissing(p, f) \/ Transcripts!OpenInMemory(p, f)
    BY <2>1, SameTexts DEF Transcripts!OpenLocked, Transcripts!OpenMissing, Transcripts!OpenInMemory,
       Transcripts!diskVars
  <2>2. CASE Transcripts!OpenFork(p, f)
    <3>1. PICK g \in File : log' = [log EXCEPT ![g] = log[f]] /\ g \in exposed'
      BY <2>2 DEF Transcripts!OpenFork, Transcripts!WriteAll
    <3> QED
      BY <1>1, <3>1, OneText
  <2>3. CASE Transcripts!OpenCorrupt(p, f)
    <3>1. log' = [log EXCEPT ![f] = <<>>]
      BY <2>3 DEF Transcripts!OpenCorrupt
    <3> QED
      BY <1>1, <3>1, OneText
  <2>4. CASE Transcripts!OpenReadOnly(p, f)
    <3>1. PICK g \in File : log' = [log EXCEPT ![g] = log[f]]
      BY <2>4 DEF Transcripts!OpenReadOnly, Transcripts!WriteAll
    <3>2. RootedIn(log[f], parent, target)
      BY <1>1, <2>4 DEF Transcripts!OpenReadOnly
    <3> QED
      BY <1>1, <3>1, <3>2, OneText
  <2> QED
    BY <2>1, <2>2, <2>3, <2>4
<1> QED
  BY <1>2, <1>3, <1>4, <1>5, OldTextStep

LEMMA ForkAtTree ==
  ASSUME StoreInv, TreeInv, NEW p \in Store, NEW f \in File, Transcripts!ForkAt(p, f)
  PROVE  TreeInv'
<1>1. PICK e \in Transcripts!Entries(log[f]), g \in File, n \in Nat :
      \E b \in Transcripts!BranchesTo(Transcripts!Entries(log[f]), e) :
      \E kept \in Transcripts!WithoutLabels(b) :
      \E order \in [1 .. n -> Transcripts!Entries(kept)] :
        /\ kept \in Seq(Transcripts!EntryId)
        /\ Transcripts!Fresh(g)
        /\ target' = target \o order
        /\ parent' = parent \o LabelParents(kept, n)
        /\ Transcripts!WriteAll(g, kept \o NewLabels(n))
        /\ holder' = [holder EXCEPT ![g] = p]
        /\ Transcripts!Load(p, g, g, kept \o NewLabels(n))
        /\ exposed' = IF f \in exposed THEN exposed \cup {g} ELSE exposed
  BY ForkAtIs
<1>2. PICK b \in Transcripts!BranchesTo(Transcripts!Entries(log[f]), e) :
      \E kept \in Transcripts!WithoutLabels(b) :
      \E order \in [1 .. n -> Transcripts!Entries(kept)] :
        /\ Transcripts!Fresh(g)
        /\ target' = target \o order
        /\ parent' = parent \o LabelParents(kept, n)
        /\ Transcripts!WriteAll(g, kept \o NewLabels(n))
        /\ Transcripts!Load(p, g, g, kept \o NewLabels(n))
        /\ exposed' = IF f \in exposed THEN exposed \cup {g} ELSE exposed
  BY <1>1
<1>3. PICK kept \in Transcripts!WithoutLabels(b) :
      \E order \in [1 .. n -> Transcripts!Entries(kept)] :
        /\ Transcripts!Fresh(g)
        /\ target' = target \o order
        /\ parent' = parent \o LabelParents(kept, n)
        /\ Transcripts!WriteAll(g, kept \o NewLabels(n))
        /\ Transcripts!Load(p, g, g, kept \o NewLabels(n))
        /\ exposed' = IF f \in exposed THEN exposed \cup {g} ELSE exposed
  BY <1>2
<1>4. PICK order \in [1 .. n -> Transcripts!Entries(kept)] : target' = target \o order
  BY <1>3
<1> DEFINE child == kept \o NewLabels(n)
<1>5. /\ Transcripts!Fresh(g) /\ parent' = parent \o LabelParents(kept, n)
      /\ Transcripts!WriteAll(g, child) /\ Transcripts!Load(p, g, g, child)
      /\ exposed' = IF f \in exposed THEN exposed \cup {g} ELSE exposed
  BY <1>3
<1>6. /\ log[f] \in Seq(Transcripts!EntryId) /\ KnownIn(log[f], parent)
      /\ f \notin exposed => RootedIn(log[f], parent, target)
      /\ TreeOK(parent, target) /\ exposed \cap ReadOnly = {}
      /\ log \in [File -> Seq(Transcripts!EntryId)]
      /\ mem \in [Store -> Seq(Transcripts!EntryId)] /\ leaf \in [Store -> Nat]
  BY DEF StoreInv, Transcripts!TypeOK, TreeInv
<1>7. /\ kept \in Seq(Transcripts!EntryId) /\ KnownIn(kept, parent)
      /\ f \notin exposed => RootedIn(kept, parent, target)
  BY <1>6, KeptRooted
<1>8. /\ TreeOK(parent', target')
      /\ Transcripts!Extends(parent, parent') /\ Transcripts!Extends(target, target')
      /\ child \in Seq(Transcripts!EntryId) /\ KnownIn(child, parent')
      /\ f \notin exposed => RootedIn(child, parent', target')
  BY <1>4, <1>5, <1>6, <1>7, ForkRooted
<1> HIDE DEF child
\* What was known and rooted still is.
<1>9. ASSUME NEW s, KnownIn(s, parent)
      PROVE  KnownIn(s, parent') /\ (RootedIn(s, parent, target) => RootedIn(s, parent', target'))
  <2>1. parent' \in Seq(Nat) /\ target' \in Seq(Nat)
    BY <1>8 DEF TreeOK
  <2> QED
    BY <1>6, <1>8, <1>9, <2>1, RootedStays
<1>10. ASSUME NEW q \in Store
       PROVE  KnownIn(mem'[q], parent') /\ leaf'[q] \in Transcripts!Entries(mem'[q]) \cup {0}
  <2>1. mem' = [mem EXCEPT ![p] = child] /\ leaf' = [leaf EXCEPT ![p] = Transcripts!LastOf(child)]
    BY <1>5 DEF Transcripts!Load
  <2>2. CASE q = p
    <3>1. mem'[q] = child /\ leaf'[q] = Transcripts!LastOf(child)
      BY <1>6, <2>1, <2>2
    <3> QED
      BY <1>8, <3>1, LastIsEntry
  <2>3. CASE q # p
    <3>1. mem'[q] = mem[q] /\ leaf'[q] = leaf[q]
      BY <1>6, <2>1, <2>3
    <3> QED
      BY <1>9, <3>1 DEF TreeInv
  <2> QED
    BY <2>2, <2>3
<1>11. ASSUME NEW h \in File
       PROVE  KnownIn(log'[h], parent') /\ (h \notin exposed' => RootedIn(log'[h], parent', target'))
  <2>1. log' = [log EXCEPT ![g] = child]
    BY <1>5 DEF Transcripts!WriteAll
  <2>2. CASE h = g
    <3>1. log'[h] = child
      BY <1>6, <2>1, <2>2
    <3> QED
      BY <1>5, <1>8, <2>2, <3>1
  <2>3. CASE h # g
    <3>1. log'[h] = log[h] /\ (h \notin exposed' => h \notin exposed)
      BY <1>5, <1>6, <2>1, <2>3
    <3> QED
      BY <1>9, <3>1 DEF TreeInv
  <2> QED
    BY <2>2, <2>3
<1>12. exposed' \cap ReadOnly = {}
  BY <1>5, <1>6 DEF Transcripts!Fresh
<1> QED
  BY <1>8, <1>10, <1>11, <1>12 DEF TreeInv

LEMMA LetGoTree ==
  ASSUME StoreInv, TreeInv, NEW p \in Store, Transcripts!Close(p) \/ Transcripts!Die(p)
  PROVE  TreeInv'
<1>1. Transcripts!Detach(p) /\ UNCHANGED <<parent, target>>
  BY DEF Transcripts!Close, Transcripts!Die, Transcripts!Crash, Transcripts!CrashMidAppend,
         Transcripts!CrashMidRewrite, Transcripts!treeVars
<1>2. \A q \in Store : /\ KnownIn(mem'[q], parent)
                       /\ leaf'[q] \in Transcripts!Entries(mem'[q]) \cup {0}
  BY <1>1, LetGoMemory
<1>3. CASE Transcripts!Close(p) \/ Transcripts!Crash(p)
  <2>1. UNCHANGED log /\ UNCHANGED exposed
    BY <1>3 DEF Transcripts!Close, Transcripts!Crash, Transcripts!diskVars
  <2>2. exposed \subseteq exposed' /\ exposed' \cap ReadOnly = {}
    BY <2>1 DEF TreeInv
  <2> QED
    BY <1>1, <1>2, <2>1, <2>2, SameTexts, OldTextStep
<1>4. CASE Transcripts!CrashMidAppend(p)
  <2>1. /\ Transcripts!AppendTorn(file[p]) /\ Transcripts!Writing(p) /\ doing[p] = "ready"
        /\ exposed' = exposed
    BY <1>4 DEF Transcripts!CrashMidAppend, Transcripts!Writing
  <2>2. file[p] \in File /\ KnownIn(log[file[p]], parent) /\ log[file[p]] \in Seq(Transcripts!EntryId)
        /\ log \in [File -> Seq(Transcripts!EntryId)]
    BY <2>1 DEF StoreInv, Transcripts!TypeOK, LockInv, TreeInv
  <2>3. exposed \subseteq exposed' /\ exposed' \cap ReadOnly = {}
    BY <2>1 DEF TreeInv
  <2>4. \A f \in File : \/ log'[f] = log[f]
                        \/ KnownIn(log'[f], parent) /\ f \in exposed'
                        \/ KnownIn(log'[f], parent) /\ RootedIn(log'[f], parent, target)
    <3>1. CASE tail[file[p]] = "newline"
      BY <2>1, <3>1, SameTexts DEF Transcripts!AppendTorn
    <3>2. CASE tail[file[p]] # "newline"
      <4>1. file[p] \in exposed'
        BY <2>1, <3>2 DEF StoreInv, WriterInv
      <4>2. \/ log' = [log EXCEPT ![file[p]] = log[file[p]]]
            \/ log' = [log EXCEPT ![file[p]] = SubSeq(log[file[p]], 1, Len(log[file[p]]) - 1)]
        BY <2>1, <2>2, <3>2 DEF Transcripts!AppendTorn, Transcripts!JoinLastLine
      <4> QED
        BY <2>2, <4>1, <4>2, CutIsKnown, OneText
    <3> QED
      BY <3>1, <3>2
  <2> QED
    BY <1>1, <1>2, <2>3, <2>4, OldTextStep
<1>5. CASE Transcripts!CrashMidRewrite(p)
  <2>1. PICK n \in 0 .. Len(mem[p]) : log' = [log EXCEPT ![file[p]] = SubSeq(mem[p], 1, n)]
    BY <1>5 DEF Transcripts!CrashMidRewrite
  <2>2. /\ Transcripts!Writing(p) /\ doing[p] = "ready"
        /\ exposed' = exposed \cup {file[p]}
    BY <1>5 DEF Transcripts!CrashMidRewrite, Transcripts!Writing
  <2>3. /\ file[p] \in File \ ReadOnly /\ mem[p] \in Seq(Transcripts!EntryId)
        /\ KnownIn(mem[p], parent) /\ exposed \cap ReadOnly = {}
    BY <2>2 DEF StoreInv, Transcripts!TypeOK, LockInv, TreeInv
  <2>4. KnownIn(SubSeq(mem[p], 1, n), parent)
    BY <2>3, RootedPrefix
  <2>5. \A f \in File : \/ log'[f] = log[f]
                        \/ KnownIn(log'[f], parent) /\ f \in exposed'
                        \/ KnownIn(log'[f], parent) /\ RootedIn(log'[f], parent, target)
    BY <2>1, <2>2, <2>3, <2>4, OneText
  <2>6. exposed \subseteq exposed' /\ exposed' \cap ReadOnly = {}
    BY <2>2, <2>3
  <2> QED
    BY <1>1, <1>2, <2>5, <2>6, OldTextStep
<1> QED
  BY <1>3, <1>4, <1>5 DEF Transcripts!Die

LEMMA NextTreeInv == StoreInv /\ TreeInv /\ [Transcripts!Next]_(Transcripts!vars) => TreeInv'
<1> SUFFICES ASSUME StoreInv, TreeInv, [Transcripts!Next]_(Transcripts!vars) PROVE TreeInv'
  OBVIOUS
<1>1. ASSUME NEW p \in Store, Transcripts!Write(p) PROVE TreeInv'
  <2>1. leaf[p] \in Nat /\ 0 \in Nat /\ \A t \in Transcripts!Entries(mem[p]) : t \in Nat
    BY EntriesType DEF StoreInv, Transcripts!TypeOK
  <2>2. leaf[p] \in Transcripts!Entries(mem[p]) \cup {0}
    BY DEF TreeInv
  <2>3. CASE Transcripts!FinishLine(p)
    BY <2>3, IdleTree DEF Transcripts!FinishLine, Transcripts!treeVars
  <2>4. CASE Transcripts!StampInvocation(p) \/ Transcripts!ForceFlush(p)
    BY <2>4, RewriteTree
  <2>5. CASE Transcripts!AppendMessage(p)
    BY <2>1, <2>2, <2>5, AppendEntryTree DEF Transcripts!AppendMessage
  <2>6. CASE Transcripts!AppendLabelChange(p)
    BY <2>1, <2>2, <2>6, AppendEntryTree DEF Transcripts!AppendLabelChange
  <2>7. CASE Transcripts!BranchWithSummary(p)
    BY <2>1, <2>7, AppendEntryTree DEF Transcripts!BranchWithSummary
  <2> QED
    BY <1>1, <2>3, <2>4, <2>5, <2>6, <2>7 DEF Transcripts!Write
<1>2. ASSUME NEW p \in Store, Transcripts!Open(p) PROVE TreeInv'
  BY <1>2, OpenTree, ForkAtTree DEF Transcripts!Open
<1>3. ASSUME NEW p \in Store, Transcripts!Branch(p) PROVE TreeInv'
  <2>1. PICK b \in Transcripts!Entries(mem[p]) \cup {0} : leaf' = [leaf EXCEPT ![p] = b]
    BY <1>3 DEF Transcripts!Branch
  <2> QED
    BY <1>3, <2>1, IdleTree DEF Transcripts!Branch, Transcripts!diskVars, Transcripts!treeVars
<1>4. ASSUME NEW p \in Store, Transcripts!BeginSwitch(p) PROVE TreeInv'
  BY <1>4, IdleTree DEF Transcripts!BeginSwitch, Transcripts!diskVars, Transcripts!treeVars
<1>5. ASSUME NEW f \in File, Transcripts!CollectLeakedLock(f) PROVE TreeInv'
  BY <1>5, IdleTree DEF Transcripts!CollectLeakedLock, Transcripts!diskVars, Transcripts!treeVars,
     Transcripts!storeVars
<1>6. CASE UNCHANGED Transcripts!vars
  BY <1>6, IdleTree DEF Transcripts!vars, Transcripts!diskVars, Transcripts!treeVars, Transcripts!storeVars
<1> QED
  BY <1>1, <1>2, <1>3, <1>4, <1>5, <1>6, CreateTree, LetGoTree DEF Transcripts!Next

\* Parents come before children in every transcript that is not exposed, so walking
\* ParentID from an entry ends at a root, or below a label that a fork dropped.
THEOREM ParentsBeforeChildren == Transcripts!Spec => []ParentsComeFirst
<1>1. StoreInv /\ TreeInv => ParentsComeFirst
  <2> SUFFICES ASSUME StoreInv, TreeInv, NEW f \in File \ exposed, NEW i \in DOMAIN log[f],
                      parent[log[f][i]] # 0, target[parent[log[f][i]]] = 0
               PROVE  parent[log[f][i]] \in Transcripts!Entries(SubSeq(log[f], 1, i - 1))
    BY DEF ParentsComeFirst, Transcripts!ParentsComeFirst
  <2>1. RootedIn(log[f], parent, target) /\ log[f] \in Seq(Transcripts!EntryId)
    BY DEF TreeInv, StoreInv, Transcripts!TypeOK
  <2>2. PICK j \in DOMAIN log[f] : j < i /\ log[f][j] = parent[log[f][i]]
    BY <2>1 DEF RootedIn, FoundBefore
  <2>3. i \in 1 .. Len(log[f]) /\ j \in 1 .. i - 1 /\ i - 1 \in 0 .. Len(log[f])
    BY <2>1, <2>2
  <2>4. j \in DOMAIN SubSeq(log[f], 1, i - 1) /\ SubSeq(log[f], 1, i - 1)[j] = log[f][j]
    BY <2>1, <2>3, SubSeqProperties
  <2> QED
    BY <2>2, <2>4 DEF Transcripts!Entries
<1> QED
  BY <1>1, InitTreeInv, NextTreeInv, AlwaysStoreInv, PTL DEF Transcripts!Spec
=============================================================================

------------------------- MODULE SessionFilesProofs -------------------------
(***************************************************************************)
(* Proofs about the files fir writes, for any number of writers, readers,  *)
(* lines, edits, deaths and failures: SessionState loses no settings, and  *)
(* LogRotation (here Log, on the variables that MCSessionFiles gives it)   *)
(* loses no line.                                                          *)
(***************************************************************************)
EXTENDS MCSessionFiles, SequenceTheorems, WellFoundedInduction, TLAPS

-----------------------------------------------------------------------------
(* The settings: what a history's last whole line is. *)

Line == Snapshot \cup {Torn}
WholeOf(s) == {i \in DOMAIN s : s[i] # Torn}
NewestOf(s) ==
  IF WholeOf(s) = {} THEN None
  ELSE s[CHOOSE i \in WholeOf(s) : \A j \in WholeOf(s) : j <= i]

LEMMA NewestIs ==
  ASSUME NEW t \in Transcript
  PROVE  Newest(t) = NewestOf(lines[t]) /\ Newest(t)' = NewestOf(lines'[t])
BY DEF Newest, NewestOf, Whole, WholeOf

\* A set of indices has a largest one.
LEMMA HasLargest ==
  ASSUME NEW n \in Nat, NEW T \in SUBSET (1 .. n), T # {}
  PROVE  \E m \in T : \A t \in T : t <= m
<1> DEFINE D == {n - t : t \in T}
<1>1. \A t \in T : n - t \in Nat
  OBVIOUS
<1>2. D \in SUBSET Nat /\ D # {}
  <2>1. D \subseteq Nat
    BY <1>1
  <2>2. PICK t \in T : TRUE
    OBVIOUS
  <2>3. n - t \in D
    BY <2>2
  <2> QED
    BY <2>1, <2>3
<1>3. PICK d \in D : \A e \in D : ~(<<e, d>> \in OpToRel(<, Nat))
  <2> HIDE DEF D
  <2> QED
    BY <1>2, NatLessThanWellFounded, WFMin
<1>4. \A e \in D : d <= e
  <2> HIDE DEF D
  <2> SUFFICES ASSUME NEW e \in D PROVE d <= e
    OBVIOUS
  <2>1. d \in Nat /\ e \in Nat
    BY <1>2
  <2>2. ~(e < d)
    BY <1>3, <2>1 DEF OpToRel
  <2> QED
    BY <2>1, <2>2
<1>5. PICK m \in T : d = n - m
  OBVIOUS
<1>6. \A t \in T : n - m <= n - t
  BY <1>4, <1>5
<1> HIDE DEF D
<1> QED
  BY <1>6

\* The newest is one of the whole lines, if there is any.
LEMMA NewestIn ==
  ASSUME NEW s \in Seq(Line)
  PROVE  /\ WholeOf(s) = {} => NewestOf(s) = None
         /\ WholeOf(s) # {} => \E i \in WholeOf(s) :
              NewestOf(s) = s[i] /\ \A j \in WholeOf(s) : j <= i
<1>1. WholeOf(s) \in SUBSET (1 .. Len(s)) /\ Len(s) \in Nat
  BY DEF WholeOf
<1>2. ASSUME WholeOf(s) # {}
      PROVE  \E i \in WholeOf(s) : NewestOf(s) = s[i] /\ \A j \in WholeOf(s) : j <= i
  <2> DEFINE i == CHOOSE i \in WholeOf(s) : \A j \in WholeOf(s) : j <= i
  <2>1. \E k \in WholeOf(s) : \A j \in WholeOf(s) : j <= k
    BY <1>1, <1>2, HasLargest
  <2>2. i \in WholeOf(s) /\ \A j \in WholeOf(s) : j <= i
    BY <2>1
  <2>3. NewestOf(s) = s[i]
    BY <1>2 DEF NewestOf
  <2> HIDE DEF i
  <2> QED
    BY <2>2, <2>3
<1> QED
  BY <1>2 DEF NewestOf

\* It is the last line, if that is whole.
LEMMA NewestIsLast ==
  ASSUME NEW s \in Seq(Line), s # <<>>, s[Len(s)] # Torn
  PROVE  NewestOf(s) = s[Len(s)]
<1>1. Len(s) \in WholeOf(s) /\ \A j \in WholeOf(s) : j <= Len(s) /\ j \in Nat
  BY DEF WholeOf
<1>2. PICK i \in WholeOf(s) : NewestOf(s) = s[i] /\ \A j \in WholeOf(s) : j <= i
  BY <1>1, NewestIn
<1>3. i = Len(s)
  BY <1>1, <1>2
<1> QED
  BY <1>2, <1>3

LEMMA NewestAppended ==
  ASSUME NEW s \in Seq(Line), NEW x \in Snapshot
  PROVE  Append(s, x) \in Seq(Line) /\ NewestOf(Append(s, x)) = x
<1>1. Append(s, x) \in Seq(Line) /\ Append(s, x) # <<>> /\ Append(s, x)[Len(Append(s, x))] = x
  BY DEF Line
<1>2. x # Torn
  BY DEF Snapshot, Torn
<1> QED
  BY <1>1, <1>2, NewestIsLast

\* A torn line changes nothing.
LEMMA NewestTorn ==
  ASSUME NEW s \in Seq(Line)
  PROVE  Append(s, Torn) \in Seq(Line) /\ NewestOf(Append(s, Torn)) = NewestOf(s)
<1> DEFINE r == Append(s, Torn)
<1>1. /\ r \in Seq(Line) /\ Len(r) = Len(s) + 1 /\ r[Len(s) + 1] = Torn
      /\ \A i \in 1 .. Len(s) : r[i] = s[i]
      /\ DOMAIN s = 1 .. Len(s) /\ DOMAIN r = 1 .. Len(s) + 1
  BY DEF Line
<1>2. WholeOf(r) = WholeOf(s) /\ \A i \in WholeOf(s) : r[i] = s[i] /\ i \in Nat
  BY <1>1 DEF WholeOf
<1> SUFFICES NewestOf(r) = NewestOf(s)
  BY <1>1
<1> HIDE DEF r
<1>3. CASE WholeOf(s) = {}
  <2>1. NewestOf(s) = None
    BY <1>3, NewestIn
  <2>2. NewestOf(r) = None
    BY <1>1, <1>2, <1>3, NewestIn
  <2> QED
    BY <2>1, <2>2
<1>4. CASE WholeOf(s) # {}
  <2>1. PICK i \in WholeOf(s) : NewestOf(s) = s[i] /\ \A j \in WholeOf(s) : j <= i
    BY <1>4, NewestIn
  <2>2. PICK k \in WholeOf(r) : NewestOf(r) = r[k] /\ \A j \in WholeOf(r) : j <= k
    BY <1>1, <1>2, <1>4, NewestIn
  <2>3. i \in Nat /\ k \in Nat /\ i <= k /\ k <= i /\ r[k] = s[k]
    BY <1>2, <2>1, <2>2
  <2>4. i = k
    BY <2>3
  <2> QED
    BY <2>1, <2>2, <2>3, <2>4
<1> QED
  BY <1>3, <1>4

\* A rewrite keeps the last line.
LEMMA NewestLinesKeep ==
  ASSUME StateAssumption, NEW s \in Seq(Line), Len(s) > MaxState
  PROVE  /\ NewestLines(s) \in Seq(Line) /\ Len(NewestLines(s)) = MaxState
         /\ NewestLines(s) # <<>> /\ NewestLines(s)[MaxState] = s[Len(s)]
         /\ \A i \in DOMAIN NewestLines(s) : \E j \in DOMAIN s : NewestLines(s)[i] = s[j]
<1>1. MaxState \in Nat \ {0}
  BY DEF StateAssumption
<1> DEFINE k == Len(s) - MaxState + 1
<1>2. k \in 1 .. Len(s) /\ Len(s) - k + 1 = MaxState /\ k + MaxState - 1 = Len(s)
  BY <1>1
<1>3. /\ NewestLines(s) \in Seq(Line) /\ Len(NewestLines(s)) = MaxState
      /\ \A i \in 1 .. MaxState : NewestLines(s)[i] = s[k + i - 1] /\ k + i - 1 \in 1 .. Len(s)
  BY <1>1, <1>2 DEF NewestLines
<1> HIDE DEF k
<1>4. MaxState \in 1 .. MaxState /\ k + MaxState - 1 = Len(s)
  BY <1>1, <1>2
<1> QED
  BY <1>1, <1>3, <1>4

-----------------------------------------------------------------------------
(* The settings: the inductive invariant. *)

SaveSteps == {"append", "compact", "rename", "bind"}
Saving(a) == pc[a] \in SaveSteps \/ (pc[a] \in Reading /\ call[a] = "save")

TypeInv ==
  /\ lines \in [Transcript -> Seq(Snapshot \cup {Torn})]
  /\ there \subseteq Transcript
  /\ old \in [Transcript -> Snapshot \cup {None}]
  /\ handle \in Transcript
  /\ current \in Transcript /\ state \in Snapshot /\ closed \in BOOLEAN
  /\ saveMu \in Goroutine \cup {None}
  /\ pc \in [Actor -> Step]
  /\ call \in [Actor -> Call \cup {None}]
  /\ file \in [Actor -> Transcript \cup {None}]
  /\ snap \in [Actor -> Snapshot \cup {None}]
  /\ kept \in [Actor -> Seq(Snapshot \cup {Torn})]
  /\ edits \in 0 .. MaxEdits /\ acked \in 0 .. MaxEdits
  /\ switches \in 0 .. MaxSwitches /\ deaths \in 0 .. MaxDeaths /\ errors \in 0 .. MaxErrors
  /\ {astray, crossed, overtaken} \subseteq BOOLEAN

\* Who is where, and what it has in hand there.
KindOf(a) ==
  /\ a \in Reader => pc[a] \in Reading \cup {"idle"}
  /\ a # Commander => pc[a] \notin {"empty", "blank", "sync", "adopt"}
  /\ pc[a] \in Reading => \/ a \in Reader /\ call[a] = "peek"
                          \/ a \in Goroutine /\ call[a] = "save"
                          \/ a = Commander /\ call[a] = "load"
  /\ pc[a] \in Reading \cup SaveSteps \cup {"lock", "adopt"} => file[a] \in Transcript
  /\ pc[a] \in {"stat", "import"} => kept[a] # <<>> /\ kept[a][1] \in Snapshot
  /\ a \in Goroutine /\ Saving(a) => snap[a] \in Snapshot
  /\ pc[a] = "rename" => kept[a] # <<>>

Loading == pc[Commander] = "adopt" \/ (pc[Commander] \in Reading /\ call[Commander] = "load")
KindInv ==
  /\ \A a \in Actor : KindOf(a)
  /\ Loading => file[Commander] = current

MuInv ==
  /\ \A a \in Goroutine : Saving(a) <=> saveMu = a
  /\ saveMu # None => ~ closed

EditInv ==
  /\ state.n <= edits
  /\ \A t \in Transcript : old[t] # None => old[t].n <= edits
  /\ \A t \in Transcript : \A i \in DOMAIN lines[t] : lines[t][i].n <= edits
  /\ \A a \in Actor : \A i \in DOMAIN kept[a] : kept[a][i].n <= edits
  /\ \A a \in Actor : snap[a] # None => snap[a].n <= edits

CleanInv ==
  (errors + deaths = 0) =>
    /\ \A t \in there : lines[t] # <<>>
    /\ \A a \in Actor : pc[a] \in {"scan", "append"} => old[file[a]] = None
    /\ \A a \in Actor : pc[a] = "drop" => lines[file[a]] # <<>>
    /\ \A a \in Actor : pc[a] \in {"stat", "import"} =>
         old[file[a]] # None \/ lines[file[a]] # <<>>

LengthInv ==
  \A t \in Transcript :
    /\ Len(lines[t]) <= MaxState + 1 + (errors + deaths)
    /\ \/ Len(lines[t]) <= MaxState + (errors + deaths)
       \/ \E a \in Goroutine : pc[a] \in {"compact", "rename"} /\ file[a] = t

\* What a saver has read is what is still there, but for an old version's settings
\* put where a write had failed; what it has written is the newest.
Hand(a) ==
  LET text == lines[file[a]] IN
  /\ pc[a] = "append" => \/ kept[a] = text
                         \/ kept[a] = <<>> /\ Len(text) = 1 /\ errors + deaths >= 1
  /\ pc[a] \in {"compact", "rename"} => text # <<>> /\ text[Len(text)] = snap[a]
  /\ pc[a] = "rename" => kept[a] = NewestLines(text) /\ Len(text) > MaxState
  /\ pc[a] = "bind" => Newest(file[a]) = snap[a]
HandInv == \A a \in Goroutine : Hand(a)

AckInv ==
  /\ ~ closed => acked <= state.n
  /\ saveMu # None => acked <= snap[saveMu].n /\ snap[saveMu].n <= state.n
  /\ Newest(handle) # None /\ Newest(handle).n >= acked

\* A save of the settings as they then are is still to come.
Waiting(a) == pc[a] \in {"name", "lock"} \/ (a = Commander /\ MidSwitch)
SavedInv ==
  ~ closed =>
    /\ saveMu # None => snap[saveMu] = state \/ \E a \in Goroutine : Waiting(a)
    /\ saveMu = None => \/ astray \/ (handle = current /\ Newest(current) = state)
                        \/ \E a \in Goroutine : Waiting(a)

ConvInv ==
  /\ \A t \in Transcript : \A i \in DOMAIN lines[t] :
          lines[t][i] = Torn \/ lines[t][i].conv = t
  /\ \A t \in Transcript : old[t] # None => old[t].conv = t
  /\ \A a \in Actor : pc[a] \in {"stat", "import"} => kept[a][1].conv = file[a]
  /\ \A a \in Actor : pc[a] = "rename" =>
       \A i \in DOMAIN kept[a] : kept[a][i] = Torn \/ kept[a][i].conv = file[a]
  /\ \A a \in Goroutine : Saving(a) => snap[a].conv = file[a]
  /\ ~ closed /\ ~ MidSwitch => state.conv = current
  /\ pc[Commander] = "adopt" /\ snap[Commander] # None => snap[Commander].conv = current


IInv ==
  /\ TypeInv /\ KindInv /\ MuInv /\ EditInv /\ CleanInv
  /\ ~ overtaken => LengthInv /\ HandInv /\ AckInv /\ SavedInv
  /\ ~ crossed => ConvInv

-----------------------------------------------------------------------------
(* The steps, each with the actors that can take it. *)

LEMMA Kinds ==
  ASSUME StateAssumption
  PROVE  /\ Goroutine = {Commander} \cup Event /\ Actor = Goroutine \cup Reader
         /\ Goroutine \cap Reader = {} /\ Commander \notin Event
         /\ None \notin Transcript /\ None \notin Goroutine /\ None \notin Snapshot
         /\ Torn \notin Snapshot
         /\ MaxState \in Nat \ {0} /\ MaxEdits \in Nat /\ MaxSwitches \in Nat
         /\ MaxDeaths \in Nat /\ MaxErrors \in Nat
BY DEF StateAssumption, Goroutine, Actor, Snapshot, Torn

LEMMA NewestTyped ==
  ASSUME TypeInv, NEW t \in Transcript
  PROVE  /\ Newest(t) \in Snapshot \cup {None}
         /\ Newest(t) # None => \E i \in DOMAIN lines[t] :
                                  lines[t][i] # Torn /\ Newest(t) = lines[t][i]
<1>1. lines[t] \in Seq(Line) /\ Newest(t) = NewestOf(lines[t])
  BY NewestIs DEF TypeInv, Line
<1>2. WholeOf(lines[t]) # {} => \E i \in WholeOf(lines[t]) : NewestOf(lines[t]) = lines[t][i]
  BY <1>1, NewestIn
<1>3. \A i \in WholeOf(lines[t]) :
        lines[t][i] \in Line /\ lines[t][i] # Torn /\ i \in DOMAIN lines[t]
  BY <1>1 DEF WholeOf
<1> QED
  BY <1>1, <1>2, <1>3, NewestIn DEF Line

LEMMA NextSteps ==
  ASSUME Next
  PROVE  \/ \E a \in Goroutine : \/ Edit(a) \/ SaveName(a) \/ SaveLock(a) \/ SaveScan(a)
                                 \/ SaveAppend(a) \/ CompactRead(a) \/ CompactRename(a)
                                 \/ SaveBind(a) \/ SaveFails(a)
         \/ \E a \in Actor : \/ MigrateRead(a) \/ MigrateStat(a) \/ MigrateImport(a)
                             \/ MigrateDrop(a)
         \/ \E e \in Event : RunEnds(e)
         \/ Switch \/ SwitchEmpty \/ Load \/ Adopt \/ Sync \/ NewSession \/ NewSessionEmpty
         \/ Close \/ Reopen
         \/ \E r \in Reader : Peek(r) \/ PeekDone(r)
         \/ Die
BY DEF Next, Save, Migrate, Command, Actor

\* What an actor has in hand at its step.
LEMMA InHand ==
  ASSUME StateAssumption, TypeInv, KindInv, NEW a \in Actor
  PROVE  /\ pc[a] \in Reading \cup SaveSteps \cup {"lock", "adopt"} => file[a] \in Transcript
         /\ pc[a] \in {"stat", "import"} => kept[a] # <<>> /\ kept[a][1] \in Snapshot
         /\ pc[a] \in SaveSteps => a \in Goroutine /\ snap[a] \in Snapshot
BY Kinds DEF KindInv, KindOf, TypeInv, Saving, SaveSteps, Reading

\* The variables of a call keep their types when it returns or writes a line.
LEMMA ReturnTyped ==
  ASSUME StateAssumption, TypeInv, NEW a \in Actor, Return(a)
  PROVE  /\ pc' \in [Actor -> Step] /\ call' \in [Actor -> Call \cup {None}]
         /\ file' \in [Actor -> Transcript \cup {None}]
         /\ snap' \in [Actor -> Snapshot \cup {None}]
         /\ kept' \in [Actor -> Seq(Snapshot \cup {Torn})]
BY DEF Return, Goto, TypeInv, Step

LEMMA AppendedTyped ==
  ASSUME TypeInv, NEW t \in Transcript, NEW x \in Line, lines' = Appended(t, x)
  PROVE  lines' \in [Transcript -> Seq(Snapshot \cup {Torn})]
BY DEF Appended, TypeInv, Line

\* The types are kept.
LEMMA TypeKeeps ==
  ASSUME StateAssumption, TypeInv, KindInv, MuInv, Next
  PROVE  TypeInv'
<1> USE DEF fileVars, localVars, sessionVars, history, counts, At, Goto
<1>1. ASSUME NEW a \in Goroutine, Edit(a) PROVE TypeInv'
  <2>1. edits + 1 \in 0 .. MaxEdits /\ state' = [state EXCEPT !.n = edits + 1]
    BY <1>1, Kinds DEF Edit, TypeInv
  <2>2. state' \in Snapshot
    BY <2>1 DEF Snapshot, TypeInv
  <2> QED
    BY <1>1, <2>1, <2>2, Kinds DEF Edit, TypeInv, Step
<1>2. ASSUME NEW a \in Goroutine, SaveName(a) PROVE TypeInv'
  <2>1. CASE closed
    BY <1>2, <2>1, Kinds, ReturnTyped DEF SaveName, TypeInv
  <2>2. CASE ~ closed
    BY <1>2, <2>2, Kinds DEF SaveName, TypeInv, Step
  <2> QED
    BY <2>1, <2>2
<1>3. ASSUME NEW a \in Goroutine, SaveLock(a) PROVE TypeInv'
  <2>1. CASE closed
    BY <1>3, <2>1, Kinds, ReturnTyped DEF SaveLock, TypeInv
  <2>2. CASE ~ closed
    <3>1. /\ saveMu' = a /\ snap' = [snap EXCEPT ![a] = state]
          /\ pc' = [pc EXCEPT ![a] = "read"] /\ call' = [call EXCEPT ![a] = "save"]
          /\ crossed' \in BOOLEAN
          /\ UNCHANGED <<fileVars, handle, sessionVars, file, kept, edits, acked, astray,
                         overtaken, counts>>
      BY <1>3, <2>2 DEF SaveLock, StartReading
    <3> QED
      BY <3>1, Kinds DEF TypeInv, Step, Reading, Call
  <2> QED
    BY <2>1, <2>2
<1>4. ASSUME NEW a \in Actor, MigrateRead(a) PROVE TypeInv'
  <2>1. CASE old[file[a]] = None
    BY <1>4, <2>1, Kinds DEF MigrateRead, TypeInv, Step, Reading
  <2>2. CASE old[file[a]] # None
    <3>1. file[a] \in Transcript /\ old[file[a]] \in Snapshot
      BY <1>4, <2>2, InHand DEF MigrateRead, TypeInv, Reading
    <3>2. <<old[file[a]]>> \in Seq(Snapshot \cup {Torn})
      BY <3>1
    <3>3. kept' = [kept EXCEPT ![a] = <<old[file[a]]>>]
      BY <1>4, <2>2 DEF MigrateRead
    <3>4. kept' \in [Actor -> Seq(Snapshot \cup {Torn})]
      BY <3>2, <3>3 DEF TypeInv
    <3> QED
      BY <1>4, <2>2, <3>4, Kinds DEF MigrateRead, TypeInv, Step, Reading
  <2> QED
    BY <2>1, <2>2
<1>5. ASSUME NEW a \in Actor, MigrateStat(a) PROVE TypeInv'
  BY <1>5, Kinds DEF MigrateStat, TypeInv, Step, Reading
<1>6. ASSUME NEW a \in Actor, MigrateImport(a) PROVE TypeInv'
  <2>1. file[a] \in Transcript /\ kept[a][1] \in Line /\ Torn \in Line
    BY <1>6, InHand DEF MigrateImport, Reading, Line
  <2>2. lines' \in [Transcript -> Seq(Snapshot \cup {Torn})]
    BY <1>6, <2>1, AppendedTyped DEF MigrateImport, TypeInv
  <2>3. errors' \in 0 .. MaxErrors /\ overtaken' \in BOOLEAN
    BY <1>6, Kinds DEF MigrateImport, WriteFails, TypeInv
  <2>4. pc' \in [Actor -> Step] /\ there' \subseteq Transcript
    BY <1>6, <2>1 DEF MigrateImport, TypeInv, Step, Reading
  <2> QED
    BY <1>6, <2>2, <2>3, <2>4 DEF MigrateImport, TypeInv
<1>7. ASSUME NEW a \in Actor, MigrateDrop(a) PROVE TypeInv'
  BY <1>7, Kinds, InHand DEF MigrateDrop, TypeInv, Step, Reading
<1>8. ASSUME NEW a \in Goroutine, SaveScan(a) PROVE TypeInv'
  BY <1>8, Kinds, InHand DEF SaveScan, TypeInv, Step, Reading, Line
<1>9. ASSUME NEW a \in Goroutine, SaveAppend(a) PROVE TypeInv'
  <2>1. file[a] \in Transcript /\ snap[a] \in Line
    BY <1>9, Kinds, InHand DEF SaveAppend, SaveSteps, Line
  <2>2. lines' \in [Transcript -> Seq(Snapshot \cup {Torn})]
    BY <1>9, <2>1, AppendedTyped DEF SaveAppend
  <2> QED
    BY <1>9, <2>1, <2>2, Kinds DEF SaveAppend, TypeInv, Step
<1>10. ASSUME NEW a \in Goroutine, CompactRead(a) PROVE TypeInv'
  <2>1. CASE Len(lines[file[a]]) <= MaxState
    BY <1>10, <2>1, Kinds DEF CompactRead, TypeInv, Step
  <2>2. CASE ~ (Len(lines[file[a]]) <= MaxState)
    <3>1. file[a] \in Transcript /\ lines[file[a]] \in Seq(Line)
      BY <1>10, Kinds, InHand DEF CompactRead, SaveSteps, TypeInv, Line
    <3>2. Len(lines[file[a]]) > MaxState
      BY <2>2, <3>1, Kinds
    <3>3. NewestLines(lines[file[a]]) \in Seq(Snapshot \cup {Torn})
      BY <3>1, <3>2, NewestLinesKeep DEF Line
    <3>4. kept' = [kept EXCEPT ![a] = NewestLines(lines[file[a]])]
      BY <1>10, <2>2 DEF CompactRead
    <3>5. kept' \in [Actor -> Seq(Snapshot \cup {Torn})]
      BY <3>3, <3>4 DEF TypeInv
    <3> QED
      BY <1>10, <2>2, <3>5, Kinds DEF CompactRead, TypeInv, Step
  <2> QED
    BY <2>1, <2>2
<1>11. ASSUME NEW a \in Goroutine, CompactRename(a) PROVE TypeInv'
  BY <1>11, Kinds, InHand DEF CompactRename, TypeInv, Step, SaveSteps, Line
<1>12. ASSUME NEW a \in Goroutine, SaveBind(a) PROVE TypeInv'
  <2>1. a \in Actor /\ file[a] \in Transcript /\ snap[a].n \in 0 .. MaxEdits
    BY <1>12, Kinds, InHand DEF SaveBind, SaveSteps, Snapshot
  <2> QED
    BY <1>12, <2>1, ReturnTyped DEF SaveBind, TypeInv
<1>13. ASSUME NEW a \in Goroutine, SaveFails(a) PROVE TypeInv'
  <2>1. a \in Actor /\ pc[a] \in SaveSteps
    BY <1>13, Kinds DEF SaveFails, SaveSteps
  <2>2. file[a] \in Transcript /\ snap[a] \in Line /\ Torn \in Line
    BY <2>1, InHand DEF Line
  <2>3. lines' \in [Transcript -> Seq(Snapshot \cup {Torn})] /\ there' \subseteq Transcript
    BY <1>13, <2>2, AppendedTyped DEF SaveFails, TypeInv
  <2>4. errors' \in 0 .. MaxErrors
    BY <1>13, Kinds DEF SaveFails, WriteFails, TypeInv
  <2> QED
    BY <1>13, <2>1, <2>3, <2>4, ReturnTyped DEF SaveFails, TypeInv
<1>14. ASSUME NEW e \in Event, RunEnds(e) PROVE TypeInv'
  BY <1>14, Kinds DEF RunEnds, TypeInv, Step
<1>15. CASE Switch
  BY <1>15, Kinds DEF Switch, TypeInv, Step
<1>16. CASE SwitchEmpty
  BY <1>16, Kinds DEF SwitchEmpty, StartReading, TypeInv, Step, Snapshot, Reading, Call
<1>17. CASE Load
  BY <1>17, Kinds, InHand, NewestTyped DEF Load, TypeInv, Step, Reading
<1>18. CASE Adopt
  <2>1. CASE snap[Commander] = None
    BY <1>18, <2>1, Kinds DEF Adopt, TypeInv, Step, Snapshot
  <2>2. CASE snap[Commander] # None
    BY <1>18, <2>2, Kinds DEF Adopt, TypeInv, Step, Snapshot
  <2> QED
    BY <1>18, <2>1, <2>2 DEF Adopt
<1>19. CASE Sync
  BY <1>19, Kinds DEF Sync, TypeInv, Step, Snapshot
<1>20. CASE NewSession
  BY <1>20, Kinds DEF NewSession, TypeInv, Step
<1>21. CASE NewSessionEmpty
  BY <1>21, Kinds DEF NewSessionEmpty, TypeInv, Step, Snapshot
<1>22. CASE Close
  BY <1>22, Kinds DEF Close, TypeInv, Step
<1>23. CASE Reopen
  BY <1>23, Kinds, NewestTyped DEF Reopen, TypeInv, Step
<1>24. ASSUME NEW r \in Reader, Peek(r) PROVE TypeInv'
  BY <1>24, Kinds DEF Peek, StartReading, TypeInv, Step, Reading, Call
<1>25. ASSUME NEW r \in Reader, PeekDone(r) PROVE TypeInv'
  BY <1>25, Kinds DEF PeekDone, Return, TypeInv, Step
<1>26. CASE Die
  <2>1. /\ pc' \in [Actor -> Step] /\ call' \in [Actor -> Call \cup {None}]
        /\ file' \in [Actor -> Transcript \cup {None}]
        /\ snap' \in [Actor -> Snapshot \cup {None}]
        /\ kept' \in [Actor -> Seq(Snapshot \cup {Torn})]
    BY <1>26 DEF Die, TypeInv, Step
  <2>2. /\ lines' \in [Transcript -> Seq(Snapshot \cup {Torn})]
        /\ there' \subseteq Transcript /\ overtaken' \in BOOLEAN
    <3>1. CASE UNCHANGED <<lines, there, overtaken>>
      BY <3>1 DEF TypeInv
    <3>2. ASSUME NEW a \in Goroutine, pc[a] \in {"append", "import"},
                 there' = there \cup {file[a]},
                 lines' = lines \/ lines' = Appended(file[a], Torn),
                 overtaken' \in BOOLEAN
          PROVE  /\ lines' \in [Transcript -> Seq(Snapshot \cup {Torn})]
                 /\ there' \subseteq Transcript /\ overtaken' \in BOOLEAN
      <4>1. file[a] \in Transcript /\ Torn \in Line
        BY <3>2, Kinds, InHand DEF SaveSteps, Reading, Line
      <4> QED
        BY <3>2, <4>1, AppendedTyped DEF TypeInv
    <3> QED
      BY <1>26, <3>1, <3>2 DEF Die, TypeInv
  <2> QED
    BY <1>26, <2>1, <2>2, Kinds DEF Die, TypeInv
<1> QED
  BY <1>1, <1>2, <1>3, <1>4, <1>5, <1>6, <1>7, <1>8, <1>9, <1>10, <1>11, <1>12, <1>13, <1>14,
     <1>15, <1>16, <1>17, <1>18, <1>19, <1>20, <1>21, <1>22, <1>23, <1>24, <1>25, <1>26,
     NextSteps

-----------------------------------------------------------------------------
(* What a step does to the variables of the calls. *)

Still(a) ==
  \A b \in Actor : b # a =>
    /\ pc'[b] = pc[b] /\ call'[b] = call[b] /\ file'[b] = file[b]
    /\ snap'[b] = snap[b] /\ kept'[b] = kept[b]

LEMMA ReturnDoes ==
  ASSUME TypeInv, NEW a \in Actor, Return(a)
  PROVE  /\ Still(a)
         /\ pc'[a] = "idle" /\ call'[a] = None /\ file'[a] = None /\ snap'[a] = None
         /\ kept'[a] = <<>>
BY DEF Return, Goto, Still, TypeInv

LEMMA OthersStill ==
  ASSUME StateAssumption, TypeInv, NEW a \in Actor,
         \/ Edit(a) \/ SaveName(a) \/ SaveLock(a) \/ SaveScan(a) \/ SaveAppend(a)
         \/ CompactRead(a) \/ CompactRename(a) \/ SaveBind(a) \/ SaveFails(a)
         \/ MigrateRead(a) \/ MigrateStat(a) \/ MigrateImport(a) \/ MigrateDrop(a)
         \/ RunEnds(a) \/ Peek(a) \/ PeekDone(a)
         \/ /\ a = Commander
            /\ \/ Switch \/ SwitchEmpty \/ Load \/ Adopt \/ Sync \/ NewSession
               \/ NewSessionEmpty \/ Close \/ Reopen
  PROVE  Still(a)
<1> USE DEF localVars, Goto, StartReading, Still, TypeInv
<1>1. CASE Edit(a)
  BY <1>1 DEF Edit
<1>2. CASE SaveName(a)
  BY <1>2, ReturnDoes DEF SaveName
<1>3. CASE SaveLock(a)
  BY <1>3, ReturnDoes DEF SaveLock
<1>4. CASE MigrateRead(a)
  BY <1>4 DEF MigrateRead
<1>5. CASE MigrateStat(a)
  BY <1>5 DEF MigrateStat
<1>6. CASE MigrateImport(a)
  BY <1>6 DEF MigrateImport
<1>7. CASE MigrateDrop(a)
  BY <1>7 DEF MigrateDrop
<1>8. CASE SaveScan(a)
  BY <1>8 DEF SaveScan
<1>9. CASE SaveAppend(a)
  BY <1>9 DEF SaveAppend
<1>10. CASE CompactRead(a)
  BY <1>10 DEF CompactRead
<1>11. CASE CompactRename(a)
  BY <1>11 DEF CompactRename
<1>12. CASE SaveBind(a)
  BY <1>12, ReturnDoes DEF SaveBind
<1>13. CASE SaveFails(a)
  BY <1>13, ReturnDoes DEF SaveFails
<1>14. CASE RunEnds(a)
  BY <1>14 DEF RunEnds
<1>15. CASE a = Commander /\ Switch
  BY <1>15 DEF Switch
<1>16. CASE a = Commander /\ SwitchEmpty
  BY <1>16 DEF SwitchEmpty
<1>17. CASE a = Commander /\ Load
  BY <1>17 DEF Load
<1>18. CASE a = Commander /\ Adopt
  BY <1>18 DEF Adopt
<1>19. CASE a = Commander /\ Sync
  BY <1>19 DEF Sync
<1>20. CASE a = Commander /\ NewSession
  BY <1>20 DEF NewSession
<1>21. CASE a = Commander /\ NewSessionEmpty
  BY <1>21 DEF NewSessionEmpty
<1>22. CASE a = Commander /\ Close
  BY <1>22 DEF Close
<1>23. CASE a = Commander /\ Reopen
  BY <1>23 DEF Reopen
<1>24. CASE Peek(a)
  BY <1>24 DEF Peek
<1>25. CASE PeekDone(a)
  BY <1>25, ReturnDoes DEF PeekDone
<1> QED
  BY <1>1, <1>2, <1>3, <1>4, <1>5, <1>6, <1>7, <1>8, <1>9, <1>10, <1>11, <1>12, <1>13, <1>14,
     <1>15, <1>16, <1>17, <1>18, <1>19, <1>20, <1>21, <1>22, <1>23, <1>24, <1>25

LEMMA OthersKind ==
  ASSUME StateAssumption, TypeInv, KindInv, NEW a \in Actor, Still(a)
  PROVE  /\ \A b \in Actor : b # a => KindOf(b)'
         /\ a # Commander /\ current' = current => (Loading => file[Commander] = current)'
BY Kinds DEF KindInv, KindOf, Saving, Still, Loading

\* Who is where, and with what.
LEMMA KindKeeps ==
  ASSUME StateAssumption, TypeInv, KindInv, MuInv, Next, TypeInv'
  PROVE  KindInv'
<1> USE DEF fileVars, localVars, sessionVars, history, counts, At, Goto
<1>1. ASSUME NEW a \in Goroutine, Edit(a) PROVE KindInv'
  <2>0. a \in Actor /\ Still(a)
  BY <1>1, Kinds, OthersStill
  <2>1. KindOf(a)'
    BY <1>1, <2>0, Kinds DEF Edit, TypeInv, KindInv, KindOf, Saving, Reading, SaveSteps
  <2>2. (Loading => file[Commander] = current)'
    <3>1. CASE a = Commander
      BY <1>1, <2>0, <3>1, Kinds DEF Edit, TypeInv, KindInv, Loading, Reading
    <3>2. CASE a # Commander
      BY <1>1, <2>0, <3>2, OthersKind DEF Edit
    <3> QED
      BY <3>1, <3>2
  <2> QED
    BY <2>0, <2>1, <2>2, OthersKind DEF KindInv
<1>2. ASSUME NEW a \in Goroutine, SaveName(a) PROVE KindInv'
  <2>0. a \in Actor /\ Still(a)
  BY <1>2, Kinds, OthersStill
  <2>1. KindOf(a)'
    <3>1. CASE closed
      BY <1>2, <2>0, <3>1, Kinds, ReturnDoes
         DEF SaveName, TypeInv, KindInv, KindOf, Saving, Reading, SaveSteps
    <3>2. CASE ~ closed
      BY <1>2, <2>0, <3>2, Kinds, ReturnDoes
         DEF SaveName, TypeInv, KindInv, KindOf, Saving, Reading, SaveSteps
    <3> QED
      BY <3>1, <3>2
  <2>2. (Loading => file[Commander] = current)'
    <3>1. CASE a = Commander
      BY <1>2, <2>0, <3>1, Kinds, ReturnDoes DEF SaveName, TypeInv, KindInv, Loading, Reading
    <3>2. CASE a # Commander
      BY <1>2, <2>0, <3>2, OthersKind DEF SaveName
    <3> QED
      BY <3>1, <3>2
  <2> QED
    BY <2>0, <2>1, <2>2, OthersKind DEF KindInv
<1>3. ASSUME NEW a \in Goroutine, SaveLock(a) PROVE KindInv'
  <2>0. a \in Actor /\ Still(a)
  BY <1>3, Kinds, OthersStill
  <2>1. KindOf(a)'
    <3>1. CASE closed
      BY <1>3, <2>0, <3>1, Kinds, ReturnDoes
         DEF SaveLock, StartReading, TypeInv, KindInv, KindOf, Saving, Reading, SaveSteps
    <3>2. CASE ~ closed
      BY <1>3, <2>0, <3>2, Kinds, ReturnDoes
         DEF SaveLock, StartReading, TypeInv, KindInv, KindOf, Saving, Reading, SaveSteps
    <3> QED
      BY <3>1, <3>2
  <2>2. (Loading => file[Commander] = current)'
    <3>1. CASE a = Commander
      BY <1>3, <2>0, <3>1, Kinds, ReturnDoes
         DEF SaveLock, StartReading, TypeInv, KindInv, Loading, Reading
    <3>2. CASE a # Commander
      BY <1>3, <2>0, <3>2, OthersKind DEF SaveLock
    <3> QED
      BY <3>1, <3>2
  <2> QED
    BY <2>0, <2>1, <2>2, OthersKind DEF KindInv
<1>4. ASSUME NEW a \in Actor, MigrateRead(a) PROVE KindInv'
  <2>0. a \in Actor /\ Still(a)
  BY <1>4, Kinds, OthersStill
  <2>1. KindOf(a)'
    <3>1. CASE old[file[a]] = None
      BY <1>4, <2>0, <3>1, Kinds, InHand
         DEF MigrateRead, TypeInv, KindInv, KindOf, Saving, Reading, SaveSteps
    <3>2. CASE old[file[a]] # None
      <4>1. file[a] \in Transcript /\ old[file[a]] \in Snapshot
        BY <1>4, <2>0, <3>2, InHand DEF MigrateRead, TypeInv, Reading
      <4>2. kept'[a] = <<old[file[a]]>> /\ pc'[a] = "stat" /\ file'[a] = file[a]
            /\ call'[a] = call[a] /\ snap'[a] = snap[a]
        BY <1>4, <2>0, <3>2 DEF MigrateRead, TypeInv
      <4>3. kept'[a] # <<>> /\ kept'[a][1] \in Snapshot
        BY <4>1, <4>2
      <4> QED
        BY <1>4, <2>0, <4>1, <4>2, <4>3, Kinds
           DEF MigrateRead, KindInv, KindOf, Saving, Reading, SaveSteps
    <3> QED
      BY <3>1, <3>2
  <2>2. (Loading => file[Commander] = current)'
    <3>1. CASE a = Commander
      BY <1>4, <2>0, <3>1, Kinds DEF MigrateRead, TypeInv, KindInv, Loading, Reading
    <3>2. CASE a # Commander
      BY <1>4, <2>0, <3>2, OthersKind DEF MigrateRead
    <3> QED
      BY <3>1, <3>2
  <2> QED
    BY <2>0, <2>1, <2>2, OthersKind DEF KindInv
<1>5. ASSUME NEW a \in Actor, MigrateStat(a) PROVE KindInv'
  <2>0. a \in Actor /\ Still(a)
  BY <1>5, Kinds, OthersStill
  <2>1. KindOf(a)'
    BY <1>5, <2>0, Kinds, InHand
       DEF MigrateStat, TypeInv, KindInv, KindOf, Saving, Reading, SaveSteps
  <2>2. (Loading => file[Commander] = current)'
    <3>1. CASE a = Commander
      BY <1>5, <2>0, <3>1, Kinds DEF MigrateStat, TypeInv, KindInv, Loading, Reading
    <3>2. CASE a # Commander
      BY <1>5, <2>0, <3>2, OthersKind DEF MigrateStat
    <3> QED
      BY <3>1, <3>2
  <2> QED
    BY <2>0, <2>1, <2>2, OthersKind DEF KindInv
<1>6. ASSUME NEW a \in Actor, MigrateImport(a) PROVE KindInv'
  <2>0. a \in Actor /\ Still(a)
  BY <1>6, Kinds, OthersStill
  <2>1. KindOf(a)'
    <3>1. /\ pc'[a] \in {"drop", "scan"} /\ call'[a] = call[a] /\ file'[a] = file[a]
          /\ snap'[a] = snap[a]
      BY <1>6, <2>0 DEF MigrateImport, TypeInv
    <3>2. pc[a] = "import" /\ KindOf(a)
      BY <1>6, <2>0 DEF MigrateImport, KindInv
    <3> QED
      BY <2>0, <3>1, <3>2, Kinds DEF KindOf, Saving, Reading, SaveSteps
  <2>2. (Loading => file[Commander] = current)'
    <3>1. CASE a = Commander
      BY <1>6, <2>0, <3>1, Kinds
         DEF MigrateImport, Appended, WriteFails, TypeInv, KindInv, Loading, Reading
    <3>2. CASE a # Commander
      BY <1>6, <2>0, <3>2, OthersKind DEF MigrateImport
    <3> QED
      BY <3>1, <3>2
  <2> QED
    BY <2>0, <2>1, <2>2, OthersKind DEF KindInv
<1>7. ASSUME NEW a \in Actor, MigrateDrop(a) PROVE KindInv'
  <2>0. a \in Actor /\ Still(a)
  BY <1>7, Kinds, OthersStill
  <2>1. KindOf(a)'
    BY <1>7, <2>0, Kinds, InHand
       DEF MigrateDrop, TypeInv, KindInv, KindOf, Saving, Reading, SaveSteps
  <2>2. (Loading => file[Commander] = current)'
    <3>1. CASE a = Commander
      BY <1>7, <2>0, <3>1, Kinds DEF MigrateDrop, TypeInv, KindInv, Loading, Reading
    <3>2. CASE a # Commander
      BY <1>7, <2>0, <3>2, OthersKind DEF MigrateDrop
    <3> QED
      BY <3>1, <3>2
  <2> QED
    BY <2>0, <2>1, <2>2, OthersKind DEF KindInv
<1>8. ASSUME NEW a \in Goroutine, SaveScan(a) PROVE KindInv'
  <2>0. a \in Actor /\ Still(a)
  BY <1>8, Kinds, OthersStill
  <2>1. KindOf(a)'
    BY <1>8, <2>0, Kinds, InHand
       DEF SaveScan, TypeInv, KindInv, KindOf, Saving, Reading, SaveSteps
  <2>2. (Loading => file[Commander] = current)'
    <3>1. CASE a = Commander
      BY <1>8, <2>0, <3>1, Kinds DEF SaveScan, TypeInv, KindInv, Loading, Reading
    <3>2. CASE a # Commander
      BY <1>8, <2>0, <3>2, OthersKind DEF SaveScan
    <3> QED
      BY <3>1, <3>2
  <2> QED
    BY <2>0, <2>1, <2>2, OthersKind DEF KindInv
<1>9. ASSUME NEW a \in Goroutine, SaveAppend(a) PROVE KindInv'
  <2>0. a \in Actor /\ Still(a)
  BY <1>9, Kinds, OthersStill
  <2>1. KindOf(a)'
    BY <1>9, <2>0, Kinds, InHand
       DEF SaveAppend, Appended, TypeInv, KindInv, KindOf, Saving, Reading, SaveSteps
  <2>2. (Loading => file[Commander] = current)'
    <3>1. CASE a = Commander
      BY <1>9, <2>0, <3>1, Kinds DEF SaveAppend, Appended, TypeInv, KindInv, Loading, Reading
    <3>2. CASE a # Commander
      BY <1>9, <2>0, <3>2, OthersKind DEF SaveAppend
    <3> QED
      BY <3>1, <3>2
  <2> QED
    BY <2>0, <2>1, <2>2, OthersKind DEF KindInv
<1>10. ASSUME NEW a \in Goroutine, CompactRead(a) PROVE KindInv'
  <2>0. a \in Actor /\ Still(a)
  BY <1>10, Kinds, OthersStill
  <2>1. KindOf(a)'
    <3>1. CASE Len(lines[file[a]]) <= MaxState
      BY <1>10, <2>0, <3>1, Kinds, InHand
         DEF CompactRead, TypeInv, KindInv, KindOf, Saving, Reading, SaveSteps
    <3>2. CASE ~ (Len(lines[file[a]]) <= MaxState)
      <4>1. file[a] \in Transcript /\ lines[file[a]] \in Seq(Line)
        BY <1>10, <2>0, InHand DEF CompactRead, SaveSteps, TypeInv, Line
      <4>2. Len(lines[file[a]]) > MaxState
        BY <3>2, <4>1, Kinds
      <4>3. NewestLines(lines[file[a]]) # <<>>
        BY <4>1, <4>2, NewestLinesKeep
      <4>4. /\ kept'[a] # <<>> /\ pc[a] = "compact" /\ pc'[a] = "rename"
            /\ file'[a] = file[a] /\ call'[a] = call[a] /\ snap'[a] = snap[a]
        BY <1>10, <2>0, <3>2, <4>3 DEF CompactRead, TypeInv
      <4> QED
        BY <2>0, <4>4, Kinds DEF KindInv, KindOf, Saving, Reading, SaveSteps
    <3> QED
      BY <3>1, <3>2
  <2>2. (Loading => file[Commander] = current)'
    <3>1. CASE a = Commander
      BY <1>10, <2>0, <3>1, Kinds DEF CompactRead, TypeInv, KindInv, Loading, Reading
    <3>2. CASE a # Commander
      BY <1>10, <2>0, <3>2, OthersKind DEF CompactRead
    <3> QED
      BY <3>1, <3>2
  <2> QED
    BY <2>0, <2>1, <2>2, OthersKind DEF KindInv
<1>11. ASSUME NEW a \in Goroutine, CompactRename(a) PROVE KindInv'
  <2>0. a \in Actor /\ Still(a)
  BY <1>11, Kinds, OthersStill
  <2>1. KindOf(a)'
    BY <1>11, <2>0, Kinds, InHand
       DEF CompactRename, TypeInv, KindInv, KindOf, Saving, Reading, SaveSteps
  <2>2. (Loading => file[Commander] = current)'
    <3>1. CASE a = Commander
      BY <1>11, <2>0, <3>1, Kinds DEF CompactRename, TypeInv, KindInv, Loading, Reading
    <3>2. CASE a # Commander
      BY <1>11, <2>0, <3>2, OthersKind DEF CompactRename
    <3> QED
      BY <3>1, <3>2
  <2> QED
    BY <2>0, <2>1, <2>2, OthersKind DEF KindInv
<1>12. ASSUME NEW a \in Goroutine, SaveBind(a) PROVE KindInv'
  <2>0. a \in Actor /\ Still(a)
  BY <1>12, Kinds, OthersStill
  <2>1. KindOf(a)'
    BY <1>12, <2>0, Kinds, ReturnDoes
       DEF SaveBind, TypeInv, KindInv, KindOf, Saving, Reading, SaveSteps
  <2>2. (Loading => file[Commander] = current)'
    <3>1. CASE a = Commander
      BY <1>12, <2>0, <3>1, Kinds, ReturnDoes DEF SaveBind, TypeInv, KindInv, Loading, Reading
    <3>2. CASE a # Commander
      BY <1>12, <2>0, <3>2, OthersKind DEF SaveBind
    <3> QED
      BY <3>1, <3>2
  <2> QED
    BY <2>0, <2>1, <2>2, OthersKind DEF KindInv
<1>13. ASSUME NEW a \in Goroutine, SaveFails(a) PROVE KindInv'
  <2>0. a \in Actor /\ Still(a)
  BY <1>13, Kinds, OthersStill
  <2>1. KindOf(a)'
    BY <1>13, <2>0, Kinds, ReturnDoes
       DEF SaveFails, Appended, WriteFails, TypeInv, KindInv, KindOf, Saving, Reading, SaveSteps
  <2>2. (Loading => file[Commander] = current)'
    <3>1. CASE a = Commander
      BY <1>13, <2>0, <3>1, Kinds, ReturnDoes
         DEF SaveFails, Appended, WriteFails, TypeInv, KindInv, Loading, Reading
    <3>2. CASE a # Commander
      BY <1>13, <2>0, <3>2, OthersKind DEF SaveFails
    <3> QED
      BY <3>1, <3>2
  <2> QED
    BY <2>0, <2>1, <2>2, OthersKind DEF KindInv
<1>14. ASSUME NEW e \in Event, RunEnds(e) PROVE KindInv'
  <2>0. e \in Actor /\ Still(e)
  BY <1>14, Kinds, OthersStill
  <2>1. KindOf(e)'
    BY <1>14, <2>0, Kinds DEF RunEnds, TypeInv, KindInv, KindOf, Saving, Reading, SaveSteps
  <2>2. (Loading => file[Commander] = current)'
    BY <1>14, <2>0, Kinds, OthersKind DEF RunEnds
  <2> QED
    BY <2>0, <2>1, <2>2, OthersKind DEF KindInv
<1>15. CASE Switch
  <2>0. Commander \in Actor /\ Still(Commander)
  BY <1>15, Kinds, OthersStill
  <2>1. KindOf(Commander)'
    BY <1>15, <2>0, Kinds DEF Switch, TypeInv, KindInv, KindOf, Saving, Reading, SaveSteps
  <2>2. (Loading => file[Commander] = current)'
    BY <1>15, <2>0, Kinds DEF Switch, TypeInv, KindInv, Loading, Reading
  <2> QED
    BY <2>0, <2>1, <2>2, OthersKind DEF KindInv
<1>16. CASE SwitchEmpty
  <2>0. Commander \in Actor /\ Still(Commander)
  BY <1>16, Kinds, OthersStill
  <2>1. KindOf(Commander)'
    BY <1>16, <2>0, Kinds
       DEF SwitchEmpty, StartReading, TypeInv, KindInv, KindOf, Saving, Reading, SaveSteps
  <2>2. (Loading => file[Commander] = current)'
    BY <1>16, <2>0, Kinds DEF SwitchEmpty, StartReading, TypeInv, KindInv, Loading, Reading
  <2> QED
    BY <2>0, <2>1, <2>2, OthersKind DEF KindInv
<1>17. CASE Load
  <2>0. Commander \in Actor /\ Still(Commander)
  BY <1>17, Kinds, OthersStill
  <2>1. KindOf(Commander)'
    BY <1>17, <2>0, Kinds DEF Load, TypeInv, KindInv, KindOf, Saving, Reading, SaveSteps
  <2>2. (Loading => file[Commander] = current)'
    BY <1>17, <2>0, Kinds DEF Load, TypeInv, KindInv, Loading, Reading
  <2> QED
    BY <2>0, <2>1, <2>2, OthersKind DEF KindInv
<1>18. CASE Adopt
  <2>0. Commander \in Actor /\ Still(Commander)
  BY <1>18, Kinds, OthersStill
  <2>1. KindOf(Commander)'
    <3>1. CASE snap[Commander] = None
      BY <1>18, <2>0, <3>1, Kinds
         DEF Adopt, TypeInv, KindInv, KindOf, Saving, Reading, SaveSteps
    <3>2. CASE snap[Commander] # None
      BY <1>18, <2>0, <3>2, Kinds
         DEF Adopt, TypeInv, KindInv, KindOf, Saving, Reading, SaveSteps
    <3> QED
      BY <3>1, <3>2
  <2>2. (Loading => file[Commander] = current)'
    BY <1>18, <2>0, Kinds DEF Adopt, TypeInv, KindInv, Loading, Reading
  <2> QED
    BY <2>0, <2>1, <2>2, OthersKind DEF KindInv
<1>19. CASE Sync
  <2>0. Commander \in Actor /\ Still(Commander)
  BY <1>19, Kinds, OthersStill
  <2>1. KindOf(Commander)'
    BY <1>19, <2>0, Kinds DEF Sync, TypeInv, KindInv, KindOf, Saving, Reading, SaveSteps
  <2>2. (Loading => file[Commander] = current)'
    BY <1>19, <2>0, Kinds DEF Sync, TypeInv, KindInv, Loading, Reading
  <2> QED
    BY <2>0, <2>1, <2>2, OthersKind DEF KindInv
<1>20. CASE NewSession
  <2>0. Commander \in Actor /\ Still(Commander)
  BY <1>20, Kinds, OthersStill
  <2>1. KindOf(Commander)'
    BY <1>20, <2>0, Kinds DEF NewSession, TypeInv, KindInv, KindOf, Saving, Reading, SaveSteps
  <2>2. (Loading => file[Commander] = current)'
    BY <1>20, <2>0, Kinds DEF NewSession, TypeInv, KindInv, Loading, Reading
  <2> QED
    BY <2>0, <2>1, <2>2, OthersKind DEF KindInv
<1>21. CASE NewSessionEmpty
  <2>0. Commander \in Actor /\ Still(Commander)
  BY <1>21, Kinds, OthersStill
  <2>1. KindOf(Commander)'
    BY <1>21, <2>0, Kinds
       DEF NewSessionEmpty, TypeInv, KindInv, KindOf, Saving, Reading, SaveSteps
  <2>2. (Loading => file[Commander] = current)'
    BY <1>21, <2>0, Kinds DEF NewSessionEmpty, TypeInv, KindInv, Loading, Reading
  <2> QED
    BY <2>0, <2>1, <2>2, OthersKind DEF KindInv
<1>22. CASE Close
  <2>0. Commander \in Actor /\ Still(Commander)
  BY <1>22, Kinds, OthersStill
  <2>1. KindOf(Commander)'
    BY <1>22, <2>0, Kinds DEF Close, TypeInv, KindInv, KindOf, Saving, Reading, SaveSteps
  <2>2. (Loading => file[Commander] = current)'
    BY <1>22, <2>0, Kinds DEF Close, TypeInv, KindInv, Loading, Reading
  <2> QED
    BY <2>0, <2>1, <2>2, OthersKind DEF KindInv
<1>23. CASE Reopen
  <2>0. Commander \in Actor /\ Still(Commander)
  BY <1>23, Kinds, OthersStill
  <2>1. KindOf(Commander)'
    BY <1>23, <2>0, Kinds DEF Reopen, TypeInv, KindInv, KindOf, Saving, Reading, SaveSteps
  <2>2. (Loading => file[Commander] = current)'
    BY <1>23, <2>0, Kinds DEF Reopen, TypeInv, KindInv, Loading, Reading
  <2> QED
    BY <2>0, <2>1, <2>2, OthersKind DEF KindInv
<1>24. ASSUME NEW r \in Reader, Peek(r) PROVE KindInv'
  <2>0. r \in Actor /\ Still(r)
  BY <1>24, Kinds, OthersStill
  <2>1. KindOf(r)'
    BY <1>24, <2>0, Kinds
       DEF Peek, StartReading, TypeInv, KindInv, KindOf, Saving, Reading, SaveSteps
  <2>2. (Loading => file[Commander] = current)'
    BY <1>24, <2>0, Kinds, OthersKind DEF Peek
  <2> QED
    BY <2>0, <2>1, <2>2, OthersKind DEF KindInv
<1>25. ASSUME NEW r \in Reader, PeekDone(r) PROVE KindInv'
  <2>0. r \in Actor /\ Still(r)
  BY <1>25, Kinds, OthersStill
  <2>1. KindOf(r)'
    BY <1>25, <2>0, Kinds, ReturnDoes
       DEF PeekDone, TypeInv, KindInv, KindOf, Saving, Reading, SaveSteps
  <2>2. (Loading => file[Commander] = current)'
    BY <1>25, <2>0, Kinds, OthersKind DEF PeekDone
  <2> QED
    BY <2>0, <2>1, <2>2, OthersKind DEF KindInv
<1>26. CASE Die
  BY <1>26, Kinds
     DEF Die, Appended, TypeInv, KindInv, KindOf, Loading, Saving, Reading, SaveSteps
<1> QED
  BY <1>1, <1>2, <1>3, <1>4, <1>5, <1>6, <1>7, <1>8, <1>9, <1>10, <1>11, <1>12, <1>13, <1>14,
     <1>15, <1>16, <1>17, <1>18, <1>19, <1>20, <1>21, <1>22, <1>23, <1>24, <1>25, <1>26,
     NextSteps

\* saveMu stays where it is, is taken, or is released.
LEMMA MuStays ==
  ASSUME StateAssumption, TypeInv, MuInv, NEW a \in Actor, Still(a), saveMu' = saveMu,
         a \in Goroutine => (Saving(a)' <=> Saving(a)), saveMu # None => ~ closed'
  PROVE  MuInv'
BY Kinds DEF MuInv, Saving, Still

LEMMA MuTaken ==
  ASSUME StateAssumption, TypeInv, MuInv, NEW a \in Goroutine, Still(a),
         saveMu = None, saveMu' = a, Saving(a)', ~ closed'
  PROVE  MuInv'
BY Kinds DEF MuInv, Saving, Still

LEMMA MuReleased ==
  ASSUME StateAssumption, TypeInv, MuInv, NEW a \in Goroutine, Still(a),
         Saving(a), saveMu' = None, ~ Saving(a)'
  PROVE  MuInv'
BY Kinds DEF MuInv, Saving, Still

\* saveMu is one goroutine's.
LEMMA MuKeeps ==
  ASSUME StateAssumption, TypeInv, KindInv, MuInv, Next
  PROVE  MuInv'
<1> USE DEF fileVars, localVars, sessionVars, history, counts, At, Goto
<1>1. ASSUME NEW a \in Goroutine, Edit(a) PROVE MuInv'
  <2>0. a \in Actor /\ Still(a)
  BY <1>1, Kinds, OthersStill
  <2>1. saveMu' = saveMu /\ (saveMu # None => ~ closed')
    BY <1>1 DEF Edit, MuInv
  <2>2. a \in Goroutine => (Saving(a)' <=> Saving(a))
    BY <1>1, <2>0, Kinds DEF Edit, TypeInv, Saving, Reading, SaveSteps, KindInv, KindOf
  <2> QED
    BY <2>0, <2>1, <2>2, MuStays
<1>2. ASSUME NEW a \in Goroutine, SaveName(a) PROVE MuInv'
  <2>0. a \in Actor /\ Still(a)
  BY <1>2, Kinds, OthersStill
  <2>1. CASE closed
    <3>1. saveMu' = saveMu /\ (saveMu # None => ~ closed')
      BY <1>2, <2>1 DEF SaveName, MuInv
    <3>2. a \in Goroutine => (Saving(a)' <=> Saving(a))
      BY <1>2, <2>0, <2>1, Kinds, ReturnDoes
         DEF SaveName, TypeInv, Saving, Reading, SaveSteps, KindInv, KindOf
    <3> QED
      BY <2>0, <3>1, <3>2, MuStays
  <2>2. CASE ~ closed
    <3>1. saveMu' = saveMu /\ (saveMu # None => ~ closed')
      BY <1>2, <2>2 DEF SaveName, MuInv
    <3>2. a \in Goroutine => (Saving(a)' <=> Saving(a))
      BY <1>2, <2>0, <2>2, Kinds, ReturnDoes
         DEF SaveName, TypeInv, Saving, Reading, SaveSteps, KindInv, KindOf
    <3> QED
      BY <2>0, <3>1, <3>2, MuStays
  <2> QED
    BY <2>1, <2>2
<1>3. ASSUME NEW a \in Goroutine, SaveLock(a) PROVE MuInv'
  <2>0. a \in Actor /\ Still(a)
  BY <1>3, Kinds, OthersStill
  <2>1. CASE closed
    <3>1. saveMu' = saveMu /\ (saveMu # None => ~ closed')
      BY <1>3, <2>1 DEF SaveLock, MuInv
    <3>2. a \in Goroutine => (Saving(a)' <=> Saving(a))
      BY <1>3, <2>0, <2>1, Kinds, ReturnDoes
         DEF SaveLock, StartReading, TypeInv, Saving, Reading, SaveSteps, KindInv, KindOf
    <3> QED
      BY <2>0, <3>1, <3>2, MuStays
  <2>2. CASE ~ closed
    <3>1. saveMu = None /\ saveMu' = a /\ Saving(a)' /\ ~ closed'
      BY <1>3, <2>0, <2>2, Kinds, ReturnDoes
         DEF SaveLock, StartReading, TypeInv, Saving, Reading, SaveSteps
    <3> QED
      BY <2>0, <3>1, MuTaken
  <2> QED
    BY <2>1, <2>2
<1>4. ASSUME NEW a \in Actor, MigrateRead(a) PROVE MuInv'
  <2>0. a \in Actor /\ Still(a)
  BY <1>4, Kinds, OthersStill
  <2>1. CASE old[file[a]] = None
    <3>1. saveMu' = saveMu /\ (saveMu # None => ~ closed')
      BY <1>4, <2>1 DEF MigrateRead, MuInv
    <3>2. a \in Goroutine => (Saving(a)' <=> Saving(a))
      BY <1>4, <2>0, <2>1, Kinds
         DEF MigrateRead, TypeInv, Saving, Reading, SaveSteps, KindInv, KindOf
    <3> QED
      BY <2>0, <3>1, <3>2, MuStays
  <2>2. CASE old[file[a]] # None
    <3>1. saveMu' = saveMu /\ (saveMu # None => ~ closed')
      BY <1>4, <2>2 DEF MigrateRead, MuInv
    <3>2. a \in Goroutine => (Saving(a)' <=> Saving(a))
      BY <1>4, <2>0, <2>2, Kinds
         DEF MigrateRead, TypeInv, Saving, Reading, SaveSteps, KindInv, KindOf
    <3> QED
      BY <2>0, <3>1, <3>2, MuStays
  <2> QED
    BY <2>1, <2>2
<1>5. ASSUME NEW a \in Actor, MigrateStat(a) PROVE MuInv'
  <2>0. a \in Actor /\ Still(a)
  BY <1>5, Kinds, OthersStill
  <2>1. saveMu' = saveMu /\ (saveMu # None => ~ closed')
    BY <1>5 DEF MigrateStat, MuInv
  <2>2. a \in Goroutine => (Saving(a)' <=> Saving(a))
    BY <1>5, <2>0, Kinds DEF MigrateStat, TypeInv, Saving, Reading, SaveSteps, KindInv, KindOf
  <2> QED
    BY <2>0, <2>1, <2>2, MuStays
<1>6. ASSUME NEW a \in Actor, MigrateImport(a) PROVE MuInv'
  <2>0. a \in Actor /\ Still(a)
  BY <1>6, Kinds, OthersStill
  <2>1. saveMu' = saveMu /\ (saveMu # None => ~ closed')
    BY <1>6 DEF MigrateImport, MuInv
  <2>2. a \in Goroutine => (Saving(a)' <=> Saving(a))
    <3>1. pc[a] = "import" /\ pc'[a] \in {"drop", "scan"} /\ call'[a] = call[a]
      BY <1>6, <2>0 DEF MigrateImport, TypeInv
    <3> QED
      BY <3>1 DEF Saving, Reading, SaveSteps
  <2> QED
    BY <2>0, <2>1, <2>2, MuStays
<1>7. ASSUME NEW a \in Actor, MigrateDrop(a) PROVE MuInv'
  <2>0. a \in Actor /\ Still(a)
  BY <1>7, Kinds, OthersStill
  <2>1. saveMu' = saveMu /\ (saveMu # None => ~ closed')
    BY <1>7 DEF MigrateDrop, MuInv
  <2>2. a \in Goroutine => (Saving(a)' <=> Saving(a))
    BY <1>7, <2>0, Kinds DEF MigrateDrop, TypeInv, Saving, Reading, SaveSteps, KindInv, KindOf
  <2> QED
    BY <2>0, <2>1, <2>2, MuStays
<1>8. ASSUME NEW a \in Goroutine, SaveScan(a) PROVE MuInv'
  <2>0. a \in Actor /\ Still(a)
  BY <1>8, Kinds, OthersStill
  <2>1. saveMu' = saveMu /\ (saveMu # None => ~ closed')
    BY <1>8 DEF SaveScan, MuInv
  <2>2. a \in Goroutine => (Saving(a)' <=> Saving(a))
    BY <1>8, <2>0, Kinds DEF SaveScan, TypeInv, Saving, Reading, SaveSteps, KindInv, KindOf
  <2> QED
    BY <2>0, <2>1, <2>2, MuStays
<1>9. ASSUME NEW a \in Goroutine, SaveAppend(a) PROVE MuInv'
  <2>0. a \in Actor /\ Still(a)
  BY <1>9, Kinds, OthersStill
  <2>1. saveMu' = saveMu /\ (saveMu # None => ~ closed')
    BY <1>9 DEF SaveAppend, MuInv
  <2>2. a \in Goroutine => (Saving(a)' <=> Saving(a))
    BY <1>9, <2>0, Kinds
       DEF SaveAppend, Appended, TypeInv, Saving, Reading, SaveSteps, KindInv, KindOf
  <2> QED
    BY <2>0, <2>1, <2>2, MuStays
<1>10. ASSUME NEW a \in Goroutine, CompactRead(a) PROVE MuInv'
  <2>0. a \in Actor /\ Still(a)
  BY <1>10, Kinds, OthersStill
  <2>1. CASE Len(lines[file[a]]) <= MaxState
    <3>1. saveMu' = saveMu /\ (saveMu # None => ~ closed')
      BY <1>10, <2>1 DEF CompactRead, MuInv
    <3>2. a \in Goroutine => (Saving(a)' <=> Saving(a))
      BY <1>10, <2>0, <2>1, Kinds
         DEF CompactRead, TypeInv, Saving, Reading, SaveSteps, KindInv, KindOf
    <3> QED
      BY <2>0, <3>1, <3>2, MuStays
  <2>2. CASE ~ (Len(lines[file[a]]) <= MaxState)
    <3>1. saveMu' = saveMu /\ (saveMu # None => ~ closed')
      BY <1>10, <2>2 DEF CompactRead, MuInv
    <3>2. a \in Goroutine => (Saving(a)' <=> Saving(a))
      BY <1>10, <2>0, <2>2, Kinds
         DEF CompactRead, TypeInv, Saving, Reading, SaveSteps, KindInv, KindOf
    <3> QED
      BY <2>0, <3>1, <3>2, MuStays
  <2> QED
    BY <2>1, <2>2
<1>11. ASSUME NEW a \in Goroutine, CompactRename(a) PROVE MuInv'
  <2>0. a \in Actor /\ Still(a)
  BY <1>11, Kinds, OthersStill
  <2>1. saveMu' = saveMu /\ (saveMu # None => ~ closed')
    BY <1>11 DEF CompactRename, MuInv
  <2>2. a \in Goroutine => (Saving(a)' <=> Saving(a))
    BY <1>11, <2>0, Kinds
       DEF CompactRename, TypeInv, Saving, Reading, SaveSteps, KindInv, KindOf
  <2> QED
    BY <2>0, <2>1, <2>2, MuStays
<1>12. ASSUME NEW a \in Goroutine, SaveBind(a) PROVE MuInv'
  <2>0. a \in Actor /\ Still(a)
  BY <1>12, Kinds, OthersStill
  <2>1. Saving(a) /\ saveMu' = None /\ ~ Saving(a)'
    BY <1>12, <2>0, Kinds, ReturnDoes DEF SaveBind, TypeInv, Saving, Reading, SaveSteps
  <2> QED
    BY <2>0, <2>1, MuReleased
<1>13. ASSUME NEW a \in Goroutine, SaveFails(a) PROVE MuInv'
  <2>0. a \in Actor /\ Still(a)
  BY <1>13, Kinds, OthersStill
  <2>1. Saving(a) /\ saveMu' = None /\ ~ Saving(a)'
    BY <1>13, <2>0, Kinds, ReturnDoes
       DEF SaveFails, Appended, WriteFails, TypeInv, Saving, Reading, SaveSteps
  <2> QED
    BY <2>0, <2>1, MuReleased
<1>14. ASSUME NEW e \in Event, RunEnds(e) PROVE MuInv'
  <2>0. e \in Actor /\ Still(e)
  BY <1>14, Kinds, OthersStill
  <2>1. saveMu' = saveMu /\ (saveMu # None => ~ closed')
    BY <1>14 DEF RunEnds, MuInv
  <2>2. e \in Goroutine => (Saving(e)' <=> Saving(e))
    BY <1>14, <2>0, Kinds DEF RunEnds, TypeInv, Saving, Reading, SaveSteps, KindInv, KindOf
  <2> QED
    BY <2>0, <2>1, <2>2, MuStays
<1>15. CASE Switch
  <2>0. Commander \in Actor /\ Still(Commander)
  BY <1>15, Kinds, OthersStill
  <2>1. saveMu' = saveMu /\ (saveMu # None => ~ closed')
    BY <1>15 DEF Switch, MuInv
  <2>2. Commander \in Goroutine => (Saving(Commander)' <=> Saving(Commander))
    BY <1>15, <2>0, Kinds DEF Switch, TypeInv, Saving, Reading, SaveSteps, KindInv, KindOf
  <2> QED
    BY <2>0, <2>1, <2>2, MuStays
<1>16. CASE SwitchEmpty
  <2>0. Commander \in Actor /\ Still(Commander)
  BY <1>16, Kinds, OthersStill
  <2>1. saveMu' = saveMu /\ (saveMu # None => ~ closed')
    BY <1>16 DEF SwitchEmpty, MuInv
  <2>2. Commander \in Goroutine => (Saving(Commander)' <=> Saving(Commander))
    BY <1>16, <2>0, Kinds
       DEF SwitchEmpty, StartReading, TypeInv, Saving, Reading, SaveSteps, KindInv, KindOf
  <2> QED
    BY <2>0, <2>1, <2>2, MuStays
<1>17. CASE Load
  <2>0. Commander \in Actor /\ Still(Commander)
  BY <1>17, Kinds, OthersStill
  <2>1. saveMu' = saveMu /\ (saveMu # None => ~ closed')
    BY <1>17 DEF Load, MuInv
  <2>2. Commander \in Goroutine => (Saving(Commander)' <=> Saving(Commander))
    BY <1>17, <2>0, Kinds DEF Load, TypeInv, Saving, Reading, SaveSteps, KindInv, KindOf
  <2> QED
    BY <2>0, <2>1, <2>2, MuStays
<1>18. CASE Adopt
  <2>0. Commander \in Actor /\ Still(Commander)
  BY <1>18, Kinds, OthersStill
  <2>1. CASE snap[Commander] = None
    <3>1. saveMu' = saveMu /\ (saveMu # None => ~ closed')
      BY <1>18, <2>1 DEF Adopt, MuInv
    <3>2. Commander \in Goroutine => (Saving(Commander)' <=> Saving(Commander))
      BY <1>18, <2>0, <2>1, Kinds
         DEF Adopt, TypeInv, Saving, Reading, SaveSteps, KindInv, KindOf
    <3> QED
      BY <2>0, <3>1, <3>2, MuStays
  <2>2. CASE snap[Commander] # None
    <3>1. saveMu' = saveMu /\ (saveMu # None => ~ closed')
      BY <1>18, <2>2 DEF Adopt, MuInv
    <3>2. Commander \in Goroutine => (Saving(Commander)' <=> Saving(Commander))
      BY <1>18, <2>0, <2>2, Kinds
         DEF Adopt, TypeInv, Saving, Reading, SaveSteps, KindInv, KindOf
    <3> QED
      BY <2>0, <3>1, <3>2, MuStays
  <2> QED
    BY <2>1, <2>2
<1>19. CASE Sync
  <2>0. Commander \in Actor /\ Still(Commander)
  BY <1>19, Kinds, OthersStill
  <2>1. saveMu' = saveMu /\ (saveMu # None => ~ closed')
    BY <1>19 DEF Sync, MuInv
  <2>2. Commander \in Goroutine => (Saving(Commander)' <=> Saving(Commander))
    BY <1>19, <2>0, Kinds DEF Sync, TypeInv, Saving, Reading, SaveSteps, KindInv, KindOf
  <2> QED
    BY <2>0, <2>1, <2>2, MuStays
<1>20. CASE NewSession
  <2>0. Commander \in Actor /\ Still(Commander)
  BY <1>20, Kinds, OthersStill
  <2>1. saveMu' = saveMu /\ (saveMu # None => ~ closed')
    BY <1>20 DEF NewSession, MuInv
  <2>2. Commander \in Goroutine => (Saving(Commander)' <=> Saving(Commander))
    BY <1>20, <2>0, Kinds DEF NewSession, TypeInv, Saving, Reading, SaveSteps, KindInv, KindOf
  <2> QED
    BY <2>0, <2>1, <2>2, MuStays
<1>21. CASE NewSessionEmpty
  <2>0. Commander \in Actor /\ Still(Commander)
  BY <1>21, Kinds, OthersStill
  <2>1. saveMu' = saveMu /\ (saveMu # None => ~ closed')
    BY <1>21 DEF NewSessionEmpty, MuInv
  <2>2. Commander \in Goroutine => (Saving(Commander)' <=> Saving(Commander))
    BY <1>21, <2>0, Kinds
       DEF NewSessionEmpty, TypeInv, Saving, Reading, SaveSteps, KindInv, KindOf
  <2> QED
    BY <2>0, <2>1, <2>2, MuStays
<1>22. CASE Close
  <2>0. Commander \in Actor /\ Still(Commander)
  BY <1>22, Kinds, OthersStill
  <2>1. saveMu' = saveMu /\ (saveMu # None => ~ closed')
    BY <1>22 DEF Close, MuInv
  <2>2. Commander \in Goroutine => (Saving(Commander)' <=> Saving(Commander))
    BY <1>22, <2>0, Kinds DEF Close, TypeInv, Saving, Reading, SaveSteps, KindInv, KindOf
  <2> QED
    BY <2>0, <2>1, <2>2, MuStays
<1>23. CASE Reopen
  <2>0. Commander \in Actor /\ Still(Commander)
  BY <1>23, Kinds, OthersStill
  <2>1. saveMu' = saveMu /\ (saveMu # None => ~ closed')
    BY <1>23 DEF Reopen, MuInv
  <2>2. Commander \in Goroutine => (Saving(Commander)' <=> Saving(Commander))
    BY <1>23, <2>0, Kinds DEF Reopen, TypeInv, Saving, Reading, SaveSteps, KindInv, KindOf
  <2> QED
    BY <2>0, <2>1, <2>2, MuStays
<1>24. ASSUME NEW r \in Reader, Peek(r) PROVE MuInv'
  <2>0. r \in Actor /\ Still(r)
  BY <1>24, Kinds, OthersStill
  <2>1. saveMu' = saveMu /\ (saveMu # None => ~ closed')
    BY <1>24 DEF Peek, MuInv
  <2>2. r \in Goroutine => (Saving(r)' <=> Saving(r))
    BY <1>24, <2>0, Kinds
       DEF Peek, StartReading, TypeInv, Saving, Reading, SaveSteps, KindInv, KindOf
  <2> QED
    BY <2>0, <2>1, <2>2, MuStays
<1>25. ASSUME NEW r \in Reader, PeekDone(r) PROVE MuInv'
  <2>0. r \in Actor /\ Still(r)
  BY <1>25, Kinds, OthersStill
  <2>1. saveMu' = saveMu /\ (saveMu # None => ~ closed')
    BY <1>25 DEF PeekDone, MuInv
  <2>2. r \in Goroutine => (Saving(r)' <=> Saving(r))
    BY <1>25, <2>0, Kinds, ReturnDoes
       DEF PeekDone, TypeInv, Saving, Reading, SaveSteps, KindInv, KindOf
  <2> QED
    BY <2>0, <2>1, <2>2, MuStays
<1>26. CASE Die
  BY <1>26, Kinds DEF Die, Appended, TypeInv, KindInv, KindOf, MuInv, Saving, Reading, SaveSteps
<1> QED
  BY <1>1, <1>2, <1>3, <1>4, <1>5, <1>6, <1>7, <1>8, <1>9, <1>10, <1>11, <1>12, <1>13, <1>14,
     <1>15, <1>16, <1>17, <1>18, <1>19, <1>20, <1>21, <1>22, <1>23, <1>24, <1>25, <1>26,
     NextSteps

-----------------------------------------------------------------------------
(* What a step does to the histories. *)

LEMMA Appends ==
  ASSUME StateAssumption, TypeInv, NEW t \in Transcript, NEW x \in Line, lines' = Appended(t, x)
  PROVE  /\ \A u \in Transcript : u # t => lines'[u] = lines[u] /\ Newest(u)' = Newest(u)
         /\ lines'[t] # <<>> /\ Len(lines'[t]) = Len(lines[t]) + 1
         /\ lines'[t][Len(lines'[t])] = x
         /\ \A i \in DOMAIN lines'[t] : lines'[t][i] = x \/
              (i \in DOMAIN lines[t] /\ lines'[t][i] = lines[t][i])
         /\ Newest(t)' = IF x = Torn THEN Newest(t) ELSE x
<1>1. lines[t] \in Seq(Line) /\ lines'[t] = Append(lines[t], x)
  BY DEF Appended, TypeInv, Line
<1>2. \A u \in Transcript : u # t => lines'[u] = lines[u]
  BY DEF Appended, TypeInv
<1>3. \A u \in Transcript : u # t => Newest(u)' = Newest(u)
  BY <1>2, NewestIs
<1>4. /\ lines'[t] # <<>> /\ Len(lines'[t]) = Len(lines[t]) + 1
      /\ lines'[t][Len(lines'[t])] = x
      /\ \A i \in DOMAIN lines'[t] : lines'[t][i] = x \/
           (i \in DOMAIN lines[t] /\ lines'[t][i] = lines[t][i])
  BY <1>1
<1>5. Newest(t)' = IF x = Torn THEN Newest(t) ELSE x
  <2>1. CASE x = Torn
    <3>1. NewestOf(lines'[t]) = NewestOf(lines[t])
      BY <1>1, <2>1, NewestTorn
    <3> QED
      BY <2>1, <3>1, NewestIs
  <2>2. CASE x # Torn
    BY <1>1, <2>2, NewestAppended, NewestIs DEF Line
  <2> QED
    BY <2>1, <2>2
<1> QED
  BY <1>2, <1>3, <1>4, <1>5

\* Every step leaves the histories, appends a line that somebody has in hand, or
\* puts what somebody has kept.
Puts(a, x) ==
  /\ file[a] \in Transcript /\ x \in Line
  /\ lines' = Appended(file[a], x) /\ pc'[a] # pc[a]
  /\ \/ /\ pc[a] = "import" /\ (x = kept[a][1] \/ x = Torn)
        /\ overtaken' = (overtaken \/ lines[file[a]] # <<>>)
     \/ a \in Goroutine /\ pc[a] = "append" /\ (x = snap[a] \/ x = Torn)
  /\ x = Torn => errors' + deaths' = errors + deaths + 1

Rewrites(a) ==
  /\ a \in Goroutine /\ pc[a] = "rename" /\ pc'[a] # pc[a] /\ file[a] \in Transcript
  /\ lines' = [lines EXCEPT ![file[a]] = kept[a]]

LEMMA HistoryChanges ==
  ASSUME StateAssumption, TypeInv, KindInv, Next
  PROVE  \/ lines' = lines
         \/ \E a \in Actor : \E x \in Line : Puts(a, x)
         \/ \E a \in Goroutine : Rewrites(a)
<1> USE DEF fileVars, localVars, sessionVars, history, counts, At
<1>1. ASSUME NEW a \in Actor, MigrateImport(a), lines' # lines
      PROVE  \E x \in Line : Puts(a, x)
  <2>1. file[a] \in Transcript /\ kept[a][1] \in Line /\ Torn \in Line /\ pc[a] = "import"
        /\ pc'[a] # pc[a]
    BY <1>1, InHand DEF MigrateImport, Reading, Line, Goto, TypeInv
  <2>2. CASE lines' = Appended(file[a], kept[a][1]) /\ kept[a][1] # Torn
    BY <1>1, <2>1, <2>2 DEF MigrateImport, Puts
  <2>3. CASE lines' = Appended(file[a], Torn) /\ WriteFails
    <3>1. errors' + deaths' = errors + deaths + 1
      BY <1>1, <2>3 DEF MigrateImport, WriteFails, TypeInv
    <3> QED
      BY <1>1, <2>1, <2>3, <3>1 DEF MigrateImport, Puts
  <2>4. kept[a][1] # Torn
    BY <1>1, InHand, Kinds DEF MigrateImport, Reading
  <2> QED
    BY <1>1, <2>2, <2>3, <2>4 DEF MigrateImport
<1>2. ASSUME NEW a \in Goroutine, SaveAppend(a) \/ SaveFails(a), lines' # lines
      PROVE  \E x \in Line : Puts(a, x)
  <2>1. a \in Actor /\ pc[a] = "append" /\ pc'[a] # pc[a]
    BY <1>2, Kinds DEF SaveAppend, SaveFails, Return, Goto, TypeInv
  <2>2. file[a] \in Transcript /\ snap[a] \in Line /\ snap[a] # Torn /\ Torn \in Line
    BY <2>1, InHand, Kinds DEF SaveSteps, Line
  <2>3. CASE lines' = Appended(file[a], snap[a])
    BY <2>1, <2>2, <2>3 DEF Puts
  <2>4. CASE lines' = Appended(file[a], Torn) /\ SaveFails(a)
    <3>1. errors' + deaths' = errors + deaths + 1
      BY <2>4 DEF SaveFails, WriteFails, TypeInv
    <3> QED
      BY <2>1, <2>2, <2>4, <3>1 DEF Puts
  <2> QED
    BY <1>2, <2>3, <2>4 DEF SaveAppend, SaveFails
<1>3. ASSUME Die, lines' # lines
      PROVE  \E a \in Actor : \E x \in Line : Puts(a, x)
  <2>1. PICK a \in Goroutine : /\ pc[a] \in {"append", "import"}
                               /\ lines' = Appended(file[a], Torn)
                               /\ overtaken' = \/ overtaken
                                               \/ pc[a] = "import" /\ lines[file[a]] # <<>>
    BY <1>3 DEF Die
  <2>2. a \in Actor /\ file[a] \in Transcript /\ Torn \in Line /\ pc'[a] # pc[a]
    BY <1>3, <2>1, InHand, Kinds DEF SaveSteps, Reading, Line, Die
  <2>3. errors' + deaths' = errors + deaths + 1
    BY <1>3 DEF Die, TypeInv
  <2>4. Puts(a, Torn)
    BY <2>1, <2>2, <2>3 DEF Puts
  <2> QED
    BY <2>2, <2>4
<1>4. ASSUME NEW a \in Goroutine, CompactRename(a)
      PROVE  Rewrites(a)
  BY <1>4, InHand, Kinds DEF CompactRename, Rewrites, SaveSteps, Goto, TypeInv
<1>5. ASSUME lines' # lines
      PROVE  \/ \E a \in Actor : MigrateImport(a)
             \/ \E a \in Goroutine : SaveAppend(a) \/ SaveFails(a) \/ CompactRename(a)
             \/ Die
  BY <1>5, NextSteps DEF Edit, SaveName, SaveLock, MigrateRead, MigrateStat, MigrateDrop,
     SaveScan, CompactRead, SaveBind, RunEnds, Switch, SwitchEmpty, Load, Adopt, Sync,
     NewSession, NewSessionEmpty, Close, Reopen, Peek, PeekDone
<1> QED
  BY <1>1, <1>2, <1>3, <1>4, <1>5, Kinds

\* Every line has a number.
LEMMA Numbers ==
  ASSUME StateAssumption, TypeInv
  PROVE  /\ \A x \in Line : x.n \in Int
         /\ \A t \in Transcript : /\ lines[t] \in Seq(Line)
                                 /\ \A i \in DOMAIN lines[t] : lines[t][i] \in Line
         /\ \A a \in Actor : /\ kept[a] \in Seq(Line)
                            /\ \A i \in DOMAIN kept[a] : kept[a][i] \in Line
         /\ \A t \in Transcript : old[t] # None => old[t] \in Line
         /\ \A a \in Actor : snap[a] # None => snap[a] \in Line
<1>1. \A x \in Line : x.n \in Int
  BY Kinds DEF Line, Snapshot, Torn
<1>2. \A s \in Seq(Line) : \A i \in DOMAIN s : s[i] \in Line
  OBVIOUS
<1>3. \A t \in Transcript : lines[t] \in Seq(Line)
  BY DEF TypeInv, Line
<1>4. \A a \in Actor : kept[a] \in Seq(Line)
  BY DEF TypeInv, Line
<1>5. \A t \in Transcript : old[t] # None => old[t] \in Line
  BY DEF TypeInv, Line
<1>6. \A a \in Actor : snap[a] # None => snap[a] \in Line
  BY DEF TypeInv, Line
<1> QED
  BY <1>1, <1>2, <1>3, <1>4, <1>5, <1>6

\* What is stored is no later than the last edit.
LEMMA EditKeeps ==
  ASSUME StateAssumption, TypeInv, KindInv, EditInv, Next, TypeInv'
  PROVE  EditInv'
<1> USE DEF fileVars, localVars, sessionVars, history, counts, At
<1>1. edits' = edits \/ \E a \in Goroutine : Edit(a)
  BY NextSteps
     DEF SaveName, SaveLock, MigrateRead, MigrateStat, MigrateImport, MigrateDrop, SaveScan,
         SaveAppend, CompactRead, CompactRename, SaveBind, SaveFails, RunEnds, Switch,
         SwitchEmpty, Load, Adopt, Sync, NewSession, NewSessionEmpty, Close, Reopen, Peek,
         PeekDone, Die, Return, StartReading, WriteFails
<1>2. edits \in Nat /\ edits' \in Nat /\ edits' >= edits
  <2>1. ASSUME NEW a \in Goroutine, Edit(a) PROVE edits' = edits + 1
    BY <2>1 DEF Edit
  <2> QED
    BY <1>1, <2>1 DEF TypeInv
<1>3. \A t \in Transcript : \A i \in DOMAIN lines'[t] : lines'[t][i].n <= edits'
  <2>0. \A t \in Transcript : \A i \in DOMAIN lines[t] : lines[t][i].n \in Int
    BY Numbers
  <2>1. CASE lines' = lines
    BY <1>2, <2>0, <2>1 DEF EditInv
  <2>2. ASSUME NEW a \in Actor, NEW x \in Line, Puts(a, x)
        PROVE  \A t \in Transcript : \A i \in DOMAIN lines'[t] : lines'[t][i].n <= edits'
    <3>1. file[a] \in Transcript /\ lines' = Appended(file[a], x)
      BY <2>2 DEF Puts
    <3>2. x.n \in Int /\ x.n <= edits
      <4>1. CASE x = Torn
        BY <1>2, <4>1 DEF Torn
      <4>2. CASE x = kept[a][1] /\ pc[a] = "import"
        <5>1. kept[a] # <<>> /\ kept[a] \in Seq(Line) /\ kept[a][1] \in Snapshot
          BY <4>2, InHand DEF TypeInv, Line
        <5>2. 1 \in DOMAIN kept[a]
          BY <5>1
        <5> QED
          BY <4>2, <5>1, <5>2 DEF EditInv, Snapshot
      <4>3. CASE x = snap[a] /\ pc[a] = "append"
        BY <4>3, InHand, Kinds DEF EditInv, Snapshot, SaveSteps
      <4> QED
        BY <2>2, <4>1, <4>2, <4>3 DEF Puts
    <3> QED
      BY <1>2, <2>0, <3>1, <3>2, Appends DEF EditInv
  <2>3. ASSUME NEW a \in Goroutine, Rewrites(a)
        PROVE  \A t \in Transcript : \A i \in DOMAIN lines'[t] : lines'[t][i].n <= edits'
    <3>1. \A i \in DOMAIN kept[a] : kept[a][i].n \in Int /\ kept[a][i].n <= edits
      BY <2>3, Kinds, Numbers DEF EditInv
    <3>2. \A t \in Transcript : lines'[t] = lines[t] \/ lines'[t] = kept[a]
      BY <2>3 DEF Rewrites, TypeInv
    <3> QED
      BY <1>2, <2>0, <3>1, <3>2 DEF EditInv
  <2> QED
    BY <2>1, <2>2, <2>3, HistoryChanges
<1>4. \A t \in Transcript : old'[t] # None => old'[t].n <= edits'
  <2>1. \A t \in Transcript : old'[t] # None => old'[t] = old[t]
    <3>1. ASSUME NEW a \in Actor, MigrateDrop(a)
          PROVE  \A t \in Transcript : old'[t] # None => old'[t] = old[t]
      BY <3>1 DEF MigrateDrop, TypeInv
    <3>2. old' = old \/ \E a \in Actor : MigrateDrop(a)
      BY NextSteps
         DEF Edit, SaveName, SaveLock, MigrateRead, MigrateStat, MigrateImport, SaveScan,
             SaveAppend, CompactRead, CompactRename, SaveBind, SaveFails, RunEnds, Switch,
             SwitchEmpty, Load, Adopt, Sync, NewSession, NewSessionEmpty, Close, Reopen, Peek,
             PeekDone, Die, Return, StartReading, WriteFails
    <3> QED
      BY <3>1, <3>2
  <2>2. \A t \in Transcript : old[t] # None => old[t].n \in Int
    BY Numbers
  <2> QED
    BY <1>2, <2>1, <2>2 DEF EditInv
<1>5. \A a \in Actor : \A i \in DOMAIN kept'[a] : kept'[a][i].n <= edits'
  <2>0. \A a \in Actor : \A i \in DOMAIN kept[a] : kept[a][i].n \in Int
    BY Numbers
  <2>1. SUFFICES ASSUME NEW a \in Actor, NEW i \in DOMAIN kept'[a], kept'[a] # kept[a]
                 PROVE  kept'[a][i].n <= edits'
    BY <1>2, <2>0 DEF EditInv
  <2>2. /\ kept'[a] # <<>> /\ pc[a] \in {"read", "scan", "compact"}
        /\ \/ old[file[a]] # None /\ kept'[a] = <<old[file[a]]>> /\ pc[a] = "read"
           \/ kept'[a] = lines[file[a]]
           \/ kept'[a] = NewestLines(lines[file[a]]) /\ Len(lines[file[a]]) > MaxState
    <3>1. kept'[a] # <<>>
      BY <2>1
    <3>2. ASSUME NEW b \in Actor,
                 MigrateRead(b) \/ (b \in Goroutine /\ (SaveScan(b) \/ CompactRead(b)))
          PROVE  b = a
      BY <2>1, <3>2, OthersStill DEF Still
    <3>3. ASSUME NEW b \in Actor, Return(b) PROVE FALSE
      BY <2>1, <3>1, <3>3, ReturnDoes DEF Still
    <3>4. ~ Die
      BY <2>1, <3>1 DEF Die, TypeInv
    <3>5. MigrateRead(a) \/ (a \in Goroutine /\ (SaveScan(a) \/ CompactRead(a)))
      <4>1. \/ \E b \in Actor : \/ MigrateRead(b) \/ Return(b)
                                \/ b \in Goroutine /\ (SaveScan(b) \/ CompactRead(b))
            \/ Die
        BY <2>1, NextSteps, Kinds
           DEF Edit, SaveName, SaveLock, MigrateStat, MigrateImport, MigrateDrop, SaveAppend,
               CompactRename, SaveBind, SaveFails, RunEnds, Switch, SwitchEmpty, Load, Adopt,
               Sync, NewSession, NewSessionEmpty, Close, Reopen, Peek, PeekDone, StartReading,
               WriteFails
      <4> QED
        BY <3>2, <3>3, <3>4, <4>1
    <3>6. CASE MigrateRead(a)
      BY <2>1, <3>1, <3>6 DEF MigrateRead, TypeInv
    <3>7. CASE a \in Goroutine /\ SaveScan(a)
      BY <2>1, <3>1, <3>7 DEF SaveScan, TypeInv
    <3>8. CASE a \in Goroutine /\ CompactRead(a)
      <4>1. ~ (Len(lines[file[a]]) <= MaxState)
        BY <2>1, <3>8 DEF CompactRead, TypeInv
      <4>2. file[a] \in Transcript /\ Len(lines[file[a]]) \in Nat
        BY <3>8, InHand, Numbers DEF CompactRead, SaveSteps
      <4>3. Len(lines[file[a]]) > MaxState
        BY <4>1, <4>2, Kinds
      <4> QED
        BY <2>1, <3>1, <3>8, <4>3 DEF CompactRead, TypeInv
    <3> QED
      BY <3>5, <3>6, <3>7, <3>8
  <2>3. file[a] \in Transcript /\ lines[file[a]] \in Seq(Line)
    BY <2>2, InHand DEF Reading, SaveSteps, TypeInv, Line
  <2>4. CASE old[file[a]] # None /\ kept'[a] = <<old[file[a]]>>
    <3>1. kept'[a][i] = old[file[a]]
      BY <2>1, <2>4
    <3> QED
      BY <1>2, <2>3, <2>4, <3>1, Numbers DEF EditInv
  <2>5. ASSUME NEW j \in DOMAIN lines[file[a]], kept'[a][i] = lines[file[a]][j]
        PROVE  kept'[a][i].n <= edits'
    <3>1. lines[file[a]][j].n \in Int
      BY <2>3 DEF Line, Snapshot, Torn
    <3> QED
      BY <1>2, <2>3, <2>5, <3>1 DEF EditInv
  <2>6. CASE kept'[a] = NewestLines(lines[file[a]]) /\ Len(lines[file[a]]) > MaxState
    BY <2>1, <2>3, <2>5, <2>6, NewestLinesKeep
  <2> QED
    BY <2>1, <2>2, <2>4, <2>5, <2>6
<1>6. \A a \in Actor : snap'[a] # None => snap'[a].n <= edits'
  <2>0. \A t \in Transcript : Newest(t) # None => Newest(t).n \in Int /\ Newest(t).n <= edits
    BY NewestTyped DEF EditInv, Snapshot
  <2>1. SUFFICES ASSUME NEW a \in Actor, snap'[a] # None, snap'[a] # snap[a]
                 PROVE  snap'[a].n <= edits'
    BY <1>2, Numbers DEF EditInv
  <2>2. ASSUME NEW b \in Actor, Return(b) PROVE FALSE
    BY <2>1, <2>2, ReturnDoes DEF Still
  <2>3. ~ Die
    BY <2>1 DEF Die, TypeInv
  <2>4. (\E b \in Goroutine : SaveLock(b)) \/ Load \/ Die \/ \E b \in Actor : Return(b)
    BY <2>1, NextSteps, Kinds
       DEF Edit, SaveName, MigrateRead, MigrateStat, MigrateImport, MigrateDrop, SaveScan,
           SaveAppend, CompactRead, CompactRename, SaveBind, SaveFails, RunEnds, Switch,
           SwitchEmpty, Adopt, Sync, NewSession, NewSessionEmpty, Close, Reopen, Peek,
           PeekDone, WriteFails, StartReading
  <2>5. ASSUME NEW b \in Goroutine, SaveLock(b) PROVE snap'[a].n <= edits'
    <3>1. a = b /\ snap'[a] = state
      BY <2>1, <2>2, <2>5, OthersStill, Kinds DEF SaveLock, Still, TypeInv
    <3> QED
      BY <1>2, <3>1 DEF EditInv, TypeInv, Snapshot
  <2>6. CASE Load
    <3>1. a = Commander /\ snap'[a] = Newest(file[a]) /\ file[a] \in Transcript
      BY <2>1, <2>6, OthersStill, InHand, Kinds DEF Load, Still, TypeInv, Reading
    <3> QED
      BY <1>2, <2>0, <2>1, <3>1
  <2> QED
    BY <2>2, <2>3, <2>4, <2>5, <2>6
<1>7. state'.n <= edits'
  <2>1. state'.n = state.n \/ (\E a \in Goroutine : Edit(a)) \/ Reopen
    BY NextSteps
       DEF TypeInv, Snapshot, SaveName, SaveLock, MigrateRead, MigrateStat, MigrateImport,
           MigrateDrop, SaveScan, SaveAppend, CompactRead, CompactRename, SaveBind, SaveFails,
           RunEnds, Switch, SwitchEmpty, Load, Adopt, Sync, NewSession, NewSessionEmpty,
           Close, Peek, PeekDone, Die, Return, StartReading, WriteFails
  <2>2. ASSUME NEW a \in Goroutine, Edit(a) PROVE state'.n <= edits'
    BY <1>2, <2>2 DEF Edit, TypeInv, Snapshot
  <2>3. CASE Reopen
    <3>1. Newest(handle).n <= edits /\ Newest(handle).n \in Int /\ state' = Newest(handle)
      BY <2>3, NewestTyped DEF Reopen, EditInv, TypeInv, Snapshot
    <3> QED
      BY <1>2, <3>1
  <2> QED
    BY <1>2, <2>1, <2>2, <2>3 DEF EditInv, TypeInv, Snapshot
<1> QED
  BY <1>3, <1>4, <1>5, <1>6, <1>7 DEF EditInv

-----------------------------------------------------------------------------
(* Where a step leads. *)

LEMMA Counted ==
  ASSUME NEW m \in Nat, NEW n \in Nat, NEW k \in Nat, NEW l \in Nat,
         k = m \/ k = m + 1, l = n \/ l = n + 1
  PROVE  m + n <= k + l
OBVIOUS

\* Faults only add up, and nothing that has gone wrong is forgotten.
LEMMA Onwards ==
  ASSUME StateAssumption, TypeInv, Next, TypeInv'
  PROVE  /\ overtaken => overtaken'
         /\ crossed => crossed'
         /\ errors \in Nat /\ deaths \in Nat /\ errors' \in Nat /\ deaths' \in Nat
         /\ errors + deaths <= errors' + deaths'
<1> USE DEF fileVars, localVars, sessionVars, history, counts
<1>1. errors \in Nat /\ deaths \in Nat /\ errors' \in Nat /\ deaths' \in Nat
  BY Kinds DEF TypeInv
<1>2. overtaken => overtaken'
  BY NextSteps
     DEF Edit, SaveName, SaveLock, MigrateRead, MigrateStat, MigrateImport, MigrateDrop,
         SaveScan, SaveAppend, CompactRead, CompactRename, SaveBind, SaveFails, RunEnds,
         Switch, SwitchEmpty, Load, Adopt, Sync, NewSession, NewSessionEmpty, Close, Reopen,
         Peek, PeekDone, Die, StartReading, Appended, WriteFails
<1>3. crossed => crossed'
  BY NextSteps
     DEF Edit, SaveName, SaveLock, MigrateRead, MigrateStat, MigrateImport, MigrateDrop,
         SaveScan, SaveAppend, CompactRead, CompactRename, SaveBind, SaveFails, RunEnds,
         Switch, SwitchEmpty, Load, Adopt, Sync, NewSession, NewSessionEmpty, Close, Reopen,
         Peek, PeekDone, Die, StartReading, Appended, WriteFails
<1>4. errors' = errors \/ errors' = errors + 1
  BY NextSteps
     DEF Edit, SaveName, SaveLock, MigrateRead, MigrateStat, MigrateImport, MigrateDrop,
         SaveScan, SaveAppend, CompactRead, CompactRename, SaveBind, SaveFails, RunEnds,
         Switch, SwitchEmpty, Load, Adopt, Sync, NewSession, NewSessionEmpty, Close, Reopen,
         Peek, PeekDone, Die, StartReading, Appended, WriteFails
<1>5. deaths' = deaths \/ deaths' = deaths + 1
  BY NextSteps
     DEF Edit, SaveName, SaveLock, MigrateRead, MigrateStat, MigrateImport, MigrateDrop,
         SaveScan, SaveAppend, CompactRead, CompactRename, SaveBind, SaveFails, RunEnds,
         Switch, SwitchEmpty, Load, Adopt, Sync, NewSession, NewSessionEmpty, Close, Reopen,
         Peek, PeekDone, Die, StartReading, Appended, WriteFails
<1>6. errors + deaths <= errors' + deaths'
  BY <1>1, <1>4, <1>5, Counted
<1> QED
  BY <1>1, <1>2, <1>3, <1>6

\* Nothing of an actor's has changed.
Same(a) ==
  /\ pc'[a] = pc[a] /\ call'[a] = call[a] /\ file'[a] = file[a]
  /\ snap'[a] = snap[a] /\ kept'[a] = kept[a]

\* Who is inside a call, and has moved, has taken the step that leads there.
Lands(b) ==
  /\ pc'[b] = "stat" => MigrateRead(b)
  /\ pc'[b] = "import" => MigrateStat(b)
  /\ pc'[b] = "drop" => MigrateStat(b) \/ MigrateImport(b)
  /\ pc'[b] = "scan" => MigrateRead(b) \/ MigrateImport(b) \/ MigrateDrop(b)
  /\ pc'[b] \in SaveSteps \cup {"lock"} => b \in Goroutine
  /\ pc'[b] = "append" => SaveScan(b)
  /\ pc'[b] = "compact" => SaveAppend(b)
  /\ pc'[b] = "rename" => CompactRead(b)
  /\ pc'[b] = "bind" => SaveScan(b) \/ SaveAppend(b) \/ CompactRead(b) \/ CompactRename(b)
  /\ pc'[b] = "adopt" => b = Commander /\ Load
  /\ pc'[b] = "read" => \/ b \in Goroutine /\ SaveLock(b) /\ ~ closed
                        \/ b = Commander /\ SwitchEmpty
                        \/ b \in Reader /\ Peek(b)

LEMMA LandsByStep ==
  ASSUME StateAssumption, TypeInv, KindInv, NEW b \in Actor,
         \/ b \in Goroutine /\ \/ Edit(b) \/ SaveName(b) \/ SaveLock(b) \/ SaveScan(b)
                               \/ SaveAppend(b) \/ CompactRead(b) \/ CompactRename(b)
                               \/ SaveBind(b) \/ SaveFails(b)
         \/ MigrateRead(b) \/ MigrateStat(b) \/ MigrateImport(b) \/ MigrateDrop(b)
         \/ b \in Event /\ RunEnds(b)
         \/ b \in Reader /\ (Peek(b) \/ PeekDone(b))
         \/ /\ b = Commander
            /\ \/ Switch \/ SwitchEmpty \/ Load \/ Adopt \/ Sync \/ NewSession
               \/ NewSessionEmpty \/ Close \/ Reopen
  PROVE  Lands(b) \/ Same(b)
<1> USE DEF Lands, Goto, SaveSteps, TypeInv
<1>1. CASE b \in Goroutine /\ Edit(b)
  BY <1>1, Kinds DEF Edit
<1>2. CASE b \in Goroutine /\ SaveName(b)
  BY <1>2, Kinds DEF SaveName, Return
<1>3. CASE b \in Goroutine /\ SaveLock(b)
  BY <1>3, Kinds DEF SaveLock, Return, StartReading
<1>4. CASE MigrateRead(b)
  BY <1>4, Kinds DEF MigrateRead
<1>5. CASE MigrateStat(b)
  BY <1>5, Kinds DEF MigrateStat
<1>6. CASE MigrateImport(b)
  BY <1>6, Kinds DEF MigrateImport
<1>7. CASE MigrateDrop(b)
  BY <1>7, Kinds DEF MigrateDrop
<1>8. CASE b \in Goroutine /\ SaveScan(b)
  BY <1>8, Kinds DEF SaveScan
<1>9. CASE b \in Goroutine /\ SaveAppend(b)
  BY <1>9, Kinds DEF SaveAppend
<1>10. CASE b \in Goroutine /\ CompactRead(b)
  BY <1>10, Kinds DEF CompactRead
<1>11. CASE b \in Goroutine /\ CompactRename(b)
  BY <1>11, Kinds DEF CompactRename
<1>12. CASE b \in Goroutine /\ SaveBind(b)
  BY <1>12, Kinds DEF SaveBind, Return
<1>13. CASE b \in Goroutine /\ SaveFails(b)
  BY <1>13, Kinds DEF SaveFails, Return
<1>14. CASE b \in Event /\ RunEnds(b)
  BY <1>14, Kinds DEF RunEnds
<1>15. CASE b = Commander /\ Switch
  BY <1>15, Kinds DEF Switch
<1>16. CASE b = Commander /\ SwitchEmpty
  BY <1>16, Kinds DEF SwitchEmpty, StartReading
<1>17. CASE b = Commander /\ Load
  BY <1>17, Kinds DEF Load
<1>18. CASE b = Commander /\ Adopt
  BY <1>18, Kinds DEF Adopt
<1>19. CASE b = Commander /\ Sync
  BY <1>19, Kinds DEF Sync
<1>20. CASE b = Commander /\ NewSession
  BY <1>20, Kinds DEF NewSession
<1>21. CASE b = Commander /\ NewSessionEmpty
  BY <1>21, Kinds DEF NewSessionEmpty
<1>22. CASE b = Commander /\ Close
  BY <1>22, Kinds DEF Close, localVars, Same
<1>23. CASE b = Commander /\ Reopen
  BY <1>23, Kinds DEF Reopen
<1>24. CASE b \in Reader /\ Peek(b)
  BY <1>24, Kinds DEF Peek, StartReading
<1>25. CASE b \in Reader /\ PeekDone(b)
  BY <1>25, Kinds DEF PeekDone, Return
<1> QED
  BY <1>1, <1>2, <1>3, <1>4, <1>5, <1>6, <1>7, <1>8, <1>9, <1>10, <1>11, <1>12, <1>13, <1>14,
     <1>15, <1>16, <1>17, <1>18, <1>19, <1>20, <1>21, <1>22, <1>23, <1>24, <1>25

LEMMA Moves ==
  ASSUME StateAssumption, TypeInv, KindInv, Next, NEW b \in Actor
  PROVE  \/ Same(b)
         \/ Lands(b)
         \/ Die /\ b \in Goroutine
<1>1. CASE Die
  BY <1>1, Kinds DEF Die, Same, TypeInv
<1>2. ASSUME NEW a \in Actor, Still(a), a # b PROVE Same(b)
  BY <1>2 DEF Still, Same
<1>3. ASSUME NEW a \in Goroutine,
             \/ Edit(a) \/ SaveName(a) \/ SaveLock(a) \/ SaveScan(a) \/ SaveAppend(a)
             \/ CompactRead(a) \/ CompactRename(a) \/ SaveBind(a) \/ SaveFails(a)
      PROVE  Same(b) \/ Lands(b)
  <2>1. a \in Actor /\ Still(a)
    BY <1>3, Kinds, OthersStill
  <2> QED
    BY <1>2, <1>3, <2>1, LandsByStep
<1>4. ASSUME NEW a \in Actor,
             MigrateRead(a) \/ MigrateStat(a) \/ MigrateImport(a) \/ MigrateDrop(a)
      PROVE  Same(b) \/ Lands(b)
  <2>1. Still(a)
    BY <1>4, OthersStill
  <2> QED
    BY <1>2, <1>4, <2>1, LandsByStep
<1>5. ASSUME NEW e \in Event, RunEnds(e) PROVE Same(b) \/ Lands(b)
  <2>1. e \in Actor /\ Still(e)
    BY <1>5, Kinds, OthersStill
  <2> QED
    BY <1>2, <1>5, <2>1, LandsByStep
<1>6. CASE Switch \/ SwitchEmpty \/ Load \/ Adopt \/ Sync \/ NewSession \/ NewSessionEmpty
           \/ Close \/ Reopen
  <2>1. Commander \in Actor /\ Still(Commander)
    BY <1>6, Kinds, OthersStill
  <2> QED
    BY <1>2, <1>6, <2>1, LandsByStep
<1>7. ASSUME NEW r \in Reader, Peek(r) \/ PeekDone(r) PROVE Same(b) \/ Lands(b)
  <2>1. r \in Actor /\ Still(r)
    BY <1>7, Kinds, OthersStill
  <2> QED
    BY <1>2, <1>7, <2>1, LandsByStep
<1> QED
  BY <1>1, <1>3, <1>4, <1>5, <1>6, <1>7, NextSteps

\* An old version's file stays, or has been dropped.
LEMMA OldShrinks ==
  ASSUME StateAssumption, TypeInv, Next, NEW t \in Transcript
  PROVE  old'[t] = old[t] \/ (old'[t] = None /\ \E a \in Actor : MigrateDrop(a) /\ file[a] = t)
<1> USE DEF fileVars, localVars, sessionVars, history, counts
<1>1. ASSUME NEW a \in Actor, MigrateDrop(a)
      PROVE  old'[t] = old[t] \/ (old'[t] = None /\ file[a] = t)
  BY <1>1 DEF MigrateDrop, TypeInv
<1>2. old' = old \/ \E a \in Actor : MigrateDrop(a)
  BY NextSteps
     DEF Edit, SaveName, SaveLock, MigrateRead, MigrateStat, MigrateImport, SaveScan,
         SaveAppend, CompactRead, CompactRename, SaveBind, SaveFails, RunEnds, Switch,
         SwitchEmpty, Load, Adopt, Sync, NewSession, NewSessionEmpty, Close, Reopen, Peek,
         PeekDone, Die, StartReading, WriteFails
<1> QED
  BY <1>1, <1>2

\* While no write has failed and nobody has died, files hold whole lines.
LEMMA CleanKeeps ==
  ASSUME StateAssumption, TypeInv, KindInv, CleanInv, Next, TypeInv'
  PROVE  CleanInv'
<1> USE DEF fileVars, localVars, sessionVars, history, counts
<1> SUFFICES ASSUME errors' + deaths' = 0
             PROVE  /\ \A t \in there' : lines'[t] # <<>>
                    /\ \A a \in Actor : pc'[a] \in {"scan", "append"} => old'[file'[a]] = None
                    /\ \A a \in Actor : pc'[a] = "drop" => lines'[file'[a]] # <<>>
                    /\ \A a \in Actor : pc'[a] \in {"stat", "import"} =>
                         old'[file'[a]] # None \/ lines'[file'[a]] # <<>>
  BY DEF CleanInv
<1>1. errors = 0 /\ deaths = 0 /\ errors' = 0 /\ deaths' = 0
  BY Onwards
<1>2. /\ \A t \in there : lines[t] # <<>>
      /\ \A a \in Actor : pc[a] \in {"scan", "append"} => old[file[a]] = None
      /\ \A a \in Actor : pc[a] = "drop" => lines[file[a]] # <<>>
      /\ \A a \in Actor : pc[a] \in {"stat", "import"} =>
           old[file[a]] # None \/ lines[file[a]] # <<>>
  BY <1>1 DEF CleanInv
<1>3. ~ Die /\ \A a \in Actor : ~ SaveFails(a)
  BY <1>1 DEF Die, SaveFails, WriteFails
<1>4. ASSUME NEW a \in Actor, MigrateImport(a)
      PROVE  /\ lines' = Appended(file[a], kept[a][1]) /\ pc' = [pc EXCEPT ![a] = "drop"]
             /\ file[a] \in Transcript /\ kept[a][1] \in Line
             /\ there' = there \cup {file[a]}
  <2>1. file[a] \in Transcript /\ kept[a][1] \in Line
    BY <1>4, InHand DEF MigrateImport, At, Reading, Line
  <2> QED
    BY <1>1, <1>4, <2>1 DEF MigrateImport, WriteFails, Goto
<1>5. \A t \in Transcript : lines[t] # <<>> => lines'[t] # <<>>
  <2>1. ASSUME NEW a \in Actor, NEW x \in Line, Puts(a, x), NEW t \in Transcript
        PROVE  lines[t] # <<>> => lines'[t] # <<>>
    BY <2>1, Appends DEF Puts
  <2>2. ASSUME NEW a \in Goroutine, Rewrites(a), NEW t \in Transcript
        PROVE  lines[t] # <<>> => lines'[t] # <<>>
    <3>1. kept[a] # <<>>
      BY <2>2, Kinds DEF Rewrites, KindInv, KindOf
    <3> QED
      BY <2>2, <3>1 DEF Rewrites, TypeInv
  <2> QED
    BY <2>1, <2>2, HistoryChanges
<1>6. \A t \in there' : lines'[t] # <<>>
  <2>1. \/ there' = there
         \/ (\E a \in Actor : MigrateImport(a)) \/ \E a \in Goroutine : SaveAppend(a)
    BY <1>3, Kinds, NextSteps
       DEF Edit, SaveName, SaveLock, MigrateRead, MigrateStat, MigrateDrop, SaveScan,
           CompactRead, CompactRename, SaveBind, RunEnds, Switch, SwitchEmpty, Load, Adopt,
           Sync, NewSession, NewSessionEmpty, Close, Reopen, Peek, PeekDone, Return,
           StartReading
  <2>2. ASSUME NEW a \in Actor, MigrateImport(a)
        PROVE  there' = there \cup {file[a]} /\ lines'[file[a]] # <<>>
    BY <1>4, <2>2, Appends
  <2>3. ASSUME NEW a \in Goroutine, SaveAppend(a)
        PROVE  there' = there \cup {file[a]} /\ lines'[file[a]] # <<>>
    <3>1. file[a] \in Transcript /\ snap[a] \in Line
      BY <2>3, InHand, Kinds DEF SaveAppend, At, SaveSteps, Line
    <3> QED
      BY <2>3, <3>1, Appends DEF SaveAppend
  <2>4. there \subseteq Transcript
    BY DEF TypeInv
  <2> QED
    BY <1>2, <1>5, <2>1, <2>2, <2>3, <2>4
<1>7. SUFFICES ASSUME NEW a \in Actor
               PROVE  /\ pc'[a] \in {"scan", "append"} => old'[file'[a]] = None
                      /\ pc'[a] = "drop" => lines'[file'[a]] # <<>>
                      /\ pc'[a] \in {"stat", "import"} =>
                           old'[file'[a]] # None \/ lines'[file'[a]] # <<>>
  BY <1>6
<1>8. CASE Same(a)
  <2>1. pc[a] \in Reading \cup SaveSteps => file[a] \in Transcript
    BY InHand
  <2>2. pc'[a] \in {"scan", "append"} => old'[file'[a]] = None
    BY <1>2, <1>8, <2>1, OldShrinks DEF Same, Reading, SaveSteps
  <2>3. pc'[a] = "drop" => lines'[file'[a]] # <<>>
    BY <1>2, <1>5, <1>8, <2>1 DEF Same, Reading
  <2>4. ASSUME pc'[a] \in {"stat", "import"}, old[file[a]] # None, old'[file[a]] = None
        PROVE  lines'[file[a]] # <<>>
    <3>1. PICK b \in Actor : MigrateDrop(b) /\ file[b] = file[a]
      BY <1>8, <2>1, <2>4, OldShrinks DEF Same, Reading
    <3>2. lines[file[b]] # <<>>
      BY <1>2, <3>1 DEF MigrateDrop, At
    <3> QED
      BY <1>5, <1>8, <2>1, <2>4, <3>1, <3>2 DEF Same, Reading
  <2> QED
    BY <1>2, <1>5, <1>8, <2>1, <2>2, <2>3, <2>4 DEF Same, Reading
<1>9. CASE Lands(a)
  <2>1. ASSUME MigrateRead(a)
        PROVE  /\ file'[a] = file[a] /\ old' = old
               /\ pc'[a] = "scan" => old[file[a]] = None
               /\ pc'[a] = "stat" => old[file[a]] # None
    BY <2>1 DEF MigrateRead, At, Goto, TypeInv
  <2>2. ASSUME MigrateStat(a)
        PROVE  /\ file'[a] = file[a] /\ old' = old /\ lines' = lines /\ pc[a] = "stat"
               /\ pc'[a] = "drop" => file[a] \in there
    BY <2>2 DEF MigrateStat, At, Goto, TypeInv
  <2>3. ASSUME MigrateImport(a)
        PROVE  /\ file'[a] = file[a] /\ pc'[a] = "drop" /\ lines'[file[a]] # <<>>
    BY <1>4, <2>3, Appends DEF MigrateImport, TypeInv
  <2>4. ASSUME MigrateDrop(a)
        PROVE  /\ file'[a] = file[a] /\ old'[file[a]] = None
    <3>1. file[a] \in Transcript
      BY <2>4, InHand DEF MigrateDrop, At, Reading
    <3> QED
      BY <2>4, <3>1 DEF MigrateDrop, TypeInv
  <2>5. ASSUME SaveScan(a)
        PROVE  /\ file'[a] = file[a] /\ old' = old /\ pc[a] = "scan"
    BY <2>5 DEF SaveScan, At
  <2> QED
    BY <1>2, <1>9, <2>1, <2>2, <2>3, <2>4, <2>5 DEF Lands
<1> QED
  BY <1>3, <1>8, <1>9, Moves

-----------------------------------------------------------------------------
(* What a saver has in hand. *)

\* While one saves, its history is nobody else's, but for an import into an empty one.
LEMMA TextStays ==
  ASSUME StateAssumption, TypeInv, KindInv, MuInv, Next, ~ overtaken',
         NEW a \in Goroutine, pc[a] \in SaveSteps, Same(a)
  PROVE  \/ lines'[file[a]] = lines[file[a]] /\ Newest(file[a])' = Newest(file[a])
         \/ \E b \in Actor : /\ pc[b] = "import" /\ file[b] = file[a]
                             /\ lines[file[a]] = <<>> /\ Len(lines'[file[a]]) = 1
<1>1. file[a] \in Transcript /\ Saving(a) /\ a \in Actor /\ file'[a] = file[a]
  BY InHand, Kinds DEF Saving, Same
<1>2. ASSUME NEW b \in Goroutine, pc[b] \in SaveSteps PROVE b = a
  BY <1>1, <1>2 DEF MuInv, Saving
<1>3. CASE lines' = lines
  BY <1>1, <1>3, NewestIs DEF Same
<1>4. ASSUME NEW b \in Actor, NEW x \in Line, Puts(b, x), file[b] = file[a]
      PROVE  /\ pc[b] = "import" /\ file[b] = file[a]
             /\ lines[file[a]] = <<>> /\ Len(lines'[file[a]]) = 1
  <2>1. ~ (b \in Goroutine /\ pc[b] = "append")
    BY <1>2, <1>4 DEF Puts, Same, SaveSteps
  <2>2. pc[b] = "import" /\ lines[file[a]] = <<>>
    BY <1>4, <2>1 DEF Puts
  <2>3. Len(lines'[file[a]]) = Len(lines[file[a]]) + 1
    BY <1>1, <1>4, Appends DEF Puts
  <2> QED
    BY <1>4, <2>2, <2>3
<1>5. ASSUME NEW b \in Actor, NEW x \in Line, Puts(b, x), file[b] # file[a]
      PROVE  lines'[file[a]] = lines[file[a]] /\ Newest(file[a])' = Newest(file[a])
  <2>1. lines'[file[a]] = lines[file[a]]
    BY <1>1, <1>5, Appends DEF Puts
  <2> QED
    BY <1>1, <2>1, NewestIs
<1>6. ASSUME NEW b \in Goroutine, Rewrites(b) PROVE FALSE
  BY <1>2, <1>6 DEF Rewrites, Same, SaveSteps
<1> QED
  BY <1>3, <1>4, <1>5, <1>6, HistoryChanges

LEMMA HandKeeps ==
  ASSUME StateAssumption, TypeInv, KindInv, MuInv, CleanInv, HandInv, Next, TypeInv',
         ~ overtaken'
  PROVE  HandInv'
<1> USE DEF fileVars, localVars, sessionVars, history, counts
<1> SUFFICES ASSUME NEW a \in Goroutine PROVE Hand(a)'
  BY Kinds DEF HandInv
<1>0. a \in Actor /\ Hand(a)
  BY Kinds DEF HandInv
<1>1. CASE Same(a) /\ pc[a] \in SaveSteps
  <2>0. file[a] \in Transcript /\ file[a]' = file[a] /\ snap[a] \in Snapshot
    BY <1>0, <1>1, InHand DEF Same
  <2>1. CASE lines'[file[a]] = lines[file[a]] /\ Newest(file[a])' = Newest(file[a])
    <3>1. errors + deaths >= 1 => errors' + deaths' >= 1
      BY Onwards
    <3> QED
      BY <1>0, <1>1, <2>0, <2>1, <3>1 DEF Hand, Same
  <2>2. ASSUME NEW b \in Actor, pc[b] = "import", file[b] = file[a], lines[file[a]] = <<>>,
               Len(lines'[file[a]]) = 1
        PROVE  Hand(a)'
    <3>1. pc[a] # "bind"
      <4>1. pc[a] = "bind" => Newest(file[a]) # None
        BY <1>0, <2>0, Kinds DEF Hand
      <4> QED
        BY <2>0, <2>2, <4>1, NewestTyped
    <3>2. pc[a] = "append"
      BY <1>0, <1>1, <2>2, <3>1 DEF Hand, SaveSteps
    <3>3. kept[a] = <<>>
      BY <1>0, <2>2, <3>2 DEF Hand
    <3>4. errors + deaths # 0
      BY <1>0, <2>2, <3>2 DEF CleanInv
    <3>5. errors' + deaths' >= 1
      BY <3>4, Onwards
    <3> QED
      BY <1>1, <2>0, <2>2, <3>2, <3>3, <3>5 DEF Hand, Same
  <2> QED
    BY <1>1, <2>1, <2>2, TextStays
<1>2. CASE Lands(a)
  <2>1. CASE SaveScan(a)
    <3>1. /\ pc[a] = "scan" /\ kept'[a] = lines[file[a]] /\ file'[a] = file[a]
          /\ snap'[a] = snap[a] /\ lines' = lines
          /\ pc'[a] = IF Newest(file[a]) = snap[a] THEN "bind" ELSE "append"
      BY <1>0, <2>1 DEF SaveScan, At, Goto, TypeInv
    <3>2. file[a] \in Transcript
      BY <1>0, <3>1, InHand DEF Reading
    <3>3. Newest(file[a])' = Newest(file[a])
      BY <3>1, <3>2, NewestIs
    <3> QED
      BY <3>1, <3>3 DEF Hand
  <2>2. CASE SaveAppend(a)
    <3>1. /\ pc[a] = "append" /\ lines' = Appended(file[a], snap[a]) /\ file'[a] = file[a]
          /\ snap'[a] = snap[a] /\ pc'[a] \in {"compact", "bind"}
      BY <1>0, <2>2 DEF SaveAppend, At, Goto, TypeInv
    <3>2. file[a] \in Transcript /\ snap[a] \in Snapshot
      BY <1>0, <3>1, InHand DEF SaveSteps
    <3>3. /\ lines'[file[a]] # <<>> /\ lines'[file[a]][Len(lines'[file[a]])] = snap[a]
          /\ Newest(file[a])' = snap[a]
      BY <3>1, <3>2, Appends, Kinds DEF Line
    <3> QED
      BY <3>1, <3>3 DEF Hand
  <2>3. CASE CompactRead(a)
    <3>1. /\ pc[a] = "compact" /\ file'[a] = file[a] /\ snap'[a] = snap[a] /\ lines' = lines
          /\ \/ Len(lines[file[a]]) <= MaxState /\ pc'[a] = "bind"
             \/ /\ ~ (Len(lines[file[a]]) <= MaxState) /\ pc'[a] = "rename"
                /\ kept'[a] = NewestLines(lines[file[a]])
      BY <1>0, <2>3 DEF CompactRead, At, Goto, TypeInv
    <3>2. file[a] \in Transcript /\ snap[a] \in Snapshot /\ lines[file[a]] \in Seq(Line)
      BY <1>0, <3>1, InHand, Numbers DEF SaveSteps
    <3>3. lines[file[a]] # <<>> /\ lines[file[a]][Len(lines[file[a]])] = snap[a]
      BY <1>0, <3>1 DEF Hand
    <3>4. NewestOf(lines'[file[a]]) = snap[a]
      BY <3>1, <3>2, <3>3, NewestIsLast, Kinds
    <3>5. Newest(file[a])' = snap[a]
      BY <3>1, <3>2, <3>4, NewestIs
    <3>6. ~ (Len(lines[file[a]]) <= MaxState) => Len(lines[file[a]]) > MaxState
      BY <3>2, Kinds
    <3> QED
      BY <3>1, <3>3, <3>5, <3>6 DEF Hand
  <2>4. CASE CompactRename(a)
    <3>1. /\ pc[a] = "rename" /\ file'[a] = file[a] /\ snap'[a] = snap[a] /\ pc'[a] = "bind"
          /\ lines' = [lines EXCEPT ![file[a]] = kept[a]]
      BY <1>0, <2>4 DEF CompactRename, At, Goto, TypeInv
    <3>2. file[a] \in Transcript /\ snap[a] \in Snapshot /\ lines[file[a]] \in Seq(Line)
      BY <1>0, <3>1, InHand, Numbers DEF SaveSteps
    <3>3. /\ lines[file[a]][Len(lines[file[a]])] = snap[a]
          /\ kept[a] = NewestLines(lines[file[a]]) /\ Len(lines[file[a]]) > MaxState
      BY <1>0, <3>1 DEF Hand
    <3>4. /\ kept[a] \in Seq(Line) /\ kept[a] # <<>> /\ Len(kept[a]) = MaxState
          /\ kept[a][MaxState] = snap[a]
      BY <3>2, <3>3, NewestLinesKeep
    <3>5. lines'[file[a]] = kept[a]
      BY <3>1, <3>2 DEF TypeInv
    <3>6. NewestOf(kept[a]) = snap[a]
      BY <3>1, <3>2, <3>4, NewestIsLast, Kinds
    <3>7. Newest(file[a])' = snap[a]
      BY <3>1, <3>2, <3>5, <3>6, NewestIs
    <3> QED
      BY <3>1, <3>7 DEF Hand
  <2>5. CASE pc'[a] \notin SaveSteps
    BY <2>5 DEF Hand, SaveSteps
  <2> QED
    BY <1>2, <2>1, <2>2, <2>3, <2>4, <2>5 DEF Lands, SaveSteps
<1>3. CASE Same(a) /\ pc[a] \notin SaveSteps
  BY <1>3 DEF Same, Hand, SaveSteps
<1>4. CASE Die
  <2>1. pc'[a] = "idle"
    BY <1>0, <1>4 DEF Die
  <2> QED
    BY <2>1 DEF Hand
<1> QED
  BY <1>0, <1>1, <1>2, <1>3, <1>4, Moves

\* Who is writing goes on writing, or fails, or dies.
LEMMA Leaves ==
  ASSUME StateAssumption, TypeInv, KindInv, Next, NEW b \in Goroutine, pc[b] \in SaveSteps
  PROVE  \/ Same(b) \/ SaveAppend(b) \/ CompactRead(b) \/ CompactRename(b) \/ SaveBind(b)
         \/ SaveFails(b) \/ Die
<1> USE DEF At, SaveSteps
<1>0. b \in Actor /\ b \notin Reader
  BY Kinds
<1>1. ASSUME NEW a \in Actor, Still(a), a # b PROVE Same(b)
  BY <1>0, <1>1 DEF Still, Same
<1>2. ASSUME NEW a \in Goroutine, Edit(a) \/ SaveName(a) \/ SaveLock(a) \/ SaveScan(a)
      PROVE  Same(b)
  <2>1. a \in Actor /\ Still(a) /\ a # b
    BY <1>2, Kinds, OthersStill DEF Edit, SaveName, SaveLock, SaveScan
  <2> QED
    BY <1>1, <2>1
<1>3. ASSUME NEW a \in Goroutine,
             \/ SaveAppend(a) \/ CompactRead(a) \/ CompactRename(a) \/ SaveBind(a)
             \/ SaveFails(a)
      PROVE  a = b \/ Same(b)
  <2>1. a \in Actor /\ Still(a)
    BY <1>3, Kinds, OthersStill
  <2> QED
    BY <1>1, <2>1
<1>4. ASSUME NEW a \in Actor,
             MigrateRead(a) \/ MigrateStat(a) \/ MigrateImport(a) \/ MigrateDrop(a)
      PROVE  Same(b)
  <2>1. Still(a) /\ a # b
    BY <1>4, OthersStill DEF MigrateRead, MigrateStat, MigrateImport, MigrateDrop
  <2> QED
    BY <1>1, <2>1
<1>5. ASSUME NEW e \in Event, RunEnds(e) PROVE Same(b)
  <2>1. e \in Actor /\ Still(e) /\ e # b
    BY <1>5, Kinds, OthersStill DEF RunEnds
  <2> QED
    BY <1>1, <2>1
<1>6. ASSUME \/ Switch \/ SwitchEmpty \/ Load \/ Adopt \/ Sync \/ NewSession
             \/ NewSessionEmpty \/ Close \/ Reopen
      PROVE  Same(b)
  <2>1. Commander \in Actor /\ Still(Commander)
    BY <1>6, Kinds, OthersStill
  <2>2. Commander = b => FALSE
    BY <1>6, Kinds DEF Switch, SwitchEmpty, Load, Adopt, Sync, NewSession, NewSessionEmpty,
       Close, Reopen
  <2> QED
    BY <1>1, <2>1, <2>2
<1>7. ASSUME NEW r \in Reader, Peek(r) \/ PeekDone(r) PROVE Same(b)
  <2>1. r \in Actor /\ Still(r)
    BY <1>7, Kinds, OthersStill
  <2> QED
    BY <1>0, <1>1, <2>1
<1> QED
  BY <1>2, <1>3, <1>4, <1>5, <1>6, <1>7, NextSteps

\* A failure or a death has been counted.
LEMMA FaultCounts ==
  ASSUME StateAssumption, TypeInv, Next, TypeInv', Die \/ \E a \in Goroutine : SaveFails(a)
  PROVE  errors' + deaths' = errors + deaths + 1
<1>1. errors \in Nat /\ deaths \in Nat
  BY Onwards
<1>2. \/ errors' = errors + 1 /\ deaths' = deaths
      \/ errors' = errors /\ deaths' = deaths + 1
  BY DEF Die, SaveFails, WriteFails
<1> QED
  BY <1>1, <1>2

\* A history is no longer than its limit, but for faults and the line that a
\* rewrite is to follow.
LEMMA LengthKeeps ==
  ASSUME StateAssumption, TypeInv, KindInv, MuInv, HandInv, LengthInv, Next, TypeInv',
         ~ overtaken'
  PROVE  LengthInv'
<1> USE DEF fileVars, localVars, sessionVars, history, counts
<1> DEFINE e == errors + deaths
           f == errors' + deaths'
<1> SUFFICES ASSUME NEW t \in Transcript
             PROVE  /\ Len(lines'[t]) <= MaxState + 1 + f
                    /\ \/ Len(lines'[t]) <= MaxState + f
                       \/ \E a \in Goroutine : pc'[a] \in {"compact", "rename"} /\ file'[a] = t
  BY DEF LengthInv
<1>0. /\ MaxState \in Nat /\ MaxState >= 1 /\ e \in Nat /\ f \in Nat /\ e <= f
      /\ Len(lines[t]) \in Nat /\ Len(lines'[t]) \in Nat
  <2>1. MaxState \in Nat /\ MaxState >= 1
    BY Kinds
  <2>2. e \in Nat /\ f \in Nat /\ e <= f
    BY Onwards
  <2>3. Len(lines[t]) \in Nat
    BY DEF TypeInv
  <2>4. Len(lines'[t]) \in Nat
    BY DEF TypeInv
  <2> QED
    BY <2>1, <2>2, <2>3, <2>4
<1>1. /\ Len(lines[t]) <= MaxState + 1 + e
      /\ \/ Len(lines[t]) <= MaxState + e
         \/ \E a \in Goroutine : pc[a] \in {"compact", "rename"} /\ file[a] = t
  BY DEF LengthInv
<1>2. (Die \/ \E a \in Goroutine : SaveFails(a)) => f = e + 1
  BY FaultCounts
<1> HIDE DEF e, f
<1>3. ASSUME Len(lines'[t]) <= Len(lines[t]), Len(lines[t]) <= MaxState + e
      PROVE  Len(lines'[t]) <= MaxState + f /\ Len(lines'[t]) <= MaxState + 1 + f
  BY <1>0, <1>3
<1>4. ASSUME NEW a \in Goroutine, CompactRename(a), file[a] = t
      PROVE  Len(lines'[t]) = MaxState
  <2>1. a \in Actor /\ pc[a] = "rename" /\ lines' = [lines EXCEPT ![t] = kept[a]]
    BY <1>4, Kinds DEF CompactRename, At
  <2>2. lines[t] \in Seq(Line) /\ kept[a] = NewestLines(lines[t]) /\ Len(lines[t]) > MaxState
    BY <1>4, <2>1, Numbers DEF HandInv, Hand
  <2>3. Len(kept[a]) = MaxState
    BY <2>2, NewestLinesKeep
  <2> QED
    BY <2>1, <2>3 DEF TypeInv
<1>5. ASSUME NEW a \in Goroutine, pc[a] \in {"compact", "rename"}, file[a] = t,
             lines'[t] = lines[t]
      PROVE  /\ Len(lines'[t]) <= MaxState + 1 + f
             /\ \/ Len(lines'[t]) <= MaxState + f
                \/ \E b \in Goroutine : pc'[b] \in {"compact", "rename"} /\ file'[b] = t
  <2>1. CASE Same(a)
    BY <1>0, <1>1, <1>5, <2>1 DEF Same
  <2>2. CASE SaveFails(a) \/ Die
    <3>1. f = e + 1
      BY <1>2, <2>2
    <3> QED
      BY <1>0, <1>1, <1>5, <3>1
  <2>3. CASE CompactRead(a)
    <3>1. a \in Actor /\ file'[a] = t
      BY <1>5, <2>3, Kinds DEF CompactRead
    <3>2. pc'[a] = "rename" \/ Len(lines[t]) <= MaxState
      BY <1>5, <2>3, <3>1 DEF CompactRead, Goto, TypeInv
    <3> QED
      BY <1>0, <1>1, <1>5, <3>1, <3>2
  <2>4. CASE CompactRename(a)
    BY <1>0, <1>4, <1>5, <2>4
  <2> QED
    BY <1>5, <2>1, <2>2, <2>3, <2>4, Leaves DEF SaveAppend, SaveBind, At, SaveSteps
<1>6. CASE lines'[t] = lines[t]
  BY <1>0, <1>1, <1>3, <1>5, <1>6
<1>7. ASSUME NEW b \in Actor, NEW x \in Line, Puts(b, x), file[b] = t
      PROVE  /\ Len(lines'[t]) <= MaxState + 1 + f
             /\ \/ Len(lines'[t]) <= MaxState + f
                \/ \E a \in Goroutine : pc'[a] \in {"compact", "rename"} /\ file'[a] = t
  <2>1. Len(lines'[t]) = Len(lines[t]) + 1
    BY <1>7, Appends DEF Puts
  <2>2. CASE pc[b] = "import" /\ lines[t] = <<>>
    BY <1>0, <2>1, <2>2
  <2>3. CASE b \in Goroutine /\ pc[b] = "append"
    <3>1. \A a \in Goroutine : pc[a] \in {"compact", "rename"} => FALSE
      BY <2>3 DEF MuInv, Saving, SaveSteps
    <3>2. Len(lines[t]) <= MaxState + e
      BY <1>1, <3>1
    <3>3. CASE SaveFails(b) \/ Die
      <4>1. f = e + 1
        BY <1>2, <2>3, <3>3
      <4> QED
        BY <1>0, <2>1, <3>2, <4>1
    <3>4. CASE SaveAppend(b)
      <4>1. /\ file'[b] = t
            /\ pc'[b] = IF Len(kept[b]) + 1 > MaxState THEN "compact" ELSE "bind"
        BY <1>7, <3>4 DEF SaveAppend, Goto, TypeInv
      <4>2. kept[b] = lines[t] \/ (Len(lines[t]) = 1 /\ e >= 1)
        BY <1>7, <2>3 DEF HandInv, Hand, e
      <4>3. CASE kept[b] = lines[t]
        BY <1>0, <2>1, <2>3, <3>2, <4>1, <4>3
      <4>4. CASE Len(lines[t]) = 1 /\ e >= 1
        BY <1>0, <2>1, <4>4
      <4> QED
        BY <4>2, <4>3, <4>4
    <3> QED
      BY <1>7, <2>3, <3>3, <3>4, Leaves
         DEF SaveSteps, Puts, Same, CompactRead, CompactRename, SaveBind, At
  <2>4. pc[b] = "import" => lines[t] = <<>>
    BY <1>7 DEF Puts
  <2> QED
    BY <1>7, <2>2, <2>3, <2>4 DEF Puts
<1>8. ASSUME NEW b \in Actor, NEW x \in Line, Puts(b, x), file[b] # t
      PROVE  lines'[t] = lines[t]
  BY <1>8, Appends DEF Puts
<1>9. ASSUME NEW b \in Goroutine, Rewrites(b)
      PROVE  lines'[t] = lines[t] \/ Len(lines'[t]) = MaxState
  <2>1. b \in Actor /\ pc[b] = "rename" /\ file[b] \in Transcript
    BY <1>9, Kinds DEF Rewrites
  <2>2. CASE file[b] = t
    <3>1. lines[t] \in Seq(Line) /\ kept[b] = NewestLines(lines[t]) /\ Len(lines[t]) > MaxState
      BY <2>1, <2>2, Numbers DEF HandInv, Hand
    <3>2. Len(kept[b]) = MaxState
      BY <3>1, NewestLinesKeep
    <3> QED
      BY <1>9, <2>2, <3>2 DEF Rewrites, TypeInv
  <2>3. CASE file[b] # t
    BY <1>9, <2>1, <2>3 DEF Rewrites, TypeInv
  <2> QED
    BY <2>2, <2>3
<1>10. CASE Len(lines'[t]) = MaxState
  BY <1>0, <1>10
<1> QED
  BY <1>6, <1>7, <1>8, <1>9, <1>10, HistoryChanges

\* A rewrite puts the newest line last.
LEMMA RewriteKeeps ==
  ASSUME StateAssumption, TypeInv, KindInv, HandInv, NEW a \in Goroutine, Rewrites(a)
  PROVE  /\ \A t \in Transcript : t # file[a] => lines'[t] = lines[t] /\ Newest(t)' = Newest(t)
         /\ \A t \in Transcript : t = file[a] => Newest(t)' = snap[a]
<1>1. /\ a \in Actor /\ pc[a] = "rename" /\ file[a] \in Transcript
      /\ lines' = [lines EXCEPT ![file[a]] = kept[a]] /\ snap[a] \in Snapshot
  BY InHand, Kinds DEF Rewrites, SaveSteps
<1>2. \A t \in Transcript : t # file[a] => lines'[t] = lines[t]
  BY <1>1 DEF TypeInv
<1>3. /\ lines[file[a]] \in Seq(Line)
      /\ lines[file[a]][Len(lines[file[a]])] = snap[a]
      /\ kept[a] = NewestLines(lines[file[a]]) /\ Len(lines[file[a]]) > MaxState
  BY <1>1, Numbers DEF HandInv, Hand
<1>4. /\ kept[a] \in Seq(Line) /\ kept[a] # <<>> /\ Len(kept[a]) = MaxState
      /\ kept[a][MaxState] = snap[a]
  BY <1>3, NewestLinesKeep
<1>5. NewestOf(kept[a]) = snap[a]
  BY <1>1, <1>4, NewestIsLast, Kinds
<1>6. \A t \in Transcript : t = file[a] => lines'[t] = kept[a]
  BY <1>1 DEF TypeInv
<1> QED
  BY <1>2, <1>5, <1>6, NewestIs

\* Who has saveMu keeps the snapshot it has taken.
LEMMA HolderKeeps ==
  ASSUME StateAssumption, TypeInv, KindInv, MuInv, Next, MuInv', TypeInv',
         saveMu # None, saveMu' = saveMu
  PROVE  /\ saveMu \in Goroutine /\ saveMu \in Actor /\ Saving(saveMu)
         /\ snap'[saveMu] = snap[saveMu] /\ snap[saveMu] \in Snapshot
<1> USE DEF fileVars, localVars, sessionVars, history, counts
<1>0. saveMu \in Goroutine
  BY DEF TypeInv
<1> PICK h \in Goroutine : saveMu = h
  BY <1>0
<1>1. h \in Actor /\ saveMu' = h /\ h # None
  BY Kinds
<1>2. Saving(h) /\ pc'[h] \in SaveSteps \cup Reading /\ (pc'[h] \in Reading => call'[h] = "save")
  BY <1>1 DEF MuInv, Saving, SaveSteps, Reading
<1>3. snap[h] \in Snapshot
  BY <1>1, <1>2 DEF KindInv, KindOf
<1>4. h \notin Reader /\ (h = Commander => pc[h] # "empty")
  BY <1>1, <1>2, Kinds DEF Saving, SaveSteps, Reading
<1>5. ~ Die
  BY <1>1, Kinds DEF Die
<1>6. CASE Lands(h)
  <2>1. pc'[h] \in SaveSteps => snap'[h] = snap[h]
    BY <1>6 DEF Lands, SaveSteps, SaveScan, SaveAppend, CompactRead, CompactRename
  <2>2. pc'[h] \in {"stat", "import", "drop", "scan"} => snap'[h] = snap[h]
    BY <1>6 DEF Lands, MigrateRead, MigrateStat, MigrateImport, MigrateDrop
  <2>3. pc'[h] # "read"
    BY <1>1, <1>4, <1>6, Kinds DEF Lands, SaveLock, SwitchEmpty, At
  <2> QED
    BY <1>1, <1>2, <1>3, <2>1, <2>2, <2>3 DEF Reading
<1> QED
  BY <1>1, <1>2, <1>3, <1>5, <1>6, Moves DEF Same

\* saveMu is somebody's whose save goes on, or a save has begun or ended.
LEMMA SaveMuMoves ==
  ASSUME StateAssumption, TypeInv, Next
  PROVE  saveMu' = saveMu \/ saveMu' = None \/ \E a \in Goroutine : SaveLock(a) /\ ~ closed
<1> USE DEF fileVars, localVars, sessionVars, history, counts
<1>1. saveMu' = saveMu \/ saveMu' = None \/ \E a \in Goroutine : SaveLock(a)
  BY NextSteps
     DEF Edit, SaveName, MigrateRead, MigrateStat, MigrateImport, MigrateDrop, SaveScan,
         SaveAppend, CompactRead, CompactRename, SaveBind, SaveFails, RunEnds, Switch,
         SwitchEmpty, Load, Adopt, Sync, NewSession, NewSessionEmpty, Close, Reopen, Peek,
         PeekDone, Die, WriteFails, StartReading
<1>2. ASSUME NEW a \in Goroutine, SaveLock(a), closed PROVE saveMu' = saveMu
  BY <1>2 DEF SaveLock
<1> QED
  BY <1>1, <1>2

\* A save that has returned is on disk where the handle leads.
LEMMA AckKeeps ==
  ASSUME StateAssumption, TypeInv, KindInv, MuInv, EditInv, HandInv, AckInv, Next,
         TypeInv', MuInv', ~ overtaken'
  PROVE  AckInv'
<1> USE DEF fileVars, localVars, sessionVars, history, counts
<1>0. /\ acked \in Int /\ acked' \in Int /\ state.n \in Int /\ state'.n \in Int
      /\ handle \in Transcript /\ handle' \in Transcript
      /\ edits \in Int /\ state.n <= edits
  BY DEF TypeInv, Snapshot, EditInv
<1>1. (acked' = acked /\ handle' = handle) \/ \E a \in Goroutine : SaveBind(a)
  BY NextSteps
     DEF Edit, SaveName, SaveLock, MigrateRead, MigrateStat, MigrateImport, MigrateDrop,
         SaveScan, SaveAppend, CompactRead, CompactRename, SaveFails, RunEnds, Switch,
         SwitchEmpty, Load, Adopt, Sync, NewSession, NewSessionEmpty, Close, Reopen, Peek,
         PeekDone, Die, StartReading, WriteFails
<1>2. ~ closed => state'.n >= state.n
  <2>1. state'.n = state.n \/ (\E a \in Goroutine : Edit(a)) \/ Reopen
    BY NextSteps
       DEF SaveName, SaveLock, MigrateRead, MigrateStat, MigrateImport, MigrateDrop,
           SaveScan, SaveAppend, CompactRead, CompactRename, SaveBind, SaveFails, RunEnds,
           Switch, SwitchEmpty, Load, Adopt, Sync, NewSession, NewSessionEmpty, Close, Peek,
           PeekDone, Die, StartReading, WriteFails, TypeInv, Snapshot
  <2>2. ASSUME NEW a \in Goroutine, Edit(a) PROVE state'.n = edits + 1
    BY <2>2 DEF Edit, TypeInv, Snapshot
  <2> QED
    BY <1>0, <2>1, <2>2 DEF Reopen
<1>3. ASSUME NEW a \in Goroutine, SaveBind(a)
      PROVE  /\ saveMu = a /\ snap[a] \in Snapshot /\ file[a] \in Transcript /\ ~ closed
             /\ acked' = snap[a].n /\ handle' = file[a] /\ saveMu' = None
             /\ state' = state /\ lines' = lines /\ closed' = closed
  <2>1. a \in Actor /\ pc[a] = "bind"
    BY <1>3, Kinds DEF SaveBind, At
  <2>2. saveMu = a /\ snap[a] \in Snapshot /\ file[a] \in Transcript
    BY <2>1, InHand DEF MuInv, Saving, SaveSteps
  <2>3. ~ closed
    BY <2>2, Kinds DEF MuInv
  <2> QED
    BY <1>3, <2>2, <2>3 DEF SaveBind
<1>4. ~ closed' => acked' <= state'.n
  <2>1. ASSUME NEW a \in Goroutine, SaveBind(a) PROVE acked' <= state'.n
    BY <1>3, <2>1, Kinds DEF AckInv
  <2>2. CASE closed /\ ~ closed' /\ acked' = acked
    <3>1. Reopen
      BY <2>2, NextSteps
         DEF Edit, SaveName, SaveLock, MigrateRead, MigrateStat, MigrateImport, MigrateDrop,
             SaveScan, SaveAppend, CompactRead, CompactRename, SaveBind, SaveFails, RunEnds,
             Switch, SwitchEmpty, Load, Adopt, Sync, NewSession, NewSessionEmpty, Close,
             Peek, PeekDone, Die, StartReading, WriteFails
    <3> QED
      BY <1>0, <2>2, <3>1 DEF Reopen, AckInv
  <2>3. CASE ~ closed /\ acked' = acked
    BY <1>0, <1>2, <2>3 DEF AckInv
  <2> QED
    BY <1>1, <2>1, <2>2, <2>3
<1>5. saveMu' # None => acked' <= snap'[saveMu'].n /\ snap'[saveMu'].n <= state'.n
  <2>1. CASE saveMu' = saveMu /\ saveMu # None
    <3>1. snap'[saveMu] = snap[saveMu] /\ snap[saveMu] \in Snapshot
      BY <2>1, HolderKeeps
    <3>2. acked' = acked
      BY <1>1, <1>3, <2>1
    <3>3. ~ closed /\ snap[saveMu].n \in Int
      BY <2>1, <3>1 DEF MuInv, Snapshot
    <3> QED
      BY <1>0, <1>2, <2>1, <3>1, <3>2, <3>3 DEF AckInv
  <2>2. ASSUME NEW a \in Goroutine, SaveLock(a), ~ closed
        PROVE  acked' <= snap'[saveMu'].n /\ snap'[saveMu'].n <= state'.n
    <3>1. saveMu' = a /\ snap'[a] = state /\ acked' = acked /\ state' = state
      BY <2>2, Kinds DEF SaveLock, TypeInv
    <3> QED
      BY <1>0, <2>2, <3>1 DEF AckInv
  <2> QED
    BY <2>1, <2>2, SaveMuMoves
<1>6. Newest(handle)' # None /\ Newest(handle)'.n >= acked'
  <2>1. ASSUME NEW a \in Goroutine, SaveBind(a)
        PROVE  Newest(handle)' # None /\ Newest(handle)'.n >= acked'
    <3>1. Newest(file[a]) = snap[a]
      BY <2>1 DEF SaveBind, At, HandInv, Hand
    <3>2. Newest(handle)' = snap[a]
      BY <1>3, <2>1, <3>1, NewestIs
    <3>3. snap[a] # None /\ snap[a].n \in Int
      BY <1>3, <2>1, Kinds DEF Snapshot
    <3> QED
      BY <1>3, <2>1, <3>2, <3>3
  <2>2. CASE acked' = acked /\ handle' = handle
    <3>0. Newest(handle) # None /\ Newest(handle).n >= acked
      BY DEF AckInv
    <3>1. ASSUME NEW b \in Goroutine, Saving(b)
          PROVE  snap[b] \in Snapshot /\ snap[b].n >= acked /\ snap[b] # None
      <4>1. saveMu = b /\ saveMu # None /\ b \in Actor
        BY <3>1, Kinds DEF MuInv
      <4>2. snap[b] \in Snapshot
        BY <3>1, <4>1 DEF KindInv, KindOf
      <4> QED
        BY <1>0, <4>1, <4>2, Kinds DEF AckInv, Snapshot
    <3>2. CASE Newest(handle)' = Newest(handle)
      BY <2>2, <3>0, <3>2
    <3>3. ASSUME NEW b \in Goroutine, Saving(b), Newest(handle)' = snap[b]
          PROVE  Newest(handle)' # None /\ Newest(handle)'.n >= acked'
      BY <2>2, <3>1, <3>3
    <3>4. CASE lines' = lines
      BY <1>0, <2>2, <3>2, <3>4, NewestIs
    <3>5. ASSUME NEW b \in Actor, NEW x \in Line, Puts(b, x)
          PROVE  \/ Newest(handle)' = Newest(handle)
                 \/ b \in Goroutine /\ Saving(b) /\ Newest(handle)' = snap[b]
      <4>1. CASE file[b] # handle
        BY <1>0, <2>2, <3>5, <4>1, Appends DEF Puts
      <4>2. CASE file[b] = handle
        <5>1. Newest(handle)' = IF x = Torn THEN Newest(handle) ELSE x
          BY <1>0, <2>2, <3>5, <4>2, Appends DEF Puts
        <5>2. pc[b] # "import"
          <6>1. lines[handle] # <<>>
            BY <1>0, <3>0, NewestTyped
          <6> QED
            BY <3>5, <4>2, <6>1 DEF Puts
        <5> QED
          BY <3>5, <5>1, <5>2 DEF Puts, Saving, SaveSteps
      <4> QED
        BY <4>1, <4>2
    <3>6. ASSUME NEW b \in Goroutine, Rewrites(b)
          PROVE  Newest(handle)' = Newest(handle) \/ (Saving(b) /\ Newest(handle)' = snap[b])
      BY <1>0, <2>2, <3>6, RewriteKeeps DEF Rewrites, Saving, SaveSteps
    <3> QED
      BY <3>2, <3>3, <3>4, <3>5, <3>6, HistoryChanges
  <2> QED
    BY <1>1, <2>1, <2>2
<1> QED
  BY <1>4, <1>5, <1>6 DEF AckInv

\* Who has a save before it comes to it, or ends with the session.
LEMMA WaitsByStep ==
  ASSUME StateAssumption, TypeInv, KindInv, NEW a \in Goroutine, Waiting(a),
         \/ Edit(a) \/ SaveName(a) \/ SaveLock(a) \/ SaveScan(a)
         \/ SaveAppend(a) \/ CompactRead(a) \/ CompactRename(a) \/ SaveBind(a) \/ SaveFails(a)
         \/ MigrateRead(a) \/ MigrateStat(a) \/ MigrateImport(a) \/ MigrateDrop(a)
         \/ RunEnds(a)
         \/ /\ a = Commander
            /\ \/ Switch \/ SwitchEmpty \/ Load \/ Adopt \/ Sync \/ NewSession
               \/ NewSessionEmpty \/ Close \/ Reopen
  PROVE  /\ Waiting(a)' \/ SaveLock(a) \/ closed
         /\ a = Commander /\ MidSwitch => MidSwitch' \/ Adopt \/ Sync
<1> USE DEF Waiting, MidSwitch, Goto, At, TypeInv, Reading
<1>0. a \in Actor /\ KindOf(a)
  BY Kinds DEF KindInv
<1>1. CASE Edit(a)
  BY <1>0, <1>1, Kinds DEF Edit, KindOf, localVars
<1>2. CASE SaveName(a)
  BY <1>0, <1>2, Kinds DEF SaveName, Return, KindOf, localVars
<1>3. CASE SaveLock(a)
  BY <1>3 DEF SaveLock
<1>4. CASE MigrateRead(a)
  BY <1>0, <1>4, Kinds DEF MigrateRead, KindOf, localVars
<1>5. CASE MigrateStat(a)
  BY <1>0, <1>5, Kinds DEF MigrateStat, KindOf, localVars
<1>6. CASE MigrateImport(a)
  BY <1>0, <1>6, Kinds DEF MigrateImport, KindOf, localVars
<1>7. CASE MigrateDrop(a)
  BY <1>0, <1>7, Kinds DEF MigrateDrop, KindOf, localVars
<1>8. CASE SaveScan(a)
  BY <1>0, <1>8, Kinds DEF SaveScan, KindOf, localVars
<1>9. CASE SaveAppend(a)
  BY <1>0, <1>9, Kinds DEF SaveAppend, KindOf, localVars
<1>10. CASE CompactRead(a)
  BY <1>0, <1>10, Kinds DEF CompactRead, KindOf, localVars
<1>11. CASE CompactRename(a)
  BY <1>0, <1>11, Kinds DEF CompactRename, KindOf, localVars
<1>12. CASE SaveBind(a)
  BY <1>0, <1>12, Kinds DEF SaveBind, Return, KindOf, localVars
<1>13. CASE SaveFails(a)
  BY <1>0, <1>13, Kinds DEF SaveFails, Return, KindOf, localVars
<1>14. CASE RunEnds(a)
  BY <1>0, <1>14, Kinds DEF RunEnds, KindOf, localVars
<1>15. CASE a = Commander /\ Switch
  BY <1>0, <1>15, Kinds DEF Switch, KindOf, localVars
<1>16. CASE a = Commander /\ SwitchEmpty
  BY <1>0, <1>16, Kinds DEF SwitchEmpty, StartReading, KindOf, localVars
<1>17. CASE a = Commander /\ Load
  BY <1>0, <1>17, Kinds DEF Load, KindOf, localVars
<1>18. CASE a = Commander /\ Adopt
  BY <1>0, <1>18, Kinds DEF Adopt, KindOf, localVars
<1>19. CASE a = Commander /\ Sync
  BY <1>0, <1>19, Kinds DEF Sync, KindOf, localVars
<1>20. CASE a = Commander /\ NewSession
  BY <1>0, <1>20, Kinds DEF NewSession, KindOf, localVars
<1>21. CASE a = Commander /\ NewSessionEmpty
  BY <1>0, <1>21, Kinds DEF NewSessionEmpty, KindOf, localVars
<1>22. CASE a = Commander /\ Close
  BY <1>0, <1>22, Kinds DEF Close, KindOf, localVars
<1>23. CASE a = Commander /\ Reopen
  BY <1>0, <1>23, Kinds DEF Reopen, KindOf, localVars
<1> QED
  BY <1>1, <1>2, <1>3, <1>4, <1>5, <1>6, <1>7, <1>8, <1>9, <1>10, <1>11, <1>12, <1>13, <1>14,
     <1>15, <1>16, <1>17, <1>18, <1>19, <1>20, <1>21, <1>22, <1>23

LEMMA Waits ==
  ASSUME StateAssumption, TypeInv, KindInv, Next, NEW a \in Goroutine, Waiting(a)
  PROVE  /\ Waiting(a)' \/ SaveLock(a) \/ closed \/ Die
         /\ a = Commander /\ MidSwitch => MidSwitch' \/ Adopt \/ Sync \/ Die
<1> DEFINE Goes == /\ Waiting(a)' \/ SaveLock(a) \/ closed
                   /\ a = Commander /\ MidSwitch => MidSwitch' \/ Adopt \/ Sync
<1>0. a \in Actor /\ a \notin Reader
  BY Kinds
<1>1. ASSUME NEW b \in Actor, Still(b), b # a PROVE Goes
  BY <1>0, <1>1 DEF Still, Waiting, MidSwitch
<1>2. ASSUME NEW b \in Goroutine,
             \/ Edit(b) \/ SaveName(b) \/ SaveLock(b) \/ SaveScan(b) \/ SaveAppend(b)
             \/ CompactRead(b) \/ CompactRename(b) \/ SaveBind(b) \/ SaveFails(b)
      PROVE  Goes
  <2>1. b \in Actor /\ Still(b)
    BY <1>2, Kinds, OthersStill
  <2> QED
    BY <1>1, <1>2, <2>1, WaitsByStep
<1>3. ASSUME NEW b \in Actor,
             MigrateRead(b) \/ MigrateStat(b) \/ MigrateImport(b) \/ MigrateDrop(b)
      PROVE  Goes
  <2>1. Still(b)
    BY <1>3, OthersStill
  <2> QED
    BY <1>1, <1>3, <2>1, WaitsByStep
<1>4. ASSUME NEW e \in Event, RunEnds(e) PROVE Goes
  <2>1. e \in Actor /\ Still(e)
    BY <1>4, Kinds, OthersStill
  <2> QED
    BY <1>1, <1>4, <2>1, WaitsByStep
<1>5. ASSUME \/ Switch \/ SwitchEmpty \/ Load \/ Adopt \/ Sync \/ NewSession
             \/ NewSessionEmpty \/ Close \/ Reopen
      PROVE  Goes
  <2>1. Commander \in Actor /\ Still(Commander)
    BY <1>5, Kinds, OthersStill
  <2> QED
    BY <1>1, <1>5, <2>1, WaitsByStep
<1>6. ASSUME NEW r \in Reader, Peek(r) \/ PeekDone(r) PROVE Goes
  <2>1. r \in Actor /\ Still(r)
    BY <1>6, Kinds, OthersStill
  <2> QED
    BY <1>0, <1>1, <2>1
<1> QED
  BY <1>2, <1>3, <1>4, <1>5, <1>6, NextSteps

\* The settings are on disk, or a save of them is under way or to come.
LEMMA SavedKeeps ==
  ASSUME StateAssumption, TypeInv, KindInv, MuInv, HandInv, SavedInv, Next,
         TypeInv', MuInv', ~ overtaken'
  PROVE  SavedInv'
<1> USE DEF fileVars, localVars, sessionVars, history, counts
<1> SUFFICES ASSUME ~ closed'
             PROVE  /\ saveMu' # None =>
                         snap'[saveMu'] = state' \/ \E a \in Goroutine : Waiting(a)'
                    /\ saveMu' = None =>
                         \/ astray'
                         \/ (handle' = current' /\ Newest(current)' = state')
                         \/ \E a \in Goroutine : Waiting(a)'
  BY DEF SavedInv
<1>0. handle \in Transcript /\ current \in Transcript /\ state \in Snapshot /\ state # None
  BY Kinds DEF TypeInv
<1>1. ~ Die
  BY DEF Die
<1>2. CASE \E a \in Goroutine : Waiting(a)'
  BY <1>2
<1>3. ASSUME NEW a \in Goroutine, SaveLock(a), ~ closed
      PROVE  saveMu' = a /\ a # None /\ snap'[a] = state /\ state' = state
  BY <1>3, Kinds DEF SaveLock, TypeInv
<1>4. CASE Reopen
  <2>1. pc'[Commander] = "name" /\ Commander \in Goroutine
    BY <1>4, Kinds DEF Reopen, Goto, TypeInv
  <2> QED
    BY <2>1 DEF Waiting
<1>5. CASE closed
  <2>1. Reopen
    BY <1>5, NextSteps
       DEF Edit, SaveName, SaveLock, MigrateRead, MigrateStat, MigrateImport, MigrateDrop,
           SaveScan, SaveAppend, CompactRead, CompactRename, SaveBind, SaveFails, RunEnds,
           Switch, SwitchEmpty, Load, Adopt, Sync, NewSession, NewSessionEmpty, Close, Peek,
           PeekDone, Die, StartReading, WriteFails
  <2> QED
    BY <1>4, <2>1
<1>6. CASE ~ closed /\ (\E a \in Goroutine : Waiting(a)) /\ ~ \E a \in Goroutine : SaveLock(a)
  BY <1>1, <1>6, Waits
<1>7. SUFFICES ASSUME ~ closed, ~ (\E a \in Goroutine : Waiting(a)'),
                      ~ (\E a \in Goroutine : SaveLock(a)), ~ (\E a \in Goroutine : Waiting(a))
               PROVE  /\ saveMu' # None => snap'[saveMu'] = state'
                      /\ saveMu' = None =>
                           astray' \/ (handle' = current' /\ Newest(current)' = state')
  BY <1>2, <1>3, <1>5, <1>6
<1>8. /\ saveMu # None => snap[saveMu] = state
      /\ saveMu = None => astray \/ (handle = current /\ Newest(current) = state)
  BY <1>7 DEF SavedInv
<1>9. ASSUME NEW a \in Goroutine, SaveFails(a) PROVE astray' /\ saveMu' = None
  BY <1>9 DEF SaveFails
<1>10. ASSUME NEW a \in Goroutine, SaveBind(a)
       PROVE  saveMu' = None /\ (astray' \/ (handle' = current' /\ Newest(current)' = state'))
  <2>1. a \in Actor /\ pc[a] = "bind"
    BY <1>10, Kinds DEF SaveBind, At
  <2>2. file[a] \in Transcript /\ saveMu = a /\ a # None
    BY <2>1, InHand, Kinds DEF MuInv, Saving, SaveSteps
  <2>3. Newest(file[a]) = state
    BY <1>8, <2>1, <2>2 DEF HandInv, Hand
  <2>4. /\ saveMu' = None /\ handle' = file[a] /\ current' = current /\ state' = state
        /\ lines' = lines /\ astray' = (file[a] # current)
    BY <1>10 DEF SaveBind
  <2>5. file[a] = current => Newest(current)' = state
    BY <1>0, <2>3, <2>4, NewestIs
  <2> QED
    BY <2>4, <2>5
<1>11. ASSUME NEW a \in Goroutine, a \in Actor, pc'[a] = "name" PROVE FALSE
  BY <1>7, <1>11 DEF Waiting
<1>12. ASSUME pc'[Commander] \in {"empty", "blank", "sync", "adopt"} PROVE FALSE
  BY <1>7, <1>12, Kinds DEF Waiting, MidSwitch
<1>13. ASSUME NEW a \in Goroutine, Edit(a) \/ RunEnds(a) PROVE FALSE
  BY <1>11, <1>13, Kinds DEF Edit, RunEnds, Goto, TypeInv
<1>14. ASSUME Switch \/ Load \/ Sync \/ NewSession \/ NewSessionEmpty PROVE FALSE
  BY <1>11, <1>12, <1>14, Kinds
     DEF Switch, Load, Sync, NewSession, NewSessionEmpty, Goto, TypeInv
<1>15. ASSUME Adopt PROVE FALSE
  <2>1. pc'[Commander] \in {"sync", "name"}
    BY <1>15, Kinds DEF Adopt, Goto, TypeInv
  <2> QED
    BY <1>11, <1>12, <2>1, Kinds
<1>16. ASSUME SwitchEmpty PROVE FALSE
  <2>1. pc'[Commander] = "read" /\ call'[Commander] = "load"
    BY <1>16, Kinds DEF SwitchEmpty, StartReading, Goto, TypeInv
  <2> QED
    BY <1>7, <2>1, Kinds DEF Waiting, MidSwitch, Reading
<1>17. ASSUME Close PROVE FALSE
  BY <1>17 DEF Close
<1>18. CASE UNCHANGED <<closed, saveMu, state, handle, current, astray>>
  <2>1. CASE saveMu # None
    BY <1>8, <1>18, <2>1, HolderKeeps
  <2>2. CASE saveMu = None
    <3>1. ASSUME handle = current, Newest(current) = state PROVE Newest(current)' = state
      <4>1. lines[current] # <<>>
        BY <1>0, <3>1, NewestTyped
      <4>2. ASSUME NEW b \in Goroutine, pc[b] \in SaveSteps PROVE FALSE
        BY <2>2, <4>2, Kinds DEF MuInv, Saving
      <4>3. CASE lines' = lines
        BY <1>0, <1>18, <3>1, <4>3, NewestIs
      <4>4. ASSUME NEW b \in Actor, NEW x \in Line, Puts(b, x) PROVE Newest(current)' = state
        <5>1. pc[b] = "import" /\ file[b] # current
          BY <4>1, <4>2, <4>4 DEF Puts, SaveSteps
        <5> QED
          BY <1>0, <1>18, <3>1, <4>4, <5>1, Appends DEF Puts
      <4>5. ASSUME NEW b \in Goroutine, Rewrites(b) PROVE FALSE
        BY <4>2, <4>5 DEF Rewrites, SaveSteps
      <4> QED
        BY <4>3, <4>4, <4>5, HistoryChanges
    <3> QED
      BY <1>8, <1>18, <2>2, <3>1
  <2> QED
    BY <2>1, <2>2
<1>19. \/ (\E a \in Goroutine : SaveFails(a) \/ SaveBind(a) \/ Edit(a) \/ RunEnds(a))
     \/ Switch \/ Load \/ Sync \/ NewSession \/ NewSessionEmpty \/ Adopt \/ SwitchEmpty
     \/ Close \/ Reopen
     \/ UNCHANGED <<closed, saveMu, state, handle, current, astray>>
  BY <1>1, <1>7, Kinds, NextSteps
     DEF SaveName, MigrateRead, MigrateStat, MigrateImport, MigrateDrop, SaveScan,
         SaveAppend, CompactRead, CompactRename, Peek, PeekDone, WriteFails, StartReading
<1> QED
  BY <1>4, <1>7, <1>9, <1>10, <1>13, <1>14, <1>15, <1>16, <1>17, <1>18, <1>19

\* Without a crossing, every history has its own transcript's settings.
LEMMA ConvKeeps ==
  ASSUME StateAssumption, TypeInv, KindInv, MuInv, ConvInv, Next, TypeInv', KindInv', MuInv',
         ~ crossed'
  PROVE  ConvInv'
<1> USE DEF fileVars, localVars, sessionVars, history, counts
<1>0. /\ Commander \in Actor /\ Commander \in Goroutine
      /\ current \in Transcript /\ None \notin Transcript
  BY Kinds DEF TypeInv
<1>1. \A t \in Transcript : \A i \in DOMAIN lines'[t] :
        lines'[t][i] = Torn \/ lines'[t][i].conv = t
  <2>0. \A t \in Transcript : \A i \in DOMAIN lines[t] :
          lines[t][i] = Torn \/ lines[t][i].conv = t
    BY DEF ConvInv
  <2>1. CASE lines' = lines
    BY <2>0, <2>1
  <2>2. ASSUME NEW b \in Actor, NEW x \in Line, Puts(b, x)
        PROVE  \A t \in Transcript : \A i \in DOMAIN lines'[t] :
                 lines'[t][i] = Torn \/ lines'[t][i].conv = t
    <3>1. x = Torn \/ x.conv = file[b]
      BY <2>2 DEF Puts, ConvInv, Saving, SaveSteps
    <3> QED
      BY <2>0, <2>2, <3>1, Appends DEF Puts
  <2>3. ASSUME NEW b \in Goroutine, Rewrites(b)
        PROVE  \A t \in Transcript : \A i \in DOMAIN lines'[t] :
                 lines'[t][i] = Torn \/ lines'[t][i].conv = t
    <3>1. \A i \in DOMAIN kept[b] : kept[b][i] = Torn \/ kept[b][i].conv = file[b]
      BY <2>3, Kinds DEF Rewrites, ConvInv
    <3>2. \A t \in Transcript : IF t = file[b] THEN lines'[t] = kept[b] ELSE lines'[t] = lines[t]
      BY <2>3 DEF Rewrites, TypeInv
    <3> QED
      BY <2>0, <3>1, <3>2
  <2> QED
    BY <2>1, <2>2, <2>3, HistoryChanges
<1>2. \A t \in Transcript : old'[t] # None => old'[t].conv = t
  BY OldShrinks DEF ConvInv
<1>3. ASSUME NEW a \in Actor
      PROVE  /\ pc'[a] \in {"stat", "import"} => kept'[a][1].conv = file'[a]
             /\ pc'[a] = "rename" =>
                  \A i \in DOMAIN kept'[a] : kept'[a][i] = Torn \/ kept'[a][i].conv = file'[a]
  <2>1. CASE Same(a)
    BY <2>1 DEF Same, ConvInv
  <2>2. CASE Die /\ a \in Goroutine
    <3>1. pc'[a] = "idle"
      BY <2>2, Kinds DEF Die
    <3> QED
      BY <3>1
  <2>3. CASE Lands(a)
    <3>1. ASSUME MigrateRead(a), pc'[a] = "stat" PROVE kept'[a][1].conv = file'[a]
      <4>1. file[a] \in Transcript
        BY <3>1, InHand DEF MigrateRead, At, Reading
      <4>2. /\ old[file[a]] # None /\ kept'[a] = <<old[file[a]]>> /\ file'[a] = file[a]
        BY <3>1 DEF MigrateRead, Goto, TypeInv
      <4>3. kept'[a][1] = old[file[a]]
        BY <4>2
      <4> QED
        BY <4>1, <4>2, <4>3 DEF ConvInv
    <3>2. ASSUME MigrateStat(a) PROVE kept'[a][1].conv = file'[a]
      BY <3>2 DEF MigrateStat, At, ConvInv
    <3>3. ASSUME CompactRead(a), pc'[a] = "rename"
          PROVE  \A i \in DOMAIN kept'[a] : kept'[a][i] = Torn \/ kept'[a][i].conv = file'[a]
      <4>1. file[a] \in Transcript /\ lines[file[a]] \in Seq(Line)
        BY <3>3, InHand, Numbers DEF CompactRead, At, SaveSteps
      <4>2. /\ file'[a] = file[a] /\ kept'[a] = NewestLines(lines[file[a]])
            /\ ~ (Len(lines[file[a]]) <= MaxState)
        BY <3>3 DEF CompactRead, Goto, TypeInv
      <4>3. Len(lines[file[a]]) > MaxState
        BY <4>1, <4>2, Kinds
      <4>4. \A i \in DOMAIN kept'[a] : \E j \in DOMAIN lines[file[a]] :
              kept'[a][i] = lines[file[a]][j]
        BY <4>1, <4>2, <4>3, NewestLinesKeep
      <4> QED
        BY <4>1, <4>2, <4>4 DEF ConvInv
    <3> QED
      BY <2>3, <3>1, <3>2, <3>3 DEF Lands
  <2> QED
    BY <2>1, <2>2, <2>3, Moves
<1>4. ASSUME NEW a \in Goroutine, Saving(a)' PROVE snap'[a].conv = file'[a]
  <2>0. /\ a \in Actor /\ pc'[a] \in SaveSteps \cup Reading
        /\ pc'[a] \in Reading => call'[a] = "save"
    BY <1>4, Kinds DEF Saving, SaveSteps, Reading
  <2>1. CASE SaveLock(a) /\ ~ closed
    <3>1. file'[a] = file[a] /\ snap'[a] = state /\ file[a] = current /\ ~ MidSwitch
      BY <2>0, <2>1 DEF SaveLock, TypeInv
    <3> QED
      BY <2>1, <3>1 DEF ConvInv
  <2>2. CASE Saving(a) /\ ~ (SaveLock(a) /\ ~ closed)
    <3>1. saveMu = a /\ saveMu' = a /\ a # None
      BY <1>4, <2>2, Kinds DEF MuInv
    <3>2. snap'[a] = snap[a]
      BY <3>1, HolderKeeps
    <3>3. file'[a] = file[a]
      <4>1. CASE Same(a)
        BY <4>1 DEF Same
      <4>2. CASE Die
        BY <3>1, <4>2 DEF Die
      <4>3. CASE Lands(a)
        <5>1. pc'[a] \in SaveSteps => file'[a] = file[a]
          BY <4>3 DEF Lands, SaveSteps, SaveScan, SaveAppend, CompactRead, CompactRename
        <5>2. pc'[a] \in {"stat", "import", "drop", "scan"} => file'[a] = file[a]
          BY <4>3 DEF Lands, MigrateRead, MigrateStat, MigrateImport, MigrateDrop
        <5>3. a \notin Reader
          BY Kinds
        <5>4. a = Commander => ~ SwitchEmpty
          BY <2>2 DEF SwitchEmpty, At, Saving, SaveSteps, Reading
        <5>5. pc'[a] # "read"
          BY <2>2, <4>3, <5>3, <5>4 DEF Lands
        <5> QED
          BY <2>0, <5>1, <5>2, <5>5 DEF Reading
      <4> QED
        BY <2>0, <4>1, <4>2, <4>3, Moves
    <3> QED
      BY <2>2, <3>2, <3>3 DEF ConvInv
  <2>3. Saving(a) \/ (SaveLock(a) /\ ~ closed)
    <3>1. saveMu' = a /\ a # None
      BY <1>4, Kinds DEF MuInv
    <3>2. ASSUME NEW b \in Goroutine, SaveLock(b), ~ closed PROVE b = a
      BY <3>1, <3>2 DEF SaveLock
    <3> QED
      BY <3>1, <3>2, SaveMuMoves DEF MuInv
  <2> QED
    BY <2>1, <2>2, <2>3
<1>5. ASSUME NEW t \in Transcript, Newest(t) # None PROVE Newest(t).conv = t
  <2>1. PICK i \in DOMAIN lines[t] : lines[t][i] # Torn /\ Newest(t) = lines[t][i]
    BY <1>5, NewestTyped
  <2> QED
    BY <2>1 DEF ConvInv
<1>6. ~ closed' /\ ~ MidSwitch' => state'.conv = current'
  <2> SUFFICES ASSUME ~ closed', ~ MidSwitch' PROVE state'.conv = current'
    OBVIOUS
  <2>1. CASE Reopen
    BY <1>5, <2>1 DEF Reopen, TypeInv
  <2>2. CASE Adopt
    <3>1. pc[Commander] = "adopt" /\ snap[Commander] # None
      BY <1>0, <2>2 DEF Adopt, At, Goto, MidSwitch, TypeInv
    <3>2. state' = [state EXCEPT !.conv = snap[Commander].conv] /\ current' = current
      BY <2>2, <3>1 DEF Adopt
    <3>3. snap[Commander].conv = current
      BY <3>1 DEF ConvInv
    <3> QED
      BY <3>2, <3>3 DEF TypeInv, Snapshot
  <2>3. CASE Sync
    BY <2>3 DEF Sync, TypeInv, Snapshot
  <2>4. ASSUME Switch \/ NewSession \/ NewSessionEmpty \/ Load PROVE FALSE
    <3>1. pc'[Commander] \in {"empty", "blank", "sync", "adopt"}
      BY <1>0, <2>4 DEF Switch, NewSession, NewSessionEmpty, Load, Goto, TypeInv
    <3> QED
      BY <3>1 DEF MidSwitch
  <2>5. ASSUME SwitchEmpty PROVE FALSE
    <3>1. pc'[Commander] = "read" /\ call'[Commander] = "load"
      BY <1>0, <2>5 DEF SwitchEmpty, StartReading, Goto, TypeInv
    <3> QED
      BY <3>1 DEF MidSwitch, Reading
  <2>6. ~ Die
    BY DEF Die
  <2>7. ASSUME NEW a \in Goroutine, Edit(a) PROVE state'.conv = state.conv
    BY <2>7 DEF Edit, TypeInv, Snapshot
  <2>8. \/ (\E a \in Goroutine : Edit(a))
       \/ Reopen \/ Adopt \/ Sync \/ Switch \/ NewSession \/ NewSessionEmpty \/ Load
       \/ SwitchEmpty \/ UNCHANGED state
    BY <2>6, NextSteps
       DEF SaveName, SaveLock, MigrateRead, MigrateStat, MigrateImport, MigrateDrop,
           SaveScan, SaveAppend, CompactRead, CompactRename, SaveBind, SaveFails, RunEnds,
           Close, Peek, PeekDone, StartReading, WriteFails
  <2>9. Reopen \/ Switch \/ NewSession \/ (closed' = closed /\ current' = current)
         \/ closed'
    BY NextSteps
       DEF Edit, SaveName, SaveLock, MigrateRead, MigrateStat, MigrateImport, MigrateDrop,
           SaveScan, SaveAppend, CompactRead, CompactRename, SaveBind, SaveFails, RunEnds,
           SwitchEmpty, Load, Adopt, Sync, NewSessionEmpty, Close, Peek, PeekDone, Die,
           StartReading, WriteFails
  <2>10. CASE MidSwitch
    <3>1. Adopt \/ Sync
      BY <1>0, <2>6, <2>10, Waits DEF Waiting
    <3> QED
      BY <2>2, <2>3, <3>1
  <2> QED
    BY <2>1, <2>2, <2>3, <2>4, <2>5, <2>7, <2>8, <2>9, <2>10 DEF ConvInv
<1>7. pc'[Commander] = "adopt" /\ snap'[Commander] # None => snap'[Commander].conv = current'
  <2> SUFFICES ASSUME pc'[Commander] = "adopt", snap'[Commander] # None
               PROVE  snap'[Commander].conv = current'
    OBVIOUS
  <2>1. CASE Load
    <3>1. /\ file[Commander] = current /\ snap'[Commander] = Newest(file[Commander])
          /\ current' = current
      BY <1>0, <2>1 DEF Load, At, KindInv, Loading, Reading, TypeInv
    <3> QED
      BY <1>0, <1>5, <3>1
  <2>2. CASE Same(Commander)
    <3>1. current' = current
      <4>1. current' = current \/ Switch \/ NewSession \/ Reopen
        BY NextSteps
           DEF Edit, SaveName, SaveLock, MigrateRead, MigrateStat, MigrateImport,
               MigrateDrop, SaveScan, SaveAppend, CompactRead, CompactRename, SaveBind,
               SaveFails, RunEnds, SwitchEmpty, Load, Adopt, Sync, NewSessionEmpty, Close,
               Peek, PeekDone, Die, StartReading, WriteFails
      <4>2. ASSUME Switch \/ NewSession \/ Reopen PROVE FALSE
        BY <1>0, <2>2, <4>2 DEF Switch, NewSession, Reopen, At, Same
      <4> QED
        BY <4>1, <4>2
    <3> QED
      BY <2>2, <3>1 DEF Same, ConvInv
  <2>3. CASE Lands(Commander)
    BY <2>1, <2>3 DEF Lands
  <2>4. CASE Die
    BY <1>0, <2>4 DEF Die
  <2> QED
    BY <1>0, <2>1, <2>2, <2>3, <2>4, Moves
<1> QED
  BY <1>1, <1>2, <1>3, <1>4, <1>6, <1>7 DEF ConvInv

-----------------------------------------------------------------------------
(* The settings: the theorems. *)

LEMMA InitInv == StateAssumption /\ Init => IInv
<1> SUFFICES ASSUME StateAssumption, Init PROVE IInv
  OBVIOUS
<1> DEFINE opened == [n |-> 0, conv |-> First]
<1>1. /\ opened \in Snapshot /\ First \in Transcript /\ opened # Torn /\ opened # None
      /\ <<opened>> \in Seq(Line) /\ <<>> \in Seq(Line)
      /\ \A t \in Legacy : [n |-> 0, conv |-> t] \in Snapshot
  BY Kinds DEF StateAssumption, Snapshot, Torn, Line
<1>2. /\ lines = [t \in Transcript |-> IF t = First THEN <<opened>> ELSE <<>>]
      /\ \A a \in Actor : pc[a] = "idle" /\ kept[a] = <<>> /\ snap[a] = None
      /\ Commander \in Actor /\ Commander \in Goroutine /\ pc[Commander] = "idle"
  BY Kinds DEF Init
<1>3. \A t \in Transcript : old[t] = None \/ (old[t] = [n |-> 0, conv |-> t] /\ t \in Legacy)
  BY DEF Init
<1> HIDE DEF opened
<1>4. TypeInv
  <2>1. lines \in [Transcript -> Seq(Snapshot \cup {Torn})]
    BY <1>1, <1>2 DEF Line
  <2>2. old \in [Transcript -> Snapshot \cup {None}]
    BY <1>1 DEF Init
  <2>3. state \in Snapshot
    BY <1>1 DEF Init, opened
  <2>4. /\ pc \in [Actor -> Step] /\ call \in [Actor -> Call \cup {None}]
        /\ file \in [Actor -> Transcript \cup {None}]
        /\ snap \in [Actor -> Snapshot \cup {None}]
        /\ kept \in [Actor -> Seq(Snapshot \cup {Torn})]
    BY <1>1 DEF Init, Step, Line
  <2>5. /\ there \subseteq Transcript /\ handle \in Transcript /\ current \in Transcript
        /\ closed \in BOOLEAN /\ saveMu \in Goroutine \cup {None}
        /\ {astray, crossed, overtaken} \subseteq BOOLEAN
    BY <1>1 DEF Init
  <2>6. /\ edits \in 0 .. MaxEdits /\ acked \in 0 .. MaxEdits
        /\ switches \in 0 .. MaxSwitches /\ deaths \in 0 .. MaxDeaths /\ errors \in 0 .. MaxErrors
    BY Kinds DEF Init
  <2> QED
    BY <2>1, <2>2, <2>3, <2>4, <2>5, <2>6 DEF TypeInv
<1>5. \A t \in Transcript : \A i \in DOMAIN lines[t] :
        t = First /\ lines[t] = <<opened>> /\ lines[t][i] = opened
  BY <1>1, <1>2
<1>6. Newest(First) = opened
  <2>1. lines[First] = <<opened>>
    BY <1>1, <1>2
  <2>2. <<opened>> # <<>> /\ Len(<<opened>>) = 1 /\ <<opened>>[1] = opened
    OBVIOUS
  <2>3. NewestOf(<<opened>>) = opened
    BY <1>1, <2>2, NewestIsLast
  <2> QED
    BY <1>1, <2>1, <2>3, NewestIs
<1>7. opened.n = 0 /\ opened.conv = First
  BY DEF opened
<1>8. KindInv
  BY <1>2 DEF KindInv, KindOf, Loading, Saving, SaveSteps, Reading
<1>9. MuInv
  BY <1>2, Kinds DEF Init, MuInv, Saving, SaveSteps, Reading
<1>10. EditInv
  <2>1. \A t \in Transcript : old[t] # None => old[t].n <= edits
    BY <1>3 DEF Init
  <2>2. \A t \in Transcript : \A i \in DOMAIN lines[t] : lines[t][i].n <= edits
    BY <1>5, <1>7 DEF Init
  <2>3. \A a \in Actor : \A i \in DOMAIN kept[a] : kept[a][i].n <= edits
    BY <1>2
  <2> QED
    BY <1>2, <1>7, <2>1, <2>2, <2>3 DEF Init, EditInv, opened
<1>11. CleanInv
  <2>1. \A t \in there : lines[t] # <<>>
    BY <1>1, <1>2 DEF Init
  <2> QED
    BY <1>2, <2>1 DEF CleanInv
<1>12. LengthInv
  <2>1. errors + deaths = 0 /\ MaxState \in Nat /\ MaxState >= 1
    BY Kinds DEF Init
  <2>2. \A t \in Transcript : Len(lines[t]) = 0 \/ Len(lines[t]) = 1
    BY <1>2
  <2>3. \A t \in Transcript : Len(lines[t]) <= MaxState + 0 /\ Len(lines[t]) <= MaxState + 1 + 0
    <3>1. \A l \in {0, 1} : l <= MaxState + 0 /\ l <= MaxState + 1 + 0
      BY <2>1
    <3> QED
      BY <2>2, <3>1
  <2> QED
    BY <2>1, <2>3 DEF LengthInv
<1>13. HandInv
  BY <1>2, Kinds DEF HandInv, Hand
<1>14. AckInv
  BY <1>1, <1>6, <1>7 DEF Init, AckInv, opened
<1>15. SavedInv
  BY <1>6 DEF Init, SavedInv, opened
<1>16. ConvInv
  <2>1. ASSUME NEW t \in Transcript, old[t] # None PROVE old[t].conv = t
    <3>1. old[t] = [n |-> 0, conv |-> t]
      BY <1>3, <2>1
    <3> QED
      BY <3>1
  <2>2. \A t \in Transcript : \A i \in DOMAIN lines[t] : lines[t][i].conv = t
    BY <1>5, <1>7
  <2>3. state.conv = current
    BY <1>7 DEF Init, opened
  <2> QED
    BY <1>2, <2>1, <2>2, <2>3, Kinds DEF ConvInv, Saving, SaveSteps, Reading
<1> QED
  BY <1>4, <1>8, <1>9, <1>10, <1>11, <1>12, <1>13, <1>14, <1>15, <1>16 DEF IInv

LEMMA Stutters == IInv /\ UNCHANGED vars => IInv'
<1> SUFFICES ASSUME IInv, UNCHANGED vars PROVE IInv'
  OBVIOUS
<1> USE DEF vars, fileVars, localVars, sessionVars, history, counts
<1>1. TypeInv' <=> TypeInv
  BY DEF TypeInv
<1>2. KindInv' <=> KindInv
  BY DEF KindInv, KindOf, Loading, Saving
<1>3. MuInv' <=> MuInv
  BY DEF MuInv, Saving
<1>4. EditInv' <=> EditInv
  BY DEF EditInv
<1>5. CleanInv' <=> CleanInv
  BY DEF CleanInv
<1>6. LengthInv' <=> LengthInv
  BY DEF LengthInv
<1>7. HandInv' <=> HandInv
  BY DEF HandInv, Hand, Newest, Whole
<1>8. AckInv' <=> AckInv
  BY DEF AckInv, Newest, Whole
<1>9. SavedInv' <=> SavedInv
  BY DEF SavedInv, Waiting, MidSwitch, Newest, Whole
<1>10. ConvInv' <=> ConvInv
  BY DEF ConvInv, MidSwitch, Saving
<1> QED
  BY <1>1, <1>2, <1>3, <1>4, <1>5, <1>6, <1>7, <1>8, <1>9, <1>10 DEF IInv

LEMMA StepInv == StateAssumption /\ IInv /\ [Next]_vars => IInv'
<1> SUFFICES ASSUME StateAssumption, IInv, Next PROVE IInv'
  BY Stutters
<1>1. TypeInv' /\ TypeInv /\ KindInv /\ MuInv /\ EditInv /\ CleanInv
  BY TypeKeeps DEF IInv
<1>2. KindInv' /\ MuInv' /\ EditInv' /\ CleanInv'
  BY <1>1, KindKeeps, MuKeeps, EditKeeps, CleanKeeps
<1>3. ASSUME ~ overtaken' PROVE LengthInv' /\ HandInv' /\ AckInv' /\ SavedInv'
  <2>1. LengthInv /\ HandInv /\ AckInv /\ SavedInv
    BY <1>1, <1>3, Onwards DEF IInv
  <2> QED
    BY <1>1, <1>2, <1>3, <2>1, LengthKeeps, HandKeeps, AckKeeps, SavedKeeps
<1>4. ASSUME ~ crossed' PROVE ConvInv'
  <2>1. ConvInv
    BY <1>1, <1>4, Onwards DEF IInv
  <2> QED
    BY <1>1, <1>2, <1>4, <2>1, ConvKeeps
<1> QED
  BY <1>1, <1>2, <1>3, <1>4 DEF IInv

LEMMA Survives == ASSUME IInv PROVE AckedSurvives
BY DEF IInv, AckInv, AckedSurvives

LEMMA InPlace == ASSUME StateAssumption, IInv PROVE SettingsInPlace
<1>1. TypeOK
  <2>1. ASSUME ~ overtaken, NEW t \in Transcript
        PROVE  Len(lines[t]) <= MaxState + 1 + errors + deaths
    <3>1. Len(lines[t]) <= MaxState + 1 + (errors + deaths)
      BY <2>1 DEF IInv, LengthInv
    <3>2. MaxState \in Int /\ errors \in Int /\ deaths \in Int
      BY Kinds DEF IInv, TypeInv
    <3>3. MaxState + 1 + (errors + deaths) = MaxState + 1 + errors + deaths
      BY <3>2
    <3> QED
      BY <3>1, <3>3
  <2> QED
    BY <2>1 DEF TypeOK, IInv, TypeInv
<1>2. SettingsSaved
  <2> SUFFICES ASSUME ~ closed, \A a \in Goroutine : pc[a] = "idle", ~ astray, ~ overtaken
               PROVE  handle = current /\ Newest(current) = state
    BY DEF SettingsSaved, At
  <2>1. saveMu = None
    BY DEF IInv, TypeInv, MuInv, Saving, SaveSteps, Reading
  <2>2. \A a \in Goroutine : ~ Waiting(a)
    BY Kinds DEF Waiting, MidSwitch, Reading
  <2> QED
    BY <2>1, <2>2 DEF IInv, SavedInv
<1>3. OwnConversation
  BY DEF OwnConversation, Whole, IInv, ConvInv
<1> QED
  BY <1>1, <1>2, <1>3 DEF SettingsInPlace

\* A save that has returned is never lost (AckedSurvives): the order of write,
\* rewrite and handle in SaveState, AppendState and BindHandle leaves at every
\* moment a history whose newest whole line is that save's or a later one's.
THEOREM AckedIsNeverLost == Spec => []AckedSurvives
<1>1. StateAssumption
  BY SettingsConstants
<1>2. Init => IInv
  BY <1>1, InitInv
<1>3. IInv /\ [Next]_vars => IInv'
  BY <1>1, StepInv
<1>4. IInv => AckedSurvives
  BY Survives
<1> QED
  BY <1>2, <1>3, <1>4, PTL DEF Spec

\* In an open session at rest the settings in memory are those on disk where its
\* handle leads, and no history has another transcript's (SettingsInPlace), but
\* for what SaveState, restoreState and SwitchSession are known to do: a save
\* that fails or goes astray, one that crosses a switch, a late import.
THEOREM SettingsAreInPlace == Spec => []SettingsInPlace
<1>1. StateAssumption
  BY SettingsConstants
<1>2. Init => IInv
  BY <1>1, InitInv
<1>3. IInv /\ [Next]_vars => IInv'
  BY <1>1, StepInv
<1>4. IInv => SettingsInPlace
  BY <1>1, InPlace
<1> QED
  BY <1>2, <1>3, <1>4, PTL DEF Spec

-----------------------------------------------------------------------------
(* The log: the inductive invariant. *)

LogTypeInv ==
  /\ log \in Seq(Log!Line) /\ strays \in SUBSET Seq(Log!Line)
  /\ tmp \in [Process -> Seq(Log!Line)]
  /\ backup \in [1 .. Keep -> Seq(Log!Line)]
  /\ shared \in SUBSET Process /\ exclusive \in Process \cup {Nobody}
  /\ archLock \in Process \cup {Nobody}
  /\ mu \in [Process -> Writer \cup {Nobody}]
  /\ rotating \in [Process -> BOOLEAN]
  /\ shut \in [Process -> {"open", "waiting", "closed"}]
  /\ at \in [Writer -> {"idle", "write", "append", "check", "rotate", "copy", "truncate"}]
  /\ archiving \in [Process -> {"no", "lock", "drop", "shift", "copy", "remove"}]
  /\ written \in 0 .. MaxLines /\ Log!In(log) \subseteq 1 .. written
  /\ bare \in BOOLEAN

Cutting == {"copy", "truncate"}                      \* of a writer, in a rotation
Shuffling == {"drop", "shift", "copy", "remove"}     \* of an archive goroutine

\* In a process one writer at a time is at the file.
LogMuInv ==
  /\ \A w \in Writer : at[w] \in {"append"} \cup Cutting => mu[Owner[w]] = w
  /\ \A p \in Process : mu[p] # Nobody => Owner[mu[p]] = p

\* Nobody writes while the flock is exclusive; a rotation has it so.
FlockInv ==
  /\ exclusive # Nobody => shared = {}
  /\ \A w \in Writer : at[w] = "append" => Owner[w] \in shared \/ shut[Owner[w]] = "closed"
  /\ \A w \in Writer : at[w] \in Cutting => bare \/ exclusive = Owner[w]

\* In a process one rotation at a time is under way, archive included.
RotationInv ==
  /\ \A w \in Writer : at[w] \in {"rotate"} \cup Cutting =>
       rotating[Owner[w]] /\ archiving[Owner[w]] = "no"
  /\ \A w, v \in Writer :
       at[w] \in {"rotate"} \cup Cutting /\ at[v] \in {"rotate"} \cup Cutting
         /\ Owner[w] = Owner[v] => w = v
  /\ \A p \in Process : archiving[p] # "no" => rotating[p]

\* What a closed process still does to the files, it does without a flock.
ClosedInv ==
  /\ \A p \in Process : shut[p] = "closed" /\ archiving[p] # "no" => bare
  /\ \A w \in Writer : shut[Owner[w]] = "closed" /\ at[w] \in Cutting => bare

\* One process at a time shifts backups, and finds them as it left them.
ArchiveInv ==
  \A p \in Process :
    /\ archiving[p] \in Shuffling => archLock = p
    /\ archiving[p] = "shift" => backup[Keep] = <<>>
    /\ archiving[p] = "copy" => backup[1] = <<>>
    /\ archiving[p] = "remove" => backup[1] = tmp[p]

\* The copy of a rotation is the log until that is truncated, and there is
\* another only once the former has been archived.
CopyInv ==
  /\ \A w \in Writer : at[w] = "truncate" => tmp[Owner[w]] = log
  /\ \A p \in Process :
       archiving[p] = "no" /\ (\A w \in Writer : Owner[w] = p => at[w] # "truncate")
         => tmp[p] = <<>>

LogIInv ==
  /\ LogTypeInv /\ LogMuInv /\ FlockInv /\ RotationInv /\ ClosedInv
  /\ ~ bare => ArchiveInv /\ CopyInv
  /\ NothingIsLost

-----------------------------------------------------------------------------
(* The log: the lines of a sequence. *)

LEMMA InAppend ==
  ASSUME NEW s \in Seq(Log!Line), NEW x \in Log!Line
  PROVE  Append(s, x) \in Seq(Log!Line) /\ Log!In(Append(s, x)) = Log!In(s) \cup {x}
<1>1. DOMAIN Append(s, x) = 1 .. Len(s) + 1 /\ DOMAIN s = 1 .. Len(s) /\ Len(s) \in Nat
  OBVIOUS
<1>2. \A i \in DOMAIN s : Append(s, x)[i] = s[i]
  OBVIOUS
<1>3. Append(s, x)[Len(s) + 1] = x
  OBVIOUS
<1> QED
  BY <1>1, <1>2, <1>3 DEF Log!In

LEMMA InEmpty == <<>> \in Seq(Log!Line) /\ Log!In(<<>>) = {}
  BY DEF Log!In

-----------------------------------------------------------------------------
(* The log: every step keeps every part of the invariant. *)

\* The state stays typed.
LEMMA LogTypeKeeps ==
  ASSUME Log!LogAssumption, LogTypeInv, Log!Next
  PROVE  LogTypeInv'
<1> USE
   DEF Log!At, Log!Goto, Log!ArchiveAt, Log!ArchiveGoto, Log!fileVars, Log!flockVars,
       Log!processVars, Log!history
<1>1. ASSUME NEW w \in Writer, Log!BeginWrite(w) PROVE LogTypeInv'
  BY <1>1, InEmpty DEF Log!BeginWrite, LogTypeInv, Log!LogAssumption
<1>2. ASSUME NEW w \in Writer, Log!LockWrite(w) PROVE LogTypeInv'
  BY <1>2, InEmpty DEF Log!LockWrite, Log!Lock, Log!LockShared, LogTypeInv, Log!LogAssumption
<1>3. ASSUME NEW w \in Writer, Log!AppendLine(w) PROVE LogTypeInv'
  <2>1. CASE UNCHANGED <<log, written>>
    BY <1>3, <2>1 DEF Log!AppendLine, Log!Unlock, LogTypeInv, Log!LogAssumption
  <2>2. CASE log' = Append(log, written + 1) /\ written' = written + 1 /\ written < MaxLines
    <3>1. written + 1 \in Log!Line /\ written + 1 \in 1 .. written'
      BY <2>2 DEF LogTypeInv, Log!LogAssumption, Log!Line
    <3>2. log' \in Seq(Log!Line) /\ Log!In(log') = Log!In(log) \cup {written + 1}
      BY <2>2, <3>1, InAppend DEF LogTypeInv
    <3>3. Log!In(log') \subseteq 1 .. written' /\ written' \in 0 .. MaxLines
      <4>1. written \in Nat /\ MaxLines \in Nat /\ Log!In(log) \subseteq 1 .. written
        BY DEF LogTypeInv, Log!LogAssumption
      <4>2. 1 .. written \subseteq 1 .. written + 1 /\ written + 1 \in 0 .. MaxLines
        BY <2>2, <4>1
      <4> QED
        BY <2>2, <3>1, <3>2, <4>1, <4>2
    <3> QED
      BY <1>3, <2>2, <3>2, <3>3 DEF Log!AppendLine, Log!Unlock, LogTypeInv, Log!LogAssumption
  <2> QED
    BY <1>3, <2>1, <2>2 DEF Log!AppendLine, LogTypeInv, Log!LogAssumption
<1>4. ASSUME NEW w \in Writer, Log!MaybeRotate(w) PROVE LogTypeInv'
  BY <1>4, InEmpty DEF Log!MaybeRotate, LogTypeInv, Log!LogAssumption
<1>5. ASSUME NEW w \in Writer, Log!LockRotate(w) PROVE LogTypeInv'
  BY <1>5, InEmpty
     DEF Log!LockRotate, Log!Lock, Log!LockExclusive, LogTypeInv, Log!LogAssumption
<1>6. ASSUME NEW w \in Writer, Log!Copy(w) PROVE LogTypeInv'
  BY <1>6, InEmpty DEF Log!Copy, LogTypeInv, Log!LogAssumption
<1>7. ASSUME NEW w \in Writer, Log!Abandon(w) PROVE LogTypeInv'
  BY <1>7, InEmpty DEF Log!Abandon, Log!Unlock, LogTypeInv, Log!LogAssumption
<1>8. ASSUME NEW w \in Writer, Log!Truncate(w) PROVE LogTypeInv'
  BY <1>8, InEmpty DEF Log!Truncate, Log!Unlock, LogTypeInv, Log!LogAssumption
<1>9. ASSUME NEW p \in Process, Log!ArchiveLock(p) PROVE LogTypeInv'
  BY <1>9, InEmpty DEF Log!ArchiveLock, LogTypeInv, Log!LogAssumption
<1>10. ASSUME NEW p \in Process, Log!ArchiveDrop(p) PROVE LogTypeInv'
  BY <1>10, InEmpty DEF Log!ArchiveDrop, LogTypeInv, Log!LogAssumption
<1>11. ASSUME NEW p \in Process, Log!ArchiveShift(p) PROVE LogTypeInv'
  BY <1>11, InEmpty DEF Log!ArchiveShift, LogTypeInv, Log!LogAssumption
<1>12. ASSUME NEW p \in Process, Log!ArchiveCopy(p) PROVE LogTypeInv'
  BY <1>12, InEmpty DEF Log!ArchiveCopy, LogTypeInv, Log!LogAssumption
<1>13. ASSUME NEW p \in Process, Log!ArchiveDone(p) PROVE LogTypeInv'
  BY <1>13, InEmpty DEF Log!ArchiveDone, Log!ArchiveEnds, LogTypeInv, Log!LogAssumption
<1>14. ASSUME NEW p \in Process, Log!ArchiveFails(p) PROVE LogTypeInv'
  BY <1>14, InEmpty DEF Log!ArchiveFails, Log!ArchiveEnds, LogTypeInv, Log!LogAssumption
<1>15. ASSUME NEW p \in Process, Log!BeginClose(p) PROVE LogTypeInv'
  BY <1>15, InEmpty DEF Log!BeginClose, LogTypeInv, Log!LogAssumption
<1>16. ASSUME NEW p \in Process, Log!Close(p) PROVE LogTypeInv'
  BY <1>16, InEmpty DEF Log!Close, LogTypeInv, Log!LogAssumption
<1>17. ASSUME NEW p \in Process, Log!Die(p) PROVE LogTypeInv'
  BY <1>17, InEmpty DEF Log!Die, LogTypeInv, Log!LogAssumption
<1> QED
  BY <1>1, <1>2, <1>3, <1>4, <1>5, <1>6, <1>7, <1>8, <1>9, <1>10, <1>11, <1>12, <1>13, <1>14,
       <1>15, <1>16, <1>17 DEF Log!Next

\* mu is one writer's.
LEMMA LogMuKeeps ==
  ASSUME Log!LogAssumption, LogTypeInv, LogMuInv, Log!Next
  PROVE  LogMuInv'
<1> USE
   DEF Log!At, Log!Goto, Log!ArchiveAt, Log!ArchiveGoto, Log!fileVars, Log!flockVars,
       Log!processVars, Log!history
<1>1. ASSUME NEW w \in Writer, Log!BeginWrite(w) PROVE LogMuInv'
  BY <1>1 DEF Log!BeginWrite, LogTypeInv, LogMuInv, Cutting, Log!LogAssumption
<1>2. ASSUME NEW w \in Writer, Log!LockWrite(w) PROVE LogMuInv'
  BY <1>2
     DEF Log!LockWrite, Log!Lock, Log!LockShared, LogTypeInv, LogMuInv, Cutting,
         Log!LogAssumption
<1>3. ASSUME NEW w \in Writer, Log!AppendLine(w) PROVE LogMuInv'
  BY <1>3 DEF Log!AppendLine, Log!Unlock, LogTypeInv, LogMuInv, Cutting, Log!LogAssumption
<1>4. ASSUME NEW w \in Writer, Log!MaybeRotate(w) PROVE LogMuInv'
  BY <1>4 DEF Log!MaybeRotate, LogTypeInv, LogMuInv, Cutting, Log!LogAssumption
<1>5. ASSUME NEW w \in Writer, Log!LockRotate(w) PROVE LogMuInv'
  BY <1>5
     DEF Log!LockRotate, Log!Lock, Log!LockExclusive, LogTypeInv, LogMuInv, Cutting,
         Log!LogAssumption
<1>6. ASSUME NEW w \in Writer, Log!Copy(w) PROVE LogMuInv'
  BY <1>6 DEF Log!Copy, LogTypeInv, LogMuInv, Cutting, Log!LogAssumption
<1>7. ASSUME NEW w \in Writer, Log!Abandon(w) PROVE LogMuInv'
  BY <1>7 DEF Log!Abandon, Log!Unlock, LogTypeInv, LogMuInv, Cutting, Log!LogAssumption
<1>8. ASSUME NEW w \in Writer, Log!Truncate(w) PROVE LogMuInv'
  BY <1>8 DEF Log!Truncate, Log!Unlock, LogTypeInv, LogMuInv, Cutting, Log!LogAssumption
<1>9. ASSUME NEW p \in Process, Log!ArchiveLock(p) PROVE LogMuInv'
  BY <1>9 DEF Log!ArchiveLock, LogTypeInv, LogMuInv, Cutting, Log!LogAssumption
<1>10. ASSUME NEW p \in Process, Log!ArchiveDrop(p) PROVE LogMuInv'
  BY <1>10 DEF Log!ArchiveDrop, LogTypeInv, LogMuInv, Cutting, Log!LogAssumption
<1>11. ASSUME NEW p \in Process, Log!ArchiveShift(p) PROVE LogMuInv'
  BY <1>11 DEF Log!ArchiveShift, LogTypeInv, LogMuInv, Cutting, Log!LogAssumption
<1>12. ASSUME NEW p \in Process, Log!ArchiveCopy(p) PROVE LogMuInv'
  BY <1>12 DEF Log!ArchiveCopy, LogTypeInv, LogMuInv, Cutting, Log!LogAssumption
<1>13. ASSUME NEW p \in Process, Log!ArchiveDone(p) PROVE LogMuInv'
  BY <1>13
     DEF Log!ArchiveDone, Log!ArchiveEnds, LogTypeInv, LogMuInv, Cutting, Log!LogAssumption
<1>14. ASSUME NEW p \in Process, Log!ArchiveFails(p) PROVE LogMuInv'
  BY <1>14
     DEF Log!ArchiveFails, Log!ArchiveEnds, LogTypeInv, LogMuInv, Cutting, Log!LogAssumption
<1>15. ASSUME NEW p \in Process, Log!BeginClose(p) PROVE LogMuInv'
  BY <1>15 DEF Log!BeginClose, LogTypeInv, LogMuInv, Cutting, Log!LogAssumption
<1>16. ASSUME NEW p \in Process, Log!Close(p) PROVE LogMuInv'
  BY <1>16 DEF Log!Close, LogTypeInv, LogMuInv, Cutting, Log!LogAssumption
<1>17. ASSUME NEW p \in Process, Log!Die(p) PROVE LogMuInv'
  BY <1>17 DEF Log!Die, LogTypeInv, LogMuInv, Cutting, Log!LogAssumption
<1> QED
  BY <1>1, <1>2, <1>3, <1>4, <1>5, <1>6, <1>7, <1>8, <1>9, <1>10, <1>11, <1>12, <1>13, <1>14,
       <1>15, <1>16, <1>17 DEF Log!Next

\* The flocks exclude each other.
LEMMA FlockKeeps ==
  ASSUME Log!LogAssumption, LogTypeInv, LogMuInv, FlockInv, ClosedInv, Log!Next
  PROVE  FlockInv'
<1> USE
   DEF Log!At, Log!Goto, Log!ArchiveAt, Log!ArchiveGoto, Log!fileVars, Log!flockVars,
       Log!processVars, Log!history
<1>1. ASSUME NEW w \in Writer, Log!BeginWrite(w) PROVE FlockInv'
  BY <1>1
     DEF Log!BeginWrite, LogTypeInv, LogMuInv, FlockInv, ClosedInv, Cutting, Log!LogAssumption
<1>2. ASSUME NEW w \in Writer, Log!LockWrite(w) PROVE FlockInv'
  BY <1>2
     DEF Log!LockWrite, Log!Lock, Log!LockShared, LogTypeInv, LogMuInv, FlockInv, ClosedInv,
         Cutting, Log!LogAssumption
<1>3. ASSUME NEW w \in Writer, Log!AppendLine(w) PROVE FlockInv'
  BY <1>3
     DEF Log!AppendLine, Log!Unlock, LogTypeInv, LogMuInv, FlockInv, ClosedInv, Cutting,
         Log!LogAssumption
<1>4. ASSUME NEW w \in Writer, Log!MaybeRotate(w) PROVE FlockInv'
  BY <1>4
     DEF Log!MaybeRotate, LogTypeInv, LogMuInv, FlockInv, ClosedInv, Cutting,
         Log!LogAssumption
<1>5. ASSUME NEW w \in Writer, Log!LockRotate(w) PROVE FlockInv'
  <2>1. Owner[w] \in Process /\ Owner[w] # Nobody /\ at' = [at EXCEPT ![w] = "copy"]
    BY <1>5 DEF Log!LockRotate, Log!LogAssumption
  <2>2. CASE shut[Owner[w]] = "closed"
    <3>1. bare' /\ UNCHANGED <<shared, exclusive, shut>>
      BY <1>5, <2>2 DEF Log!LockRotate, Log!LockExclusive
    <3> QED
      BY <2>1, <3>1 DEF FlockInv, LogTypeInv, Cutting
  <2>3. CASE shut[Owner[w]] # "closed"
    <3>1. exclusive = Nobody /\ shared = {} /\ exclusive' = Owner[w] /\ bare' = bare
          /\ UNCHANGED <<shared, shut>>
      BY <1>5, <2>3 DEF Log!LockRotate, Log!LockExclusive, LogTypeInv
    <3>2. \A v \in Writer : at[v] \in Cutting => bare
      BY <3>1 DEF FlockInv, Log!LogAssumption
    <3> QED
      BY <2>1, <3>1, <3>2 DEF FlockInv, LogTypeInv, Cutting
  <2> QED
    BY <2>2, <2>3
<1>6. ASSUME NEW w \in Writer, Log!Copy(w) PROVE FlockInv'
  BY <1>6 DEF Log!Copy, LogTypeInv, LogMuInv, FlockInv, ClosedInv, Cutting, Log!LogAssumption
<1>7. ASSUME NEW w \in Writer, Log!Abandon(w) PROVE FlockInv'
  BY <1>7
     DEF Log!Abandon, Log!Unlock, LogTypeInv, LogMuInv, FlockInv, ClosedInv, Cutting,
         Log!LogAssumption
<1>8. ASSUME NEW w \in Writer, Log!Truncate(w) PROVE FlockInv'
  BY <1>8
     DEF Log!Truncate, Log!Unlock, LogTypeInv, LogMuInv, FlockInv, ClosedInv, Cutting,
         Log!LogAssumption
<1>9. ASSUME NEW p \in Process, Log!ArchiveLock(p) PROVE FlockInv'
  BY <1>9
     DEF Log!ArchiveLock, LogTypeInv, LogMuInv, FlockInv, ClosedInv, Cutting,
         Log!LogAssumption
<1>10. ASSUME NEW p \in Process, Log!ArchiveDrop(p) PROVE FlockInv'
  BY <1>10
     DEF Log!ArchiveDrop, LogTypeInv, LogMuInv, FlockInv, ClosedInv, Cutting,
         Log!LogAssumption
<1>11. ASSUME NEW p \in Process, Log!ArchiveShift(p) PROVE FlockInv'
  BY <1>11
     DEF Log!ArchiveShift, LogTypeInv, LogMuInv, FlockInv, ClosedInv, Cutting,
         Log!LogAssumption
<1>12. ASSUME NEW p \in Process, Log!ArchiveCopy(p) PROVE FlockInv'
  BY <1>12
     DEF Log!ArchiveCopy, LogTypeInv, LogMuInv, FlockInv, ClosedInv, Cutting,
         Log!LogAssumption
<1>13. ASSUME NEW p \in Process, Log!ArchiveDone(p) PROVE FlockInv'
  BY <1>13
     DEF Log!ArchiveDone, Log!ArchiveEnds, LogTypeInv, LogMuInv, FlockInv, ClosedInv, Cutting,
         Log!LogAssumption
<1>14. ASSUME NEW p \in Process, Log!ArchiveFails(p) PROVE FlockInv'
  BY <1>14
     DEF Log!ArchiveFails, Log!ArchiveEnds, LogTypeInv, LogMuInv, FlockInv, ClosedInv,
         Cutting, Log!LogAssumption
<1>15. ASSUME NEW p \in Process, Log!BeginClose(p) PROVE FlockInv'
  BY <1>15
     DEF Log!BeginClose, LogTypeInv, LogMuInv, FlockInv, ClosedInv, Cutting, Log!LogAssumption
<1>16. ASSUME NEW p \in Process, Log!Close(p) PROVE FlockInv'
  BY <1>16 DEF Log!Close, LogTypeInv, LogMuInv, FlockInv, ClosedInv, Cutting, Log!LogAssumption
<1>17. ASSUME NEW p \in Process, Log!Die(p) PROVE FlockInv'
  BY <1>17 DEF Log!Die, LogTypeInv, LogMuInv, FlockInv, ClosedInv, Cutting, Log!LogAssumption
<1> QED
  BY <1>1, <1>2, <1>3, <1>4, <1>5, <1>6, <1>7, <1>8, <1>9, <1>10, <1>11, <1>12, <1>13, <1>14,
       <1>15, <1>16, <1>17 DEF Log!Next

\* Rotations of a process follow each other.
LEMMA RotationKeeps ==
  ASSUME Log!LogAssumption, LogTypeInv, RotationInv, Log!Next
  PROVE  RotationInv'
<1> USE
   DEF Log!At, Log!Goto, Log!ArchiveAt, Log!ArchiveGoto, Log!fileVars, Log!flockVars,
       Log!processVars, Log!history
<1>1. ASSUME NEW w \in Writer, Log!BeginWrite(w) PROVE RotationInv'
  BY <1>1 DEF Log!BeginWrite, LogTypeInv, RotationInv, Cutting, Log!LogAssumption
<1>2. ASSUME NEW w \in Writer, Log!LockWrite(w) PROVE RotationInv'
  BY <1>2
     DEF Log!LockWrite, Log!Lock, Log!LockShared, LogTypeInv, RotationInv, Cutting,
         Log!LogAssumption
<1>3. ASSUME NEW w \in Writer, Log!AppendLine(w) PROVE RotationInv'
  <2>1. at'[w] \in {"idle", "check"} /\ \A v \in Writer \ {w} : at'[v] = at[v]
    BY <1>3 DEF Log!AppendLine, LogTypeInv
  <2>2. UNCHANGED <<rotating, archiving>>
    BY <1>3 DEF Log!AppendLine
  <2> QED
    BY <2>1, <2>2 DEF RotationInv, Cutting
<1>4. ASSUME NEW w \in Writer, Log!MaybeRotate(w) PROVE RotationInv'
  <2>1. \A v \in Writer \ {w} : at'[v] = at[v]
    BY <1>4 DEF Log!MaybeRotate, LogTypeInv
  <2>2. CASE at'[w] = "idle" /\ UNCHANGED rotating
    BY <1>4, <2>1, <2>2 DEF Log!MaybeRotate, RotationInv, Cutting
  <2>3. CASE /\ at'[w] = "rotate" /\ ~ rotating[Owner[w]]
             /\ rotating' = [rotating EXCEPT ![Owner[w]] = TRUE]
    <3>1. Owner[w] \in Process /\ UNCHANGED archiving
      BY <1>4 DEF Log!MaybeRotate, Log!LogAssumption
    <3>2. \A v \in Writer : at[v] \in {"rotate"} \cup Cutting => Owner[v] # Owner[w]
      BY <2>3 DEF RotationInv
    <3>3. archiving[Owner[w]] = "no"
      BY <2>3, <3>1 DEF RotationInv
    <3>4. rotating'[Owner[w]] /\ \A p \in Process : rotating[p] => rotating'[p]
      BY <2>3, <3>1 DEF LogTypeInv
    <3> QED
      BY <2>1, <2>3, <3>1, <3>2, <3>3, <3>4 DEF RotationInv, Log!LogAssumption
  <2> QED
    BY <1>4, <2>2, <2>3 DEF Log!MaybeRotate, LogTypeInv
<1>5. ASSUME NEW w \in Writer, Log!LockRotate(w) PROVE RotationInv'
  BY <1>5
     DEF Log!LockRotate, Log!Lock, Log!LockExclusive, LogTypeInv, RotationInv, Cutting,
         Log!LogAssumption
<1>6. ASSUME NEW w \in Writer, Log!Copy(w) PROVE RotationInv'
  BY <1>6 DEF Log!Copy, LogTypeInv, RotationInv, Cutting, Log!LogAssumption
<1>7. ASSUME NEW w \in Writer, Log!Abandon(w) PROVE RotationInv'
  BY <1>7 DEF Log!Abandon, Log!Unlock, LogTypeInv, RotationInv, Cutting, Log!LogAssumption
<1>8. ASSUME NEW w \in Writer, Log!Truncate(w) PROVE RotationInv'
  BY <1>8 DEF Log!Truncate, Log!Unlock, LogTypeInv, RotationInv, Cutting, Log!LogAssumption
<1>9. ASSUME NEW p \in Process, Log!ArchiveLock(p) PROVE RotationInv'
  BY <1>9 DEF Log!ArchiveLock, LogTypeInv, RotationInv, Cutting, Log!LogAssumption
<1>10. ASSUME NEW p \in Process, Log!ArchiveDrop(p) PROVE RotationInv'
  BY <1>10 DEF Log!ArchiveDrop, LogTypeInv, RotationInv, Cutting, Log!LogAssumption
<1>11. ASSUME NEW p \in Process, Log!ArchiveShift(p) PROVE RotationInv'
  BY <1>11 DEF Log!ArchiveShift, LogTypeInv, RotationInv, Cutting, Log!LogAssumption
<1>12. ASSUME NEW p \in Process, Log!ArchiveCopy(p) PROVE RotationInv'
  BY <1>12 DEF Log!ArchiveCopy, LogTypeInv, RotationInv, Cutting, Log!LogAssumption
<1>13. ASSUME NEW p \in Process, Log!ArchiveDone(p) PROVE RotationInv'
  BY <1>13
     DEF Log!ArchiveDone, Log!ArchiveEnds, LogTypeInv, RotationInv, Cutting, Log!LogAssumption
<1>14. ASSUME NEW p \in Process, Log!ArchiveFails(p) PROVE RotationInv'
  BY <1>14
     DEF Log!ArchiveFails, Log!ArchiveEnds, LogTypeInv, RotationInv, Cutting,
         Log!LogAssumption
<1>15. ASSUME NEW p \in Process, Log!BeginClose(p) PROVE RotationInv'
  BY <1>15 DEF Log!BeginClose, LogTypeInv, RotationInv, Cutting, Log!LogAssumption
<1>16. ASSUME NEW p \in Process, Log!Close(p) PROVE RotationInv'
  BY <1>16 DEF Log!Close, LogTypeInv, RotationInv, Cutting, Log!LogAssumption
<1>17. ASSUME NEW p \in Process, Log!Die(p) PROVE RotationInv'
  BY <1>17 DEF Log!Die, LogTypeInv, RotationInv, Cutting, Log!LogAssumption
<1> QED
  BY <1>1, <1>2, <1>3, <1>4, <1>5, <1>6, <1>7, <1>8, <1>9, <1>10, <1>11, <1>12, <1>13, <1>14,
       <1>15, <1>16, <1>17 DEF Log!Next

\* A closed process is in the midst of nothing, or of something bare.
LEMMA ClosedKeeps ==
  ASSUME Log!LogAssumption, LogTypeInv, FlockInv, ClosedInv, Log!Next
  PROVE  ClosedInv'
<1> USE
   DEF Log!At, Log!Goto, Log!ArchiveAt, Log!ArchiveGoto, Log!fileVars, Log!flockVars,
       Log!processVars, Log!history
<1>1. ASSUME NEW w \in Writer, Log!BeginWrite(w) PROVE ClosedInv'
  BY <1>1 DEF Log!BeginWrite, LogTypeInv, FlockInv, ClosedInv, Cutting, Log!LogAssumption
<1>2. ASSUME NEW w \in Writer, Log!LockWrite(w) PROVE ClosedInv'
  BY <1>2
     DEF Log!LockWrite, Log!Lock, Log!LockShared, LogTypeInv, FlockInv, ClosedInv, Cutting,
         Log!LogAssumption
<1>3. ASSUME NEW w \in Writer, Log!AppendLine(w) PROVE ClosedInv'
  BY <1>3
     DEF Log!AppendLine, Log!Unlock, LogTypeInv, FlockInv, ClosedInv, Cutting,
         Log!LogAssumption
<1>4. ASSUME NEW w \in Writer, Log!MaybeRotate(w) PROVE ClosedInv'
  BY <1>4 DEF Log!MaybeRotate, LogTypeInv, FlockInv, ClosedInv, Cutting, Log!LogAssumption
<1>5. ASSUME NEW w \in Writer, Log!LockRotate(w) PROVE ClosedInv'
  BY <1>5
     DEF Log!LockRotate, Log!Lock, Log!LockExclusive, LogTypeInv, FlockInv, ClosedInv,
         Cutting, Log!LogAssumption
<1>6. ASSUME NEW w \in Writer, Log!Copy(w) PROVE ClosedInv'
  BY <1>6 DEF Log!Copy, LogTypeInv, FlockInv, ClosedInv, Cutting, Log!LogAssumption
<1>7. ASSUME NEW w \in Writer, Log!Abandon(w) PROVE ClosedInv'
  BY <1>7
     DEF Log!Abandon, Log!Unlock, LogTypeInv, FlockInv, ClosedInv, Cutting, Log!LogAssumption
<1>8. ASSUME NEW w \in Writer, Log!Truncate(w) PROVE ClosedInv'
  BY <1>8
     DEF Log!Truncate, Log!Unlock, LogTypeInv, FlockInv, ClosedInv, Cutting, Log!LogAssumption
<1>9. ASSUME NEW p \in Process, Log!ArchiveLock(p) PROVE ClosedInv'
  BY <1>9 DEF Log!ArchiveLock, LogTypeInv, FlockInv, ClosedInv, Cutting, Log!LogAssumption
<1>10. ASSUME NEW p \in Process, Log!ArchiveDrop(p) PROVE ClosedInv'
  BY <1>10 DEF Log!ArchiveDrop, LogTypeInv, FlockInv, ClosedInv, Cutting, Log!LogAssumption
<1>11. ASSUME NEW p \in Process, Log!ArchiveShift(p) PROVE ClosedInv'
  BY <1>11 DEF Log!ArchiveShift, LogTypeInv, FlockInv, ClosedInv, Cutting, Log!LogAssumption
<1>12. ASSUME NEW p \in Process, Log!ArchiveCopy(p) PROVE ClosedInv'
  BY <1>12 DEF Log!ArchiveCopy, LogTypeInv, FlockInv, ClosedInv, Cutting, Log!LogAssumption
<1>13. ASSUME NEW p \in Process, Log!ArchiveDone(p) PROVE ClosedInv'
  BY <1>13
     DEF Log!ArchiveDone, Log!ArchiveEnds, LogTypeInv, FlockInv, ClosedInv, Cutting,
         Log!LogAssumption
<1>14. ASSUME NEW p \in Process, Log!ArchiveFails(p) PROVE ClosedInv'
  BY <1>14
     DEF Log!ArchiveFails, Log!ArchiveEnds, LogTypeInv, FlockInv, ClosedInv, Cutting,
         Log!LogAssumption
<1>15. ASSUME NEW p \in Process, Log!BeginClose(p) PROVE ClosedInv'
  BY <1>15 DEF Log!BeginClose, LogTypeInv, FlockInv, ClosedInv, Cutting, Log!LogAssumption
<1>16. ASSUME NEW p \in Process, Log!Close(p) PROVE ClosedInv'
  BY <1>16 DEF Log!Close, LogTypeInv, FlockInv, ClosedInv, Cutting, Log!LogAssumption
<1>17. ASSUME NEW p \in Process, Log!Die(p) PROVE ClosedInv'
  BY <1>17 DEF Log!Die, LogTypeInv, FlockInv, ClosedInv, Cutting, Log!LogAssumption
<1> QED
  BY <1>1, <1>2, <1>3, <1>4, <1>5, <1>6, <1>7, <1>8, <1>9, <1>10, <1>11, <1>12, <1>13, <1>14,
       <1>15, <1>16, <1>17 DEF Log!Next

\* Archive goroutines follow each other.
LEMMA ArchiveKeeps ==
  ASSUME Log!LogAssumption, LogTypeInv, RotationInv, ClosedInv, ~ bare => ArchiveInv,
         ~ bare', Log!Next
  PROVE  ArchiveInv'
<1> USE
   DEF Log!At, Log!Goto, Log!ArchiveAt, Log!ArchiveGoto, Log!fileVars, Log!flockVars,
       Log!processVars, Log!history
<1>1. ASSUME NEW w \in Writer, Log!BeginWrite(w) PROVE ArchiveInv'
  BY <1>1
     DEF Log!BeginWrite, LogTypeInv, RotationInv, ClosedInv, ArchiveInv, Shuffling, Cutting,
         Log!LogAssumption
<1>2. ASSUME NEW w \in Writer, Log!LockWrite(w) PROVE ArchiveInv'
  BY <1>2
     DEF Log!LockWrite, Log!Lock, Log!LockShared, LogTypeInv, RotationInv, ClosedInv,
         ArchiveInv, Shuffling, Cutting, Log!LogAssumption
<1>3. ASSUME NEW w \in Writer, Log!AppendLine(w) PROVE ArchiveInv'
  BY <1>3
     DEF Log!AppendLine, Log!Unlock, LogTypeInv, RotationInv, ClosedInv, ArchiveInv,
         Shuffling, Cutting, Log!LogAssumption
<1>4. ASSUME NEW w \in Writer, Log!MaybeRotate(w) PROVE ArchiveInv'
  BY <1>4
     DEF Log!MaybeRotate, LogTypeInv, RotationInv, ClosedInv, ArchiveInv, Shuffling, Cutting,
         Log!LogAssumption
<1>5. ASSUME NEW w \in Writer, Log!LockRotate(w) PROVE ArchiveInv'
  BY <1>5
     DEF Log!LockRotate, Log!Lock, Log!LockExclusive, LogTypeInv, RotationInv, ClosedInv,
         ArchiveInv, Shuffling, Cutting, Log!LogAssumption
<1>6. ASSUME NEW w \in Writer, Log!Copy(w) PROVE ArchiveInv'
  BY <1>6
     DEF Log!Copy, LogTypeInv, RotationInv, ClosedInv, ArchiveInv, Shuffling, Cutting,
         Log!LogAssumption
<1>7. ASSUME NEW w \in Writer, Log!Abandon(w) PROVE ArchiveInv'
  BY <1>7
     DEF Log!Abandon, Log!Unlock, LogTypeInv, RotationInv, ClosedInv, ArchiveInv, Shuffling,
         Cutting, Log!LogAssumption
<1>8. ASSUME NEW w \in Writer, Log!Truncate(w) PROVE ArchiveInv'
  BY <1>8
     DEF Log!Truncate, Log!Unlock, LogTypeInv, RotationInv, ClosedInv, ArchiveInv, Shuffling,
         Cutting, Log!LogAssumption
<1>9. ASSUME NEW p \in Process, Log!ArchiveLock(p) PROVE ArchiveInv'
  BY <1>9
     DEF Log!ArchiveLock, LogTypeInv, RotationInv, ClosedInv, ArchiveInv, Shuffling, Cutting,
         Log!LogAssumption
<1>10. ASSUME NEW p \in Process, Log!ArchiveDrop(p) PROVE ArchiveInv'
  BY <1>10
     DEF Log!ArchiveDrop, LogTypeInv, RotationInv, ClosedInv, ArchiveInv, Shuffling, Cutting,
         Log!LogAssumption
<1>11. ASSUME NEW p \in Process, Log!ArchiveShift(p) PROVE ArchiveInv'
  BY <1>11
     DEF Log!ArchiveShift, LogTypeInv, RotationInv, ClosedInv, ArchiveInv, Shuffling, Cutting,
         Log!LogAssumption
<1>12. ASSUME NEW p \in Process, Log!ArchiveCopy(p) PROVE ArchiveInv'
  BY <1>12
     DEF Log!ArchiveCopy, LogTypeInv, RotationInv, ClosedInv, ArchiveInv, Shuffling, Cutting,
         Log!LogAssumption
<1>13. ASSUME NEW p \in Process, Log!ArchiveDone(p) PROVE ArchiveInv'
  BY <1>13
     DEF Log!ArchiveDone, Log!ArchiveEnds, LogTypeInv, RotationInv, ClosedInv, ArchiveInv,
         Shuffling, Cutting, Log!LogAssumption
<1>14. ASSUME NEW p \in Process, Log!ArchiveFails(p) PROVE ArchiveInv'
  BY <1>14
     DEF Log!ArchiveFails, Log!ArchiveEnds, LogTypeInv, RotationInv, ClosedInv, ArchiveInv,
         Shuffling, Cutting, Log!LogAssumption
<1>15. ASSUME NEW p \in Process, Log!BeginClose(p) PROVE ArchiveInv'
  BY <1>15
     DEF Log!BeginClose, LogTypeInv, RotationInv, ClosedInv, ArchiveInv, Shuffling, Cutting,
         Log!LogAssumption
<1>16. ASSUME NEW p \in Process, Log!Close(p) PROVE ArchiveInv'
  BY <1>16 DEF Log!Close, LogTypeInv, RotationInv, ClosedInv, ArchiveInv, Shuffling, Cutting,
       Log!LogAssumption
<1>17. ASSUME NEW p \in Process, Log!Die(p) PROVE ArchiveInv'
  BY <1>17
     DEF Log!Die, LogTypeInv, RotationInv, ClosedInv, ArchiveInv, Shuffling, Cutting,
         Log!LogAssumption
<1> QED
  BY <1>1, <1>2, <1>3, <1>4, <1>5, <1>6, <1>7, <1>8, <1>9, <1>10, <1>11, <1>12, <1>13, <1>14,
       <1>15, <1>16, <1>17 DEF Log!Next

\* The copy stays the log until that is truncated.
LEMMA CopyKeeps ==
  ASSUME Log!LogAssumption, LogTypeInv, LogMuInv, FlockInv, RotationInv, ClosedInv,
         ~ bare => CopyInv,
         ~ bare', Log!Next
  PROVE  CopyInv'
<1> USE
   DEF Log!At, Log!Goto, Log!ArchiveAt, Log!ArchiveGoto, Log!fileVars, Log!flockVars,
       Log!processVars, Log!history
<1>1. ASSUME NEW w \in Writer, Log!BeginWrite(w) PROVE CopyInv'
  BY <1>1
     DEF Log!BeginWrite, LogTypeInv, LogMuInv, FlockInv, RotationInv, ClosedInv, CopyInv,
         Cutting, Log!LogAssumption
<1>2. ASSUME NEW w \in Writer, Log!LockWrite(w) PROVE CopyInv'
  BY <1>2
     DEF Log!LockWrite, Log!Lock, Log!LockShared, LogTypeInv, LogMuInv, FlockInv, RotationInv,
         ClosedInv, CopyInv, Cutting, Log!LogAssumption
<1>3. ASSUME NEW w \in Writer, Log!AppendLine(w) PROVE CopyInv'
  <2>1. at'[w] # "truncate" /\ at[w] # "truncate" /\ \A v \in Writer \ {w} : at'[v] = at[v]
    BY <1>3 DEF Log!AppendLine, LogTypeInv
  <2>2. ~ bare /\ UNCHANGED <<tmp, archiving>>
    BY <1>3 DEF Log!AppendLine
  <2>3. (\E v \in Writer : at[v] = "truncate") => UNCHANGED log
    <3> SUFFICES ASSUME NEW v \in Writer, at[v] = "truncate" PROVE UNCHANGED log
      OBVIOUS
    <3>1. exclusive = Owner[v] /\ Owner[v] # Nobody
      BY <2>2 DEF FlockInv, Cutting, Log!LogAssumption
    <3>2. shared = {}
      BY <3>1 DEF FlockInv
    <3>3. shut[Owner[w]] = "closed"
      BY <1>3, <3>2 DEF Log!AppendLine, FlockInv
    <3> QED
      BY <1>3, <3>3 DEF Log!AppendLine
  <2> QED
    BY <2>1, <2>2, <2>3 DEF CopyInv
<1>4. ASSUME NEW w \in Writer, Log!MaybeRotate(w) PROVE CopyInv'
  BY <1>4
     DEF Log!MaybeRotate, LogTypeInv, LogMuInv, FlockInv, RotationInv, ClosedInv, CopyInv,
         Cutting, Log!LogAssumption
<1>5. ASSUME NEW w \in Writer, Log!LockRotate(w) PROVE CopyInv'
  BY <1>5
     DEF Log!LockRotate, Log!Lock, Log!LockExclusive, LogTypeInv, LogMuInv, FlockInv,
         RotationInv, ClosedInv, CopyInv, Cutting, Log!LogAssumption
<1>6. ASSUME NEW w \in Writer, Log!Copy(w) PROVE CopyInv'
  BY <1>6
     DEF Log!Copy, LogTypeInv, LogMuInv, FlockInv, RotationInv, ClosedInv, CopyInv, Cutting,
         Log!LogAssumption
<1>7. ASSUME NEW w \in Writer, Log!Abandon(w) PROVE CopyInv'
  BY <1>7
     DEF Log!Abandon, Log!Unlock, LogTypeInv, LogMuInv, FlockInv, RotationInv, ClosedInv,
         CopyInv, Cutting, Log!LogAssumption
<1>8. ASSUME NEW w \in Writer, Log!Truncate(w) PROVE CopyInv'
  BY <1>8
     DEF Log!Truncate, Log!Unlock, LogTypeInv, LogMuInv, FlockInv, RotationInv, ClosedInv,
         CopyInv, Cutting, Log!LogAssumption
<1>9. ASSUME NEW p \in Process, Log!ArchiveLock(p) PROVE CopyInv'
  BY <1>9
     DEF Log!ArchiveLock, LogTypeInv, LogMuInv, FlockInv, RotationInv, ClosedInv, CopyInv,
         Cutting, Log!LogAssumption
<1>10. ASSUME NEW p \in Process, Log!ArchiveDrop(p) PROVE CopyInv'
  BY <1>10
     DEF Log!ArchiveDrop, LogTypeInv, LogMuInv, FlockInv, RotationInv, ClosedInv, CopyInv,
         Cutting, Log!LogAssumption
<1>11. ASSUME NEW p \in Process, Log!ArchiveShift(p) PROVE CopyInv'
  BY <1>11
     DEF Log!ArchiveShift, LogTypeInv, LogMuInv, FlockInv, RotationInv, ClosedInv, CopyInv,
         Cutting, Log!LogAssumption
<1>12. ASSUME NEW p \in Process, Log!ArchiveCopy(p) PROVE CopyInv'
  BY <1>12
     DEF Log!ArchiveCopy, LogTypeInv, LogMuInv, FlockInv, RotationInv, ClosedInv, CopyInv,
         Cutting, Log!LogAssumption
<1>13. ASSUME NEW p \in Process, Log!ArchiveDone(p) PROVE CopyInv'
  BY <1>13
     DEF Log!ArchiveDone, Log!ArchiveEnds, LogTypeInv, LogMuInv, FlockInv, RotationInv,
         ClosedInv, CopyInv, Cutting, Log!LogAssumption
<1>14. ASSUME NEW p \in Process, Log!ArchiveFails(p) PROVE CopyInv'
  BY <1>14
     DEF Log!ArchiveFails, Log!ArchiveEnds, LogTypeInv, LogMuInv, FlockInv, RotationInv,
         ClosedInv, CopyInv, Cutting, Log!LogAssumption
<1>15. ASSUME NEW p \in Process, Log!BeginClose(p) PROVE CopyInv'
  BY <1>15
     DEF Log!BeginClose, LogTypeInv, LogMuInv, FlockInv, RotationInv, ClosedInv, CopyInv,
         Cutting, Log!LogAssumption
<1>16. ASSUME NEW p \in Process, Log!Close(p) PROVE CopyInv'
  BY <1>16
     DEF Log!Close, LogTypeInv, LogMuInv, FlockInv, RotationInv, ClosedInv, CopyInv, Cutting,
         Log!LogAssumption
<1>17. ASSUME NEW p \in Process, Log!Die(p) PROVE CopyInv'
  BY <1>17
     DEF Log!Die, LogTypeInv, LogMuInv, FlockInv, RotationInv, ClosedInv, CopyInv, Cutting,
         Log!LogAssumption
<1> QED
  BY <1>1, <1>2, <1>3, <1>4, <1>5, <1>6, <1>7, <1>8, <1>9, <1>10, <1>11, <1>12, <1>13, <1>14,
       <1>15, <1>16, <1>17 DEF Log!Next

-----------------------------------------------------------------------------
(* The log: no line is lost. *)

Has(x) ==
  \/ x \in Log!In(log)
  \/ \E p \in Process : x \in Log!In(tmp[p])
  \/ \E s \in strays : x \in Log!In(s)
  \/ \E i \in 1 .. Keep : x \in Log!In(backup[i])
  \/ x \in dropped

LEMMA LossIsHas == NothingIsLost <=> (bare \/ \A x \in 1 .. written : Has(x))
  BY DEF NothingIsLost, Log!NothingIsLost, Has, Log!Copies, Log!Backups

\* A line that is somewhere is somewhere after every step.
LEMMA HasKeeps ==
  ASSUME Log!LogAssumption, LogTypeInv, RotationInv, ArchiveInv, CopyInv, NEW x, Has(x), Log!Next
  PROVE  Has(x)'
<1> USE
   DEF Log!At, Log!Goto, Log!ArchiveAt, Log!ArchiveGoto, Log!fileVars, Log!flockVars,
       Log!processVars, Log!history
<1>1. ASSUME NEW w \in Writer, Log!BeginWrite(w) PROVE Has(x)'
  BY <1>1 DEF Log!BeginWrite, Has
<1>2. ASSUME NEW w \in Writer, Log!LockWrite(w) PROVE Has(x)'
  BY <1>2 DEF Log!LockWrite, Log!Lock, Log!LockShared, Has
<1>3. ASSUME NEW w \in Writer, Log!AppendLine(w) PROVE Has(x)'
  <2>1. CASE UNCHANGED log
    BY <1>3, <2>1 DEF Log!AppendLine, Has
  <2>2. CASE log' = Append(log, written + 1) /\ written < MaxLines
    <3>1. written + 1 \in Log!Line
      BY <2>2 DEF LogTypeInv, Log!LogAssumption, Log!Line
    <3>2. Log!In(log') = Log!In(log) \cup {written + 1}
      BY <2>2, <3>1, InAppend DEF LogTypeInv
    <3> QED
      BY <1>3, <3>2 DEF Log!AppendLine, Has
  <2> QED
    BY <1>3, <2>1, <2>2 DEF Log!AppendLine, LogTypeInv, Log!LogAssumption
<1>4. ASSUME NEW w \in Writer, Log!MaybeRotate(w) PROVE Has(x)'
  BY <1>4 DEF Log!MaybeRotate, Has
<1>5. ASSUME NEW w \in Writer, Log!LockRotate(w) PROVE Has(x)'
  BY <1>5 DEF Log!LockRotate, Log!Lock, Log!LockExclusive, Has
<1>6. ASSUME NEW w \in Writer, Log!Copy(w) PROVE Has(x)'
  <2>1. Owner[w] \in Process /\ at[w] = "copy"
    BY <1>6 DEF Log!Copy, Log!LogAssumption
  <2>2. archiving[Owner[w]] = "no" /\ \A v \in Writer : Owner[v] = Owner[w] => at[v] # "truncate"
    BY <2>1 DEF RotationInv, Cutting
  <2>3. tmp[Owner[w]] = <<>>
    BY <2>1, <2>2 DEF CopyInv
  <2>4. \A p \in Process : Log!In(tmp[p]) \subseteq Log!In(tmp'[p])
    BY <1>6, <2>1, <2>3, InEmpty DEF Log!Copy, LogTypeInv
  <2> QED
    BY <1>6, <2>4 DEF Log!Copy, Has
<1>7. ASSUME NEW w \in Writer, Log!Abandon(w) PROVE Has(x)'
  BY <1>7 DEF Log!Abandon, Log!Unlock, Has
<1>8. ASSUME NEW w \in Writer, Log!Truncate(w) PROVE Has(x)'
  <2>1. Owner[w] \in Process /\ tmp[Owner[w]] = log
    BY <1>8 DEF Log!Truncate, CopyInv, Log!LogAssumption
  <2> QED
    BY <1>8, <2>1 DEF Log!Truncate, Has
<1>9. ASSUME NEW p \in Process, Log!ArchiveLock(p) PROVE Has(x)'
  BY <1>9 DEF Log!ArchiveLock, Has
<1>10. ASSUME NEW p \in Process, Log!ArchiveDrop(p) PROVE Has(x)'
  <2>1. \A i \in (1 .. Keep) \ {Keep} : backup'[i] = backup[i]
    BY <1>10 DEF Log!ArchiveDrop, LogTypeInv
  <2>2. dropped' = dropped \cup Log!In(backup[Keep]) /\ UNCHANGED <<log, tmp, strays>>
    BY <1>10 DEF Log!ArchiveDrop
  <2> QED
    BY <2>1, <2>2 DEF Has
<1>11. ASSUME NEW p \in Process, Log!ArchiveShift(p) PROVE Has(x)'
  <2>1. backup[Keep] = <<>>
    BY <1>11 DEF Log!ArchiveShift, ArchiveInv
  <2>2. \A i \in 1 .. Keep : i # Keep => i + 1 \in 1 .. Keep /\ backup'[i + 1] = backup[i]
    BY <1>11 DEF Log!ArchiveShift, Log!LogAssumption
  <2>3. UNCHANGED <<log, tmp, strays, dropped>>
    BY <1>11 DEF Log!ArchiveShift
  <2>4. ASSUME NEW i \in 1 .. Keep, x \in Log!In(backup[i]) PROVE Has(x)'
    <3>1. i # Keep
      BY <2>1, <2>4, InEmpty
    <3> QED
      BY <2>2, <2>4, <3>1 DEF Has
  <2> QED
    BY <2>3, <2>4 DEF Has
<1>12. ASSUME NEW p \in Process, Log!ArchiveCopy(p) PROVE Has(x)'
  <2>1. 1 \in 1 .. Keep /\ backup[1] = <<>>
    BY <1>12 DEF Log!ArchiveCopy, ArchiveInv, Log!LogAssumption
  <2>2. \A i \in 1 .. Keep : Log!In(backup[i]) \subseteq Log!In(backup'[i])
    BY <1>12, <2>1, InEmpty DEF Log!ArchiveCopy, LogTypeInv
  <2> QED
    BY <1>12, <2>2 DEF Log!ArchiveCopy, Has
<1>13. ASSUME NEW p \in Process, Log!ArchiveDone(p) PROVE Has(x)'
  <2>1. 1 \in 1 .. Keep /\ backup[1] = tmp[p]
    BY <1>13 DEF Log!ArchiveDone, ArchiveInv, Log!LogAssumption
  <2>2. \A q \in Process \ {p} : tmp'[q] = tmp[q]
    BY <1>13 DEF Log!ArchiveDone, Log!ArchiveEnds, LogTypeInv
  <2>3. UNCHANGED <<log, strays, backup, dropped>>
    BY <1>13 DEF Log!ArchiveDone
  <2> QED
    BY <2>1, <2>2, <2>3 DEF Has
<1>14. ASSUME NEW p \in Process, Log!ArchiveFails(p) PROVE Has(x)'
  <2>1. \A q \in Process \ {p} : tmp'[q] = tmp[q]
    BY <1>14 DEF Log!ArchiveFails, Log!ArchiveEnds, LogTypeInv
  <2>2. strays' = strays \cup {tmp[p]} /\ UNCHANGED <<log, backup, dropped>>
    BY <1>14 DEF Log!ArchiveFails
  <2> QED
    BY <2>1, <2>2 DEF Has
<1>15. ASSUME NEW p \in Process, Log!BeginClose(p) PROVE Has(x)'
  BY <1>15 DEF Log!BeginClose, Has
<1>16. ASSUME NEW p \in Process, Log!Close(p) PROVE Has(x)'
  BY <1>16 DEF Log!Close, Has
<1>17. ASSUME NEW p \in Process, Log!Die(p) PROVE Has(x)'
  <2>1. \A q \in Process \ {p} : tmp'[q] = tmp[q]
    BY <1>17 DEF Log!Die, LogTypeInv
  <2>2. tmp[p] = <<>> \/ tmp[p] \in strays'
    BY <1>17 DEF Log!Die
  <2>3. strays \subseteq strays' /\ UNCHANGED <<log, backup, dropped>>
    BY <1>17 DEF Log!Die
  <2> QED
    BY <2>1, <2>2, <2>3, InEmpty DEF Has
<1> QED
  BY <1>1, <1>2, <1>3, <1>4, <1>5, <1>6, <1>7, <1>8, <1>9, <1>10, <1>11, <1>12, <1>13, <1>14,
       <1>15, <1>16, <1>17 DEF Log!Next

\* And a new line is in the log.
LEMMA LossKeeps ==
  ASSUME Log!LogAssumption, LogTypeInv, RotationInv, NothingIsLost,
         ~ bare => ArchiveInv /\ CopyInv,
         ~ bare', Log!Next
  PROVE  NothingIsLost'
<1>1. ~ bare
  BY DEF Log!Next, Log!BeginWrite, Log!LockWrite, Log!AppendLine, Log!MaybeRotate,
     Log!LockRotate, Log!Copy, Log!Abandon, Log!Truncate, Log!ArchiveLock, Log!ArchiveDrop,
     Log!ArchiveShift, Log!ArchiveCopy, Log!ArchiveDone, Log!ArchiveFails, Log!BeginClose,
     Log!Close, Log!Die, Log!history, LogTypeInv
<1>2. \A x \in 1 .. written : Has(x)'
  BY <1>1, HasKeeps, LossIsHas
<1>3. UNCHANGED written \/ \E w \in Writer : Log!AppendLine(w) /\ written' = written + 1
  BY DEF Log!Next, Log!BeginWrite, Log!LockWrite, Log!AppendLine, Log!MaybeRotate,
     Log!LockRotate, Log!Copy, Log!Abandon, Log!Truncate, Log!ArchiveLock, Log!ArchiveDrop,
     Log!ArchiveShift, Log!ArchiveCopy, Log!ArchiveDone, Log!ArchiveFails, Log!BeginClose,
     Log!Close, Log!Die, Log!history
<1>4. CASE UNCHANGED written
  BY <1>2, <1>4 DEF NothingIsLost, Log!NothingIsLost, Has, Log!Copies, Log!Backups
<1>5. ASSUME NEW w \in Writer, Log!AppendLine(w), written' = written + 1
      PROVE  NothingIsLost'
  <2>1. written \in Nat /\ written + 1 # written
    BY DEF LogTypeInv, Log!LogAssumption
  <2>2. log' = Append(log, written + 1) /\ written < MaxLines
    BY <1>5, <2>1 DEF Log!AppendLine, LogTypeInv, Log!LogAssumption
  <2>3. written + 1 \in Log!Line
    BY <2>1, <2>2 DEF Log!LogAssumption, Log!Line
  <2>4. written + 1 \in Log!In(log')
    BY <2>2, <2>3, InAppend DEF LogTypeInv
  <2>5. 1 .. written' = (1 .. written) \cup {written + 1}
    BY <1>5, <2>1
  <2>6. \A x \in 1 .. written' : Has(x)'
    BY <1>2, <2>4, <2>5 DEF Has
  <2> QED
    BY <2>6 DEF NothingIsLost, Log!NothingIsLost, Has, Log!Copies, Log!Backups
<1> QED
  BY <1>3, <1>4, <1>5

-----------------------------------------------------------------------------
(* The log: the theorems. *)

LEMMA LogInitInv ==
  ASSUME Log!LogAssumption, Log!Init
  PROVE  LogIInv
<1>1. LogTypeInv
  <2>1. tmp \in [Process -> Seq(Log!Line)] /\ backup \in [1 .. Keep -> Seq(Log!Line)]
    BY InEmpty DEF Log!Init
  <2>2. log \in Seq(Log!Line) /\ Log!In(log) = {} /\ written \in 0 .. MaxLines
    BY InEmpty DEF Log!Init, Log!LogAssumption
  <2> QED
    BY <2>1, <2>2 DEF Log!Init, LogTypeInv
<1>2. LogMuInv /\ FlockInv /\ RotationInv /\ ClosedInv
  BY DEF Log!Init, LogMuInv, FlockInv, RotationInv, ClosedInv, Cutting, Log!LogAssumption
<1>3. ArchiveInv /\ CopyInv
  BY DEF Log!Init, ArchiveInv, CopyInv, Shuffling
<1>4. NothingIsLost
  BY DEF Log!Init, NothingIsLost, Log!NothingIsLost
<1> QED
  BY <1>1, <1>2, <1>3, <1>4 DEF LogIInv

LEMMA LogStepInv ==
  ASSUME Log!LogAssumption, LogIInv, [Log!Next]_(Log!vars)
  PROVE  LogIInv'
<1>1. CASE UNCHANGED Log!vars
  <2> USE <1>1 DEF Log!vars, Log!fileVars, Log!flockVars, Log!processVars, Log!history, LogIInv
  <2>1. LogTypeInv'
    BY DEF LogTypeInv, Log!In
  <2>2. LogMuInv' /\ FlockInv'
    BY DEF LogMuInv, FlockInv
  <2>3. RotationInv' /\ ClosedInv'
    BY DEF RotationInv, ClosedInv
  <2>4. ~ bare' => ArchiveInv' /\ CopyInv'
    BY DEF ArchiveInv, CopyInv
  <2>5. NothingIsLost'
    BY DEF NothingIsLost, Log!NothingIsLost, Log!Copies, Log!Backups, Log!In
  <2> QED
    BY <2>1, <2>2, <2>3, <2>4, <2>5
<1>2. CASE Log!Next
  <2>1. LogTypeInv' /\ LogMuInv' /\ FlockInv' /\ RotationInv' /\ ClosedInv'
    BY <1>2, LogTypeKeeps, LogMuKeeps, FlockKeeps, RotationKeeps, ClosedKeeps DEF LogIInv
  <2>2. ASSUME ~ bare' PROVE ArchiveInv' /\ CopyInv' /\ NothingIsLost'
    BY <1>2, <2>2, ArchiveKeeps, CopyKeeps, LossKeeps DEF LogIInv
  <2>3. NothingIsLost'
    BY <2>2 DEF NothingIsLost, Log!NothingIsLost
  <2> QED
    BY <2>1, <2>2, <2>3 DEF LogIInv
<1> QED
  BY <1>1, <1>2

\* The state is what TypeOK says: in particular nobody writes while another
\* process cuts the log (the flocks of rotate.go), whatever the constants.
THEOREM TypeCorrect == Log!Spec => []Log!TypeOK
<1>1. LogIInv => Log!TypeOK
  BY DEF LogIInv, LogTypeInv, LogMuInv, FlockInv, Log!TypeOK
<1> QED
  BY <1>1, LogInitInv, LogStepInv, LogConstants, PTL DEF Log!Spec

\* However writers, rotations, archives, failures, closes and deaths interleave,
\* a line once written is in the log, a copy or a backup until it was in the
\* oldest backup (copyAndTruncate and archive), for any number of processes,
\* writers, backups and lines; but for a process closed in its own rotation.
THEOREM LosesNoLine == Log!Spec => []NothingIsLost
<1>1. LogIInv => NothingIsLost
  BY DEF LogIInv
<1> QED
  BY <1>1, LogInitInv, LogStepInv, LogConstants, PTL DEF Log!Spec
=============================================================================

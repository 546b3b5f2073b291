------------------------- MODULE AuthStorageProofs -------------------------
(***************************************************************************)
(* Proofs about AuthStorage: for any processes, goroutines and accounts,   *)
(* a refresh token is used once and a slot that holds a used one is being  *)
(* rotated, short of a token lost with a process or an answer, and of one  *)
(* that a stale cache put back; and no write touches a slot of others.     *)
(***************************************************************************)
EXTENDS AuthStorage, FiniteSetTheorems, SequenceTheorems, TLAPS

-----------------------------------------------------------------------------
(* The inductive invariant. *)

\* A refresh holds the file from its decision to its write.
LockInv == \A w \in Worker : pc[w] \in {"granting", "writing"} => fileLock = w

\* What an operation works on is there.
WorkInv ==
  \A w \in Worker :
    /\ pc[w] \in {"resolve", "refresh", "force", "granting", "writing", "set", "promoting"}
         => slot[w] \in Slot
    /\ pc[w] \in {"logout", "promote", "promoting"} => todo[w] # <<>>
    /\ pc[w] \in {"writing", "set"} => cred[w] \in Cred

\* The provider that gave the grants n gave c.
GivenBy(n, c) == c # NoCred => c.gen <= n[c.acct]

\* It gave every credential anywhere.
AllGivenBy(n) ==
  /\ \A x \in Slot : GivenBy(n, disk[x])
  /\ \A s \in Store, x \in Slot : GivenBy(n, data[s][x])
  /\ \A w \in Worker : GivenBy(n, cred[w])
  /\ \A w \in Worker, x \in Slot : GivenBy(n, got[w].map[x])
  /\ \A w \in Worker : \A x \in DOMAIN changes[w] : GivenBy(n, changes[w][x])
  /\ \A c \in spent : GivenBy(n, c)

GivenInv == AllGivenBy(newest)

\* A goroutine about to write a rotation has a token nobody has used or saved,
\* for the account whose token it used.
RotationInv ==
  \A w \in Worker :
    pc[w] = "writing" =>
      /\ disk[slot[w]] \in spent /\ disk[slot[w]].acct = cred[w].acct
      /\ cred[w] \notin spent
      /\ \A x \in Slot : disk[x] # cred[w]

\* One credential is in two slots only where a stale cache put it there.
SharedInv == \A x, y \in Slot : Shared(disk, x, y) => disk[x].acct \in tainted

\* The type invariant in parts.
MapTypes ==
  /\ disk \in SlotMap /\ text \in {"json", "empty", "garbage"}
  /\ data \in [Store -> SlotMap]
  /\ got \in [Worker -> [map : SlotMap, wrote : BOOLEAN]]

FlowTypes ==
  /\ fileLock \in Worker \cup {Nobody}
  /\ mu \in [Store -> Worker \cup {Nobody}]
  /\ current \in [Store -> BOOLEAN]
  /\ pc \in [Worker -> {"idle", "reload", "reading", "resolve", "refresh", "force",
                        "granting", "writing", "adopt", "set", "persist", "stamp",
                        "logout", "promote", "promoting"}]
  /\ slot \in [Worker -> Slot \cup {NoSlot}]
  /\ seen \in [Worker -> BOOLEAN]

CredTypes ==
  /\ cred \in [Worker -> Cred \cup {NoCred}]
  /\ newest \in [Account -> 1 .. MaxTokens]
  /\ spent \subseteq Cred /\ expired \subseteq Cred
  /\ refused \subseteq Account /\ tainted \subseteq Account

ListTypes ==
  /\ DOMAIN changes = Worker
  /\ \A w \in Worker : \A x \in DOMAIN changes[w] :
       x \in Slot /\ changes[w][x] \in Cred \cup {NoCred}
  /\ todo \in [Worker -> Seq(Slot \cup {NoSlot})]

TypeInv == TypeOK /\ WorkInv
IInv == TypeInv /\ LockInv /\ GivenInv /\ RotationInv /\ SharedInv /\ NobodyStranded /\ SpentOnce

-----------------------------------------------------------------------------
(* Types. *)

LEMMA SlotsFinite == IsFiniteSet(Slot)
BY AuthAssumption, FS_Singleton, FS_Union DEF Slot

\* What is laid over a map of slots is a map of slots.
LEMMA OverlayType ==
  ASSUME NEW ch, NEW m \in SlotMap,
         \A x \in DOMAIN ch : x \in Slot /\ ch[x] \in Cred \cup {NoCred}
  PROVE  Overlay(ch, m) \in SlotMap
BY DEF Overlay, SlotMap

LEMMA CredFields == \A c \in Cred : c.acct \in Account /\ c.gen \in 1 .. MaxTokens /\ c # NoCred
BY NoneAssumption DEF Cred

LEMMA NewCred ==
  ASSUME NEW a \in Account, NEW g \in 1 .. MaxTokens
  PROVE  [acct |-> a, gen |-> g] \in Cred
BY DEF Cred

\* The next grant of an account.
LEMMA NextGrant ==
  ASSUME TypeInv, NEW a \in Account, newest[a] < MaxTokens,
         newest' = [newest EXCEPT ![a] = @ + 1]
  PROVE  newest' \in [Account -> 1 .. MaxTokens] /\ newest'[a] = newest[a] + 1
BY AuthAssumption DEF TypeInv, TypeOK

\* The operations that change the cache have slots and credentials to persist.
LEMMA ChangesTyped ==
  ASSUME TypeInv, NEW w \in Worker, NEW ch, ChangeCache(w, ch),
         \A x \in DOMAIN ch : x \in Slot /\ ch[x] \in Cred \cup {NoCred}
  PROVE  (/\ DOMAIN changes = Worker
          /\ \A v \in Worker : \A x \in DOMAIN changes[v] :
               x \in Slot /\ changes[v][x] \in Cred \cup {NoCred})'
<1>1. changes' = [changes EXCEPT ![w] = ch]
  BY DEF ChangeCache
<1>2. DOMAIN changes' = Worker
  BY <1>1 DEF TypeInv, TypeOK
<1>3. ASSUME NEW v \in Worker, NEW x \in DOMAIN changes'[v]
      PROVE  x \in Slot /\ changes'[v][x] \in Cred \cup {NoCred}
  BY <1>1, <1>3 DEF TypeInv, TypeOK
<1> QED
  BY <1>2, <1>3

LEMMA CacheTyped ==
  ASSUME TypeInv, NEW w \in Worker, NEW ch, ChangeCache(w, ch),
         \A x \in DOMAIN ch : x \in Slot /\ ch[x] \in Cred \cup {NoCred}
  PROVE  data' \in [Store -> SlotMap]
<1>1. Owner[w] \in Store
  BY AuthAssumption
<1>2. Overlay(ch, data[Owner[w]]) \in SlotMap
  BY <1>1, OverlayType DEF TypeInv, TypeOK
<1> QED
  BY <1>1, <1>2 DEF ChangeCache, TypeInv, TypeOK

LEMMA ChangeTyped ==
  ASSUME NEW x \in Slot, NEW c \in Cred \cup {NoCred}
  PROVE  \A y \in DOMAIN Change(x, c) : y \in Slot /\ Change(x, c)[y] \in Cred \cup {NoCred}
BY DEF Change

LEMMA CacheMap ==
  ASSUME TypeInv, NEW w \in Worker
  PROVE  Owner[w] \in Store /\ Cache(w) \in SlotMap
BY AuthAssumption DEF TypeInv, TypeOK, Cache

\* SetDefaultAccount changes two or three slots.
LEMMA DefaultSlot ==
  ASSUME TypeInv, NEW w \in Worker, NEW from \in Slot, SetDefaultAccount(w, from)
  PROVE  \E to \in Slot :
           ChangeCache(w, [x \in {Default, from, to} |->
             IF x = Default THEN Cache(w)[from]
             ELSE IF x = to THEN Cache(w)[Default] ELSE NoCred])
<1> DEFINE m == Cache(w)
<1>1. m \in SlotMap
  BY AuthAssumption DEF Cache, TypeInv, TypeOK
<1>2. PICK to \in IF m[Default] = NoCred THEN {from} ELSE DemotedSlots(m, m[Default], from) :
         ChangeCache(w, [x \in {Default, from, to} |->
           IF x = Default THEN m[from] ELSE IF x = to THEN m[Default] ELSE NoCred])
  BY DEF SetDefaultAccount, Cache
<1>3. to \in Slot
  <2>1. CASE m[Default] = NoCred
    BY <1>2, <2>1
  <2>2. CASE m[Default] # NoCred
    <3>1. m[Default] \in Cred /\ to \in DemotedSlots(m, m[Default], from)
      BY <1>1, <1>2, <2>2 DEF SlotMap, Slot
    <3>2. m[Default].acct \in Slot
      BY <3>1, CredFields DEF Slot
    <3> QED
      BY <3>1, <3>2 DEF DemotedSlots, Slot
  <2> QED
    BY <2>1, <2>2
<1> QED
  BY <1>2, <1>3

LEMMA DefaultTyped ==
  ASSUME TypeInv, NEW w \in Worker, NEW from \in Slot, SetDefaultAccount(w, from)
  PROVE  \E ch : /\ ChangeCache(w, ch)
                 /\ \A x \in DOMAIN ch : x \in Slot /\ ch[x] \in Cred \cup {NoCred}
<1> DEFINE m == Cache(w)
           ch(to) == [x \in {Default, from, to} |->
             IF x = Default THEN m[from] ELSE IF x = to THEN m[Default] ELSE NoCred]
<1>1. PICK to \in Slot : ChangeCache(w, ch(to))
  BY DefaultSlot
<1>2. \A x \in DOMAIN ch(to) : x \in Slot /\ ch(to)[x] \in Cred \cup {NoCred}
  BY CacheMap DEF SlotMap, Slot
<1> QED
  BY <1>1, <1>2

LEMMA AssignedTyped ==
  ASSUME NEW m \in SlotMap, NEW a \in Account
  PROVE  AssignedSlots(m, a) \subseteq Slot
BY DEF AssignedSlots, Slot

LEMMA PromotedTyped ==
  ASSUME NEW m \in SlotMap, Cardinality(Taken(m)) = 1
  PROVE  (CHOOSE x \in Taken(m) : TRUE) \in Slot
<1>1. Taken(m) # {}
  BY FS_EmptySet
<1> QED
  BY <1>1 DEF Taken

LEMMA FunctionIsSeq ==
  ASSUME NEW n \in Nat, NEW S, NEW f \in [1 .. n -> S]
  PROVE  f \in Seq(S)
OBVIOUS

\* The account that Logout promotes is one of the cache's.
LEMMA PromotesOne ==
  ASSUME TypeInv, NEW w \in Worker, Promote(w)
  PROVE  \/ NextLogout(w) /\ UNCHANGED slot
         \/ \E x \in Slot : /\ slot' = [slot EXCEPT ![w] = x]
                            /\ Goto(w, "promoting") /\ UNCHANGED todo
<1> DEFINE rest == Taken(Cache(w))
<1>1. \/ NextLogout(w) /\ UNCHANGED slot
      \/ /\ Cardinality(rest) = 1
         /\ slot' = [slot EXCEPT ![w] = CHOOSE x \in rest : TRUE]
         /\ Goto(w, "promoting") /\ UNCHANGED todo
  BY Zenon DEF Promote
<1>2. Cardinality(rest) = 1 => (CHOOSE x \in rest : TRUE) \in Slot
  BY TypeInv, CacheMap, PromotedTyped
<1> HIDE DEF rest
<1> QED
  BY <1>1, <1>2, Zenon

\* The list of slots to log out gets shorter, and is not run past its end.
LEMMA NextTyped ==
  ASSUME TypeInv, NEW w \in Worker, todo[w] # <<>>, NextLogout(w)
  PROVE  /\ todo' \in [Worker -> Seq(Slot \cup {NoSlot})]
         /\ pc'[w] \in {"idle", "logout"}
         /\ pc'[w] = "logout" => todo'[w] # <<>>
         /\ \A v \in Worker \ {w} : pc'[v] = pc[v] /\ todo'[v] = todo[v]
<1>1. todo[w] \in Seq(Slot \cup {NoSlot})
  BY DEF TypeInv, TypeOK
<1>2. Tail(todo[w]) \in Seq(Slot \cup {NoSlot}) /\ Len(Tail(todo[w])) = Len(todo[w]) - 1
  BY <1>1
<1>3. todo' = [todo EXCEPT ![w] = Tail(todo[w])]
      /\ pc' = [pc EXCEPT ![w] = IF Len(todo[w]) = 1 THEN "idle" ELSE "logout"]
  BY DEF NextLogout, Goto
<1>4. Len(todo[w]) # 1 => Tail(todo[w]) # <<>>
  <2> DEFINE t == Tail(todo[w])
             n == Len(todo[w])
  <2>1. Len(t) = n - 1 /\ n \in Nat
    BY <1>1, <1>2
  <2>2. Len(<<>>) = 0
    OBVIOUS
  <2> HIDE DEF t, n
  <2>3. n # 1 => t # <<>>
    BY <2>1, <2>2
  <2> QED
    BY <2>3 DEF t, n
<1> QED
  BY <1>2, <1>3, <1>4 DEF TypeInv, TypeOK

\* Maps of slots stay maps of slots.
LEMMA KeepsMaps ==
  ASSUME TypeInv, NEW w \in Worker, Step(w) \/ Call(w)
  PROVE  MapTypes'
<1> USE DEF TypeInv, TypeOK, MapTypes
<1>1. CASE GetApiKey(w) \/ Reload(w) \/ RefreshAccount(w) \/ Login(w) \/
           Logout(w) \/ BeginReload(w) \/ Resolve(w) \/ Grant(w) \/
           GrantRefused(w) \/ GrantUnanswered(w) \/ Stamp(w) \/ Promote(w) \/
           EndLogoutAll(w)
  BY <1>1 DEF GetApiKey, Reload, RefreshAccount, Login, Logout, BeginReload,
     Resolve, Grant, GrantRefused, GrantUnanswered, Stamp, Promote, EndLogoutAll,
     Goto, NextLogout, GrantFails, fileVars, cacheVars, opVars, providerVars
<1>2. CASE EndReload(w)
  BY <1>2, AuthAssumption DEF EndReload, fileVars, opVars
<1>3. CASE Decide(w)
  <2>1. CASE got' = got
    BY <1>3, <2>1 DEF Decide, fileVars, cacheVars
  <2>2. CASE got' = [got EXCEPT ![w] = [map |-> disk, wrote |-> FALSE]]
    BY <1>3, <2>2 DEF Decide, fileVars, cacheVars
  <2> QED
    BY <1>3, <2>1, <2>2 DEF Decide
<1>4. CASE WriteRotated(w)
  <2> DEFINE new == [disk EXCEPT ![slot[w]] = cred[w]]
  <2>1. new \in SlotMap
    BY <1>4 DEF WriteRotated, SlotMap, WorkInv
  <2> QED
    BY <1>4, <2>1 DEF WriteRotated, WriteFile
<1>5. CASE Adopt(w)
  <2>1. Owner[w] \in Store /\ got[w].map \in SlotMap
    BY AuthAssumption
  <2>2. NothingSeen \in [map : SlotMap, wrote : BOOLEAN]
    BY DEF NothingSeen, NoCreds, SlotMap
  <2> QED
    BY <1>5, <2>1, <2>2 DEF Adopt, fileVars
<1>6. CASE Set(w)
  <2>1. ChangeCache(w, Change(slot[w], cred[w])) /\ slot[w] \in Slot /\ cred[w] \in Cred
    BY <1>6 DEF Set, WorkInv
  <2>2. data' \in [Store -> SlotMap]
    BY <2>1, ChangeTyped, CacheTyped
  <2> QED
    BY <1>6, <2>2 DEF Set, fileVars
<1>7. CASE UseAccount(w)
  <2>1. PICK from \in Slot : SetDefaultAccount(w, from)
    BY <1>7 DEF UseAccount
  <2>2. data' \in [Store -> SlotMap]
    BY <2>1, DefaultTyped, CacheTyped
  <2> QED
    BY <1>7, <2>2 DEF UseAccount, fileVars
<1>8. CASE Remove(w)
  <2>1. ChangeCache(w, Change(Head(todo[w]), NoCred)) /\ Head(todo[w]) \in Slot
    BY <1>8 DEF Remove, WorkInv
  <2>2. data' \in [Store -> SlotMap]
    BY <2>1, ChangeTyped, CacheTyped
  <2> QED
    BY <1>8, <2>2 DEF Remove, fileVars
<1>9. CASE Promoting(w)
  <2>1. CASE SetDefaultAccount(w, slot[w])
    <3>1. slot[w] \in Slot
      BY <1>9 DEF Promoting, WorkInv
    <3>2. data' \in [Store -> SlotMap]
      BY <2>1, <3>1, DefaultTyped, CacheTyped
    <3> QED
      BY <1>9, <3>2 DEF Promoting, fileVars
  <2>2. CASE UNCHANGED cacheVars
    BY <1>9, <2>2 DEF Promoting, fileVars, cacheVars
  <2> QED
    BY <1>9, <2>1, <2>2 DEF Promoting
<1>10. CASE Persist(w)
  <2>1. Overlay(changes[w], disk) \in SlotMap
    BY OverlayType
  <2> QED
    BY <1>10, <2>1 DEF Persist, WriteFile
<1> QED
  BY <1>1, <1>2, <1>3, <1>4, <1>5, <1>6, <1>7, <1>8, <1>9, <1>10 DEF Step,
     Call

\* Locks and program counters stay typed.
LEMMA KeepsFlow ==
  ASSUME TypeInv, NEW w \in Worker, Step(w) \/ Call(w)
  PROVE  FlowTypes'
<1> USE DEF TypeInv, TypeOK, FlowTypes
<1>2. CASE GetApiKey(w)
  BY <1>2 DEF GetApiKey, Goto, fileVars, cacheVars, opVars, providerVars
<1>3. CASE Reload(w)
  BY <1>3 DEF Reload, Goto, fileVars, cacheVars, opVars, providerVars
<1>4. CASE RefreshAccount(w)
  BY <1>4 DEF RefreshAccount, Goto, fileVars, cacheVars, opVars, providerVars
<1>5. CASE Login(w)
  <2>1. PICK a \in Account : \E x \in AssignedSlots(Cache(w), a) : slot' = [slot EXCEPT ![w] = x]
    BY <1>5 DEF Login
  <2>2. PICK x \in Slot : slot' = [slot EXCEPT ![w] = x]
    BY <2>1, CacheMap, AssignedTyped
  <2> QED
    BY <1>5, <2>1, <2>2 DEF Login, Goto, cacheVars
<1>6. CASE UseAccount(w)
  BY <1>6 DEF UseAccount, SetDefaultAccount, ChangeCache, Goto, fileVars,
     cacheVars, opVars, providerVars
<1>7. CASE Logout(w)
  BY <1>7 DEF Logout, Goto, fileVars, cacheVars, opVars, providerVars
<1>8. CASE BeginReload(w)
  BY <1>8 DEF BeginReload, Goto, fileVars, cacheVars, opVars, providerVars
<1>9. CASE EndReload(w)
  BY <1>9 DEF EndReload, Goto, fileVars, cacheVars, opVars, providerVars
<1>10. CASE Resolve(w)
  BY <1>10 DEF Resolve, Goto, fileVars, cacheVars, opVars, providerVars
<1>11. CASE Decide(w)
  BY <1>11 DEF Decide, Goto, fileVars, cacheVars, opVars, providerVars
<1>12. CASE Grant(w)
  BY <1>12 DEF Grant, Goto, fileVars, cacheVars, opVars, providerVars
<1>13. CASE GrantRefused(w)
  BY <1>13 DEF GrantRefused, GrantFails, Goto, fileVars, cacheVars, opVars,
     providerVars
<1>14. CASE GrantUnanswered(w)
  BY <1>14 DEF GrantUnanswered, GrantFails, Goto, fileVars, cacheVars, opVars,
     providerVars
<1>15. CASE WriteRotated(w)
  BY <1>15 DEF WriteRotated, WriteFile, Goto, fileVars, cacheVars, opVars,
     providerVars
<1>16. CASE Adopt(w)
  BY <1>16 DEF Adopt, Goto, fileVars, cacheVars, opVars, providerVars
<1>17. CASE Set(w)
  BY <1>17 DEF Set, ChangeCache, Goto, fileVars, cacheVars, opVars,
     providerVars
<1>18. CASE Persist(w)
  BY <1>18 DEF Persist, WriteFile, Goto, fileVars, cacheVars, opVars,
     providerVars
<1>19. CASE Stamp(w)
  BY <1>19 DEF Stamp, NextLogout, Goto, fileVars, cacheVars, opVars,
     providerVars
<1>20. CASE Remove(w)
  BY <1>20 DEF Remove, ChangeCache, Goto, fileVars, cacheVars, opVars,
     providerVars
<1>21. CASE Promote(w)
  <2>1. slot' \in [Worker -> Slot \cup {NoSlot}]
    BY <1>21, PromotesOne
  <2> QED
    BY <1>21, <2>1 DEF Promote, NextLogout, Goto, cacheVars
<1>22. CASE Promoting(w)
  BY <1>22 DEF Promoting, SetDefaultAccount, ChangeCache, NextLogout, Goto,
     fileVars, cacheVars, opVars, providerVars
<1>23. CASE EndLogoutAll(w)
  BY <1>23 DEF EndLogoutAll, NextLogout, Goto, fileVars, cacheVars, opVars,
     providerVars
<1> QED
  BY <1>2, <1>3, <1>4, <1>5, <1>6, <1>7, <1>8, <1>9, <1>10, <1>11, <1>12,
     <1>13, <1>14, <1>15, <1>16, <1>17, <1>18, <1>19, <1>20, <1>21, <1>22, <1>23
     DEF Step, Call

\* Credentials and what the provider knows stay typed.
LEMMA KeepsCreds ==
  ASSUME TypeInv, NEW w \in Worker, Step(w) \/ Call(w)
  PROVE  CredTypes'
<1> USE DEF TypeInv, TypeOK, CredTypes
<1>1. CASE GetApiKey(w) \/ Reload(w) \/ RefreshAccount(w) \/ UseAccount(w) \/
           Logout(w) \/ BeginReload(w) \/ EndReload(w) \/ Resolve(w) \/
           Decide(w) \/ WriteRotated(w) \/ Set(w) \/ Remove(w) \/ Promote(w)
           \/ Promoting(w) \/ EndLogoutAll(w)
  BY <1>1 DEF GetApiKey, Reload, RefreshAccount, UseAccount, Logout,
     BeginReload, EndReload, Resolve, Decide, WriteRotated, Set, Remove, Promote,
     Promoting, EndLogoutAll, Goto, NextLogout, GrantFails, fileVars, cacheVars,
     opVars, providerVars
<1>2. CASE Login(w)
  <2>1. PICK a \in Account :
          /\ newest[a] < MaxTokens
          /\ newest' = [newest EXCEPT ![a] = @ + 1]
          /\ cred' = [cred EXCEPT ![w] = [acct |-> a, gen |-> newest'[a]]]
    BY <1>2 DEF Login
  <2>2. newest' \in [Account -> 1 .. MaxTokens] /\ [acct |-> a, gen |-> newest'[a]] \in Cred
    BY <2>1, NextGrant, NewCred
  <2> QED
    BY <1>2, <2>1, <2>2 DEF Login
<1>3. CASE Grant(w)
  <2> DEFINE c == disk[slot[w]]
  <2>1. /\ c \in Cred /\ newest[c.acct] < MaxTokens
        /\ spent' = spent \cup {c}
        /\ newest' = [newest EXCEPT ![c.acct] = @ + 1]
        /\ cred' = [cred EXCEPT ![w] = [acct |-> c.acct, gen |-> newest'[c.acct]]]
    BY <1>3 DEF Grant
  <2> HIDE DEF c
  <2>2. newest' \in [Account -> 1 .. MaxTokens] /\ [acct |-> c.acct, gen |-> newest'[c.acct]] \in Cred
    BY <2>1, NextGrant, NewCred, CredFields
  <2> QED
    BY <1>3, <2>1, <2>2 DEF Grant
<1>4. CASE GrantRefused(w)
  BY <1>4, CredFields DEF GrantRefused, GrantFails
<1>5. CASE GrantUnanswered(w)
  BY <1>5, CredFields DEF GrantUnanswered, GrantFails, opVars
<1>6. CASE Adopt(w)
  BY <1>6 DEF Adopt, Goto, fileVars, cacheVars, opVars, providerVars
<1>7. CASE Persist(w)
  <2>1. ASSUME NEW x \in Outdated(changes[w], disk)
        PROVE  changes[w][x].acct \in Account
    <3>1. x \in DOMAIN changes[w] /\ x \in Slot /\ changes[w][x] \in Cred \cup {NoCred}
      BY <2>1 DEF Outdated
    <3>2. changes[w][x] # NoCred
      BY <2>1, <3>1, CredFields DEF Outdated, Shared, Overlay
    <3> QED
      BY <3>1, <3>2, CredFields
  <2> QED
    BY <1>7, <2>1 DEF Persist, providerVars
<1>8. CASE Stamp(w)
  BY <1>8 DEF Stamp, NextLogout, Goto, fileVars, cacheVars, opVars,
     providerVars
<1> QED
  BY <1>1, <1>2, <1>3, <1>4, <1>5, <1>6, <1>7, <1>8 DEF Step, Call

\* Changes and lists of slots stay typed.
LEMMA KeepsLists ==
  ASSUME TypeInv, NEW w \in Worker, Step(w) \/ Call(w)
  PROVE  ListTypes'
<1> USE DEF TypeInv, TypeOK, ListTypes
<1>1. CASE GetApiKey(w) \/ Reload(w) \/ RefreshAccount(w) \/ Login(w) \/
           BeginReload(w) \/ EndReload(w) \/ Resolve(w) \/ Decide(w) \/
           Grant(w) \/ GrantRefused(w) \/ GrantUnanswered(w) \/
           WriteRotated(w) \/ Adopt(w) \/ Persist(w)
  BY <1>1 DEF GetApiKey, Reload, RefreshAccount, Login, BeginReload,
     EndReload, Resolve, Decide, Grant, GrantRefused, GrantUnanswered,
     WriteRotated, Adopt, Persist, Goto, NextLogout, GrantFails, fileVars,
     cacheVars, opVars, providerVars
<1>2. CASE Logout(w)
  <2> DEFINE T == Taken(Cache(w))
  <2>1. T \subseteq Slot /\ IsFiniteSet(T) /\ Cardinality(T) \in Nat
    BY SlotsFinite, FS_Subset, FS_CardinalityType DEF Taken
  <2>2. PICK s : s \in Seq(Slot \cup {NoSlot}) /\ todo' = [todo EXCEPT ![w] = s]
    <3>1. CASE \E x \in T : todo' = [todo EXCEPT ![w] = <<x>>]
      <4>1. PICK x \in T : todo' = [todo EXCEPT ![w] = <<x>>]
        BY <3>1
      <4>2. <<x>> \in Seq(Slot \cup {NoSlot})
        BY <2>1
      <4> QED
        BY <4>1, <4>2
    <3>2. CASE \E order \in [1 .. Cardinality(T) -> T] :
                 todo' = [todo EXCEPT ![w] = order \o <<NoSlot>>]
      <4>1. PICK order \in [1 .. Cardinality(T) -> T] :
                 todo' = [todo EXCEPT ![w] = order \o <<NoSlot>>]
        BY <3>2
      <4>2. order \in Seq(Slot \cup {NoSlot})
        <5>1. order \in [1 .. Cardinality(T) -> Slot \cup {NoSlot}]
          BY <2>1
        <5> QED
          BY <5>1, <2>1, FunctionIsSeq
      <4>3. order \o <<NoSlot>> \in Seq(Slot \cup {NoSlot})
        BY <4>2
      <4> QED
        BY <4>1, <4>3
    <3> QED
      BY <1>2, <3>1, <3>2 DEF Logout
  <2>3. changes' = changes
    BY <1>2 DEF Logout
  <2> QED
    BY <2>2, <2>3
<1>3. CASE UseAccount(w)
  <2>1. todo' = todo
    BY <1>3 DEF UseAccount
  <2>2. PICK from \in Slot : SetDefaultAccount(w, from)
    BY <1>3 DEF UseAccount
  <2> QED
    BY <2>1, <2>2, DefaultTyped, ChangesTyped
<1>4. CASE Set(w)
  <2>1. todo' = todo /\ ChangeCache(w, Change(slot[w], cred[w])) /\ slot[w] \in Slot /\ cred[w] \in Cred
    BY <1>4 DEF Set, WorkInv
  <2> QED
    BY <2>1, ChangeTyped, ChangesTyped
<1>5. CASE Remove(w)
  <2>1. todo' = todo /\ ChangeCache(w, Change(Head(todo[w]), NoCred))
    BY <1>5 DEF Remove
  <2>2. Head(todo[w]) \in Slot
    BY <1>5 DEF Remove, WorkInv
  <2> QED
    BY <2>1, <2>2, ChangeTyped, ChangesTyped
<1>6. CASE Stamp(w)
  <2>1. todo' \in [Worker -> Seq(Slot \cup {NoSlot})]
    BY <1>6, NextTyped DEF Stamp
  <2>2. changes' = [changes EXCEPT ![w] = NoChanges]
    BY <1>6 DEF Stamp
  <2>3. DOMAIN changes' = Worker
    BY <2>2
  <2>4. ASSUME NEW v \in Worker, NEW x \in DOMAIN changes'[v]
        PROVE  x \in Slot /\ changes'[v][x] \in Cred \cup {NoCred}
    BY <2>2, <2>4 DEF NoChanges
  <2> QED
    BY <2>1, <2>3, <2>4
<1>7. CASE Promote(w)
  <2>1. todo' \in [Worker -> Seq(Slot \cup {NoSlot})]
    BY <1>7, NextTyped DEF Promote, WorkInv
  <2> QED
    BY <1>7, <2>1 DEF Promote
<1>8. CASE Promoting(w)
  <2>1. CASE SetDefaultAccount(w, slot[w]) /\ UNCHANGED todo
    BY <2>1, <1>8, DefaultTyped, ChangesTyped DEF Promoting, WorkInv
  <2>2. CASE NextLogout(w) /\ UNCHANGED changes
    <3>1. todo' \in [Worker -> Seq(Slot \cup {NoSlot})]
      BY <1>8, <2>2, NextTyped DEF Promoting, WorkInv
    <3> QED
      BY <2>2, <3>1
  <2> QED
    BY <1>8, <2>1, <2>2 DEF Promoting
<1>9. CASE EndLogoutAll(w)
  <2>1. todo' \in [Worker -> Seq(Slot \cup {NoSlot})]
    BY <1>9, NextTyped DEF EndLogoutAll, LoggedOutAll, WorkInv
  <2> QED
    BY <1>9, <2>1 DEF EndLogoutAll
<1> QED
  BY <1>1, <1>2, <1>3, <1>4, <1>5, <1>6, <1>7, <1>8, <1>9 DEF Step, Call

\* What an operation works on stays there.
LEMMA KeepsWork ==
  ASSUME TypeInv, NEW w \in Worker, Step(w) \/ Call(w)
  PROVE  WorkInv'
<1> USE DEF TypeInv, TypeOK, WorkInv
<1>2. CASE GetApiKey(w)
  BY <1>2 DEF GetApiKey, Goto, fileVars, cacheVars, opVars, providerVars
<1>3. CASE Reload(w)
  BY <1>3 DEF Reload, Goto, fileVars, cacheVars, opVars, providerVars
<1>4. CASE RefreshAccount(w)
  BY <1>4 DEF RefreshAccount, Goto, fileVars, cacheVars, opVars, providerVars
<1>5. CASE Login(w)
  <2>1. PICK a \in Account :
          /\ newest[a] < MaxTokens
          /\ newest' = [newest EXCEPT ![a] = @ + 1]
          /\ \E x \in AssignedSlots(Cache(w), a) : slot' = [slot EXCEPT ![w] = x]
          /\ cred' = [cred EXCEPT ![w] = [acct |-> a, gen |-> newest'[a]]]
    BY <1>5 DEF Login
  <2>2. slot'[w] \in Slot
    BY <2>1, CacheMap, AssignedTyped
  <2>3. cred'[w] \in Cred
    BY <2>1, NextGrant, NewCred
  <2> QED
    BY <1>5, <2>1, <2>2, <2>3 DEF Login, Goto
<1>6. CASE UseAccount(w)
  BY <1>6 DEF UseAccount, SetDefaultAccount, ChangeCache, Goto, fileVars,
     cacheVars, opVars, providerVars
<1>7. CASE Logout(w)
  <2> DEFINE T == Taken(Cache(w))
  <2>1. \/ \E x \in T : todo' = [todo EXCEPT ![w] = <<x>>]
        \/ \E order \in [1 .. Cardinality(T) -> T] :
             todo' = [todo EXCEPT ![w] = order \o <<NoSlot>>]
    BY <1>7 DEF Logout
  <2>2. ASSUME NEW order \in [1 .. Cardinality(T) -> T]
        PROVE  order \o <<NoSlot>> # <<>>
    <3>1. IsFiniteSet(T) /\ Cardinality(T) \in Nat
      BY SlotsFinite, FS_Subset, FS_CardinalityType DEF Taken
    <3>2. order \in Seq(T)
      BY <3>1, FunctionIsSeq
    <3> QED
      BY <3>2
  <2> HIDE DEF T
  <2>3. CASE \E x \in T : todo' = [todo EXCEPT ![w] = <<x>>]
    BY <1>7, <2>3 DEF Logout, Goto
  <2>4. CASE \E order \in [1 .. Cardinality(T) -> T] :
               todo' = [todo EXCEPT ![w] = order \o <<NoSlot>>]
    <3>1. PICK order \in [1 .. Cardinality(T) -> T] :
               todo' = [todo EXCEPT ![w] = order \o <<NoSlot>>]
      BY <2>4
    <3>2. order \o <<NoSlot>> # <<>>
      BY <2>2
    <3> DEFINE list == order \o <<NoSlot>>
    <3> HIDE DEF list
    <3>3. todo' = [todo EXCEPT ![w] = list] /\ list # <<>>
      BY <3>1, <3>2 DEF list
    <3> QED
      BY <1>7, <3>3 DEF Logout, Goto
  <2> QED
    BY <2>1, <2>3, <2>4
<1>8. CASE BeginReload(w)
  BY <1>8 DEF BeginReload, Goto, fileVars, cacheVars, opVars, providerVars
<1>9. CASE EndReload(w)
  BY <1>9 DEF EndReload, Goto, fileVars, cacheVars, opVars, providerVars
<1>10. CASE Resolve(w)
  BY <1>10 DEF Resolve, Goto, fileVars, cacheVars, opVars, providerVars
<1>11. CASE Decide(w)
  BY <1>11 DEF Decide, Goto, fileVars, cacheVars, opVars, providerVars
<1>12. CASE Grant(w)
  <2> DEFINE c == disk[slot[w]]
  <2>1. /\ c \in Cred /\ newest[c.acct] < MaxTokens
        /\ newest' = [newest EXCEPT ![c.acct] = @ + 1]
        /\ cred' = [cred EXCEPT ![w] = [acct |-> c.acct, gen |-> newest'[c.acct]]]
    BY <1>12 DEF Grant
  <2> HIDE DEF c
  <2>2. cred'[w] \in Cred
    BY <2>1, NextGrant, NewCred, CredFields
  <2> QED
    BY <1>12, <2>2, <2>1 DEF Grant, Goto
<1>13. CASE GrantRefused(w)
  BY <1>13 DEF GrantRefused, GrantFails, Goto, fileVars, cacheVars, opVars,
     providerVars
<1>14. CASE GrantUnanswered(w)
  BY <1>14 DEF GrantUnanswered, GrantFails, Goto, fileVars, cacheVars, opVars,
     providerVars
<1>15. CASE WriteRotated(w)
  BY <1>15 DEF WriteRotated, WriteFile, Goto, fileVars, cacheVars, opVars,
     providerVars
<1>16. CASE Adopt(w)
  BY <1>16 DEF Adopt, Goto, fileVars, cacheVars, opVars, providerVars
<1>17. CASE Set(w)
  BY <1>17 DEF Set, ChangeCache, Goto, fileVars, cacheVars, opVars,
     providerVars
<1>18. CASE Persist(w)
  BY <1>18 DEF Persist, WriteFile, Goto, fileVars, cacheVars, opVars,
     providerVars
<1>19. CASE Stamp(w)
  <2>1. CASE NextLogout(w) /\ todo[w] # <<>>
    BY <1>19, <2>1, NextTyped DEF Stamp
  <2>2. CASE pc' = [pc EXCEPT ![w] = "idle"] /\ UNCHANGED todo
    BY <1>19, <2>2 DEF Stamp
  <2>3. CASE pc' = [pc EXCEPT ![w] = "promote"] /\ UNCHANGED todo /\ todo[w] # <<>>
    BY <1>19, <2>3 DEF Stamp
  <2> QED
    BY <1>19, <2>1, <2>2, <2>3 DEF Stamp, Goto
<1>20. CASE Remove(w)
  BY <1>20 DEF Remove, ChangeCache, Goto, fileVars, cacheVars, opVars,
     providerVars
<1>21. CASE Promote(w)
  <2>1. CASE NextLogout(w) /\ UNCHANGED slot
    BY <1>21, <2>1, NextTyped DEF Promote
  <2>2. CASE \E x \in Slot : /\ slot' = [slot EXCEPT ![w] = x]
                         /\ Goto(w, "promoting") /\ UNCHANGED todo
    BY <1>21, <2>2 DEF Promote, Goto
  <2> QED
    BY <1>21, <2>1, <2>2, PromotesOne
<1>22. CASE Promoting(w)
  <2>1. CASE SetDefaultAccount(w, slot[w])
    BY <1>22, <2>1 DEF Promoting, SetDefaultAccount, ChangeCache, Goto
  <2>2. CASE NextLogout(w)
    BY <1>22, <2>2, NextTyped DEF Promoting
  <2> QED
    BY <1>22, <2>1, <2>2 DEF Promoting
<1>23. CASE EndLogoutAll(w)
  BY <1>23, NextTyped DEF EndLogoutAll, LoggedOutAll
<1> QED
  BY <1>2, <1>3, <1>4, <1>5, <1>6, <1>7, <1>8, <1>9, <1>10, <1>11, <1>12,
     <1>13, <1>14, <1>15, <1>16, <1>17, <1>18, <1>19, <1>20, <1>21, <1>22, <1>23
     DEF Step, Call

LEMMA KeepsTypes ==
  ASSUME TypeInv, NEW w \in Worker, Step(w) \/ Call(w), calls' \in Nat
  PROVE  TypeInv'
<1>1. MapTypes' /\ FlowTypes' /\ CredTypes' /\ ListTypes' /\ WorkInv'
  BY KeepsMaps, KeepsFlow, KeepsCreds, KeepsLists, KeepsWork
<1> QED
  BY <1>1 DEF TypeInv, TypeOK, MapTypes, FlowTypes, CredTypes, ListTypes

\* So do a token's expiry and the end of a process.
LEMMA OthersKeepTypes ==
  ASSUME TypeInv, Expire \/ Die, calls' = calls
  PROVE  TypeInv'
<1> USE DEF TypeInv
<1>1. CASE Expire
  BY <1>1 DEF Expire, TypeOK, WorkInv, fileVars, cacheVars, opVars
<1>2. ASSUME NEW s \in Store, Restart(s)
      PROVE  /\ fileLock' \in Worker \cup {Nobody}
             /\ mu' \in [Store -> Worker \cup {Nobody}]
             /\ pc' \in [Worker -> {"idle", "reload", "reading", "resolve", "refresh", "force",
                        "granting", "writing", "adopt", "set", "persist", "stamp",
                        "logout", "promote", "promoting"}]
             /\ slot' \in [Worker -> Slot \cup {NoSlot}]
             /\ cred' \in [Worker -> Cred \cup {NoCred}]
             /\ got' \in [Worker -> [map : SlotMap, wrote : BOOLEAN]]
             /\ todo' \in [Worker -> Seq(Slot \cup {NoSlot})]
             /\ ListTypes' /\ WorkInv'
  <2> USE <1>2 DEF Restart, TypeOK
  <2>1. /\ fileLock' \in Worker \cup {Nobody}
        /\ mu' \in [Store -> Worker \cup {Nobody}]
        /\ slot' \in [Worker -> Slot \cup {NoSlot}]
        /\ cred' \in [Worker -> Cred \cup {NoCred}]
    OBVIOUS
  <2>2. pc' \in [Worker -> {"idle", "reload", "reading", "resolve", "refresh", "force",
                        "granting", "writing", "adopt", "set", "persist", "stamp",
                        "logout", "promote", "promoting"}]
    OBVIOUS
  <2>3. NothingSeen \in [map : SlotMap, wrote : BOOLEAN]
    BY DEF NothingSeen, NoCreds, SlotMap
  <2>4. got' \in [Worker -> [map : SlotMap, wrote : BOOLEAN]]
    BY <2>3
  <2>5. todo' \in [Worker -> Seq(Slot \cup {NoSlot})]
    OBVIOUS
  <2>6. ListTypes'
    BY <2>5 DEF ListTypes, NoChanges
  <2>7. WorkInv'
    BY DEF WorkInv
  <2> QED
    BY <2>1, <2>2, <2>4, <2>5, <2>6, <2>7
<1>3. ASSUME NEW s \in Store, Crash(s)
      PROVE  TypeInv'
  <2>1. Restart(s)
    BY <1>3 DEF Crash
  <2>2. tainted' \subseteq Account
    BY <1>3, CredFields DEF Crash, WorkersOf, WorkInv, TypeOK
  <2> QED
    BY <1>2, <1>3, <2>1, <2>2 DEF Crash, TypeOK, fileVars, ListTypes, providerVars, Restart
<1>4. ASSUME NEW s \in Store, CrashMidWrite(s)
      PROVE  TypeInv'
  <2>1. Restart(s)
    BY <1>4 DEF CrashMidWrite
  <2>2. NoCreds \in SlotMap
    BY DEF NoCreds, SlotMap
  <2> QED
    BY <1>2, <1>4, <2>1, <2>2 DEF CrashMidWrite, TypeOK, ListTypes, providerVars, Restart
<1> QED
  BY <1>1, <1>3, <1>4 DEF Die

LEMMA InitTyped == Init => TypeInv
<1> SUFFICES ASSUME Init PROVE TypeInv
  OBVIOUS
<1> USE AuthAssumption DEF Init
<1>1. disk \in SlotMap
  BY DEF SlotMap, Cred
<1>2. got \in [Worker -> [map : SlotMap, wrote : BOOLEAN]]
  BY DEF NothingSeen, NoCreds, SlotMap
<1>3. newest \in [Account -> 1 .. MaxTokens]
  OBVIOUS
<1>4. todo \in [Worker -> Seq(Slot \cup {NoSlot})]
  OBVIOUS
<1>5. ListTypes
  BY <1>4 DEF ListTypes, NoChanges
<1> QED
  BY <1>1, <1>2, <1>3, <1>4, <1>5 DEF TypeInv, TypeOK, WorkInv, ListTypes

LEMMA TypeInvariance == Spec => []TypeInv
<1>1. TypeInv /\ [Next]_vars => TypeInv'
  <2> SUFFICES ASSUME TypeInv, [Next]_vars PROVE TypeInv'
    OBVIOUS
  <2>1. CASE UNCHANGED vars
    BY <2>1 DEF vars, fileVars, cacheVars, opVars, providerVars, TypeInv, TypeOK, WorkInv
  <2>2. ASSUME NEW w \in Worker, Call(w)
        PROVE  TypeInv'
    BY <2>2, KeepsTypes DEF Call, TypeInv, TypeOK
  <2>3. ASSUME NEW w \in Worker, Step(w), UNCHANGED calls
        PROVE  TypeInv'
    BY <2>3, KeepsTypes DEF TypeInv, TypeOK
  <2>4. CASE (Expire \/ Die) /\ UNCHANGED calls
    BY <2>4, OthersKeepTypes
  <2> QED
    BY <2>1, <2>2, <2>3, <2>4 DEF Next
<1> QED
  BY <1>1, InitTyped, PTL DEF Spec

\* The lock of the file is given back only by who has it.
LEMMA KeepsLock ==
  ASSUME TypeInv, LockInv, NEW w \in Worker, Step(w) \/ Call(w)
  PROVE  LockInv'
<1> USE DEF TypeInv, TypeOK, LockInv
<1>2. CASE GetApiKey(w)
  BY <1>2 DEF GetApiKey, Goto, fileVars, cacheVars, opVars, providerVars
<1>3. CASE Reload(w)
  BY <1>3 DEF Reload, Goto, fileVars, cacheVars, opVars, providerVars
<1>4. CASE RefreshAccount(w)
  BY <1>4 DEF RefreshAccount, Goto, fileVars, cacheVars, opVars, providerVars
<1>5. CASE Login(w)
  BY <1>5 DEF Login, Goto, fileVars, cacheVars, opVars, providerVars
<1>6. CASE UseAccount(w)
  BY <1>6 DEF UseAccount, SetDefaultAccount, ChangeCache, Goto, fileVars,
     cacheVars, opVars, providerVars
<1>7. CASE Logout(w)
  BY <1>7 DEF Logout, Goto, fileVars, cacheVars, opVars, providerVars
<1>8. CASE BeginReload(w)
  BY <1>8 DEF BeginReload, Goto, fileVars, cacheVars, opVars, providerVars
<1>9. CASE EndReload(w)
  BY <1>9 DEF EndReload, Goto, fileVars, cacheVars, opVars, providerVars
<1>10. CASE Resolve(w)
  BY <1>10 DEF Resolve, Goto, fileVars, cacheVars, opVars, providerVars
<1>11. CASE Decide(w)
  BY <1>11, AuthAssumption DEF Decide, Goto
<1>12. CASE Grant(w)
  BY <1>12 DEF Grant, Goto, fileVars, cacheVars, opVars, providerVars
<1>13. CASE GrantRefused(w)
  BY <1>13 DEF GrantRefused, GrantFails, Goto, fileVars, cacheVars, opVars,
     providerVars
<1>14. CASE GrantUnanswered(w)
  BY <1>14 DEF GrantUnanswered, GrantFails, Goto, fileVars, cacheVars, opVars,
     providerVars
<1>15. CASE WriteRotated(w)
  BY <1>15 DEF WriteRotated, WriteFile, Goto, fileVars, cacheVars, opVars,
     providerVars
<1>16. CASE Adopt(w)
  BY <1>16 DEF Adopt, Goto, fileVars, cacheVars, opVars, providerVars
<1>17. CASE Set(w)
  BY <1>17 DEF Set, ChangeCache, Goto, fileVars, cacheVars, opVars,
     providerVars
<1>18. CASE Persist(w)
  BY <1>18 DEF Persist, WriteFile, Goto, fileVars, cacheVars, opVars,
     providerVars
<1>19. CASE Stamp(w)
  BY <1>19 DEF Stamp, NextLogout, Goto, fileVars, cacheVars, opVars,
     providerVars
<1>20. CASE Remove(w)
  BY <1>20 DEF Remove, ChangeCache, Goto, fileVars, cacheVars, opVars,
     providerVars
<1>21. CASE Promote(w)
  BY <1>21 DEF Promote, NextLogout, Goto, fileVars, cacheVars, opVars,
     providerVars
<1>22. CASE Promoting(w)
  BY <1>22 DEF Promoting, SetDefaultAccount, ChangeCache, NextLogout, Goto,
     fileVars, cacheVars, opVars, providerVars
<1>23. CASE EndLogoutAll(w)
  BY <1>23 DEF EndLogoutAll, NextLogout, Goto, fileVars, cacheVars, opVars,
     providerVars
<1> QED
  BY <1>2, <1>3, <1>4, <1>5, <1>6, <1>7, <1>8, <1>9, <1>10, <1>11, <1>12,
     <1>13, <1>14, <1>15, <1>16, <1>17, <1>18, <1>19, <1>20, <1>21, <1>22, <1>23
     DEF Step, Call

\* The provider only gives more.
LEMMA GrantsGrow ==
  ASSUME TypeInv, NEW w \in Worker, Step(w) \/ Call(w)
  PROVE  \A a \in Account : newest[a] <= newest'[a]
<1> USE DEF TypeInv, TypeOK
<1>1. CASE GetApiKey(w) \/ Reload(w) \/ RefreshAccount(w) \/ UseAccount(w) \/
           Logout(w) \/ BeginReload(w) \/ EndReload(w) \/ Resolve(w) \/
           Decide(w) \/ GrantRefused(w) \/ GrantUnanswered(w) \/
           WriteRotated(w) \/ Adopt(w) \/ Set(w) \/ Persist(w) \/ Stamp(w) \/
           Remove(w) \/ Promote(w) \/ Promoting(w) \/ EndLogoutAll(w)
  BY <1>1 DEF GetApiKey, Reload, RefreshAccount, UseAccount, Logout,
     BeginReload, EndReload, Resolve, Decide, GrantRefused, GrantUnanswered,
     WriteRotated, Adopt, Set, Persist, Stamp, Remove, Promote, Promoting,
     EndLogoutAll, Goto, NextLogout, GrantFails, fileVars, cacheVars, opVars,
     providerVars
<1>2. CASE Login(w)
  BY <1>2, AuthAssumption DEF Login
<1>3. CASE Grant(w)
  BY <1>3, AuthAssumption, CredFields DEF Grant
<1> QED
  BY <1>1, <1>2, <1>3 DEF Step, Call

LEMMA StillGiven ==
  ASSUME TypeInv, GivenInv, \A a \in Account : newest[a] <= newest'[a],
         newest' \in [Account -> 1 .. MaxTokens]
  PROVE  AllGivenBy(newest')
<1>1. ASSUME NEW c \in Cred \cup {NoCred}, GivenBy(newest, c)
      PROVE  GivenBy(newest', c)
  BY <1>1, AuthAssumption, CredFields DEF GivenBy, TypeInv, TypeOK
<1> QED
  BY <1>1 DEF AllGivenBy, GivenInv, TypeInv, TypeOK, SlotMap

\* What is saved was given.
LEMMA GivenDisk ==
  ASSUME TypeInv, AllGivenBy(newest'), NEW w \in Worker, Step(w) \/ Call(w)
  PROVE  \A x \in Slot : GivenBy(newest', disk'[x])
<1> USE DEF TypeInv, TypeOK, AllGivenBy
<1>1. CASE GetApiKey(w) \/ Reload(w) \/ RefreshAccount(w) \/ Login(w) \/
           UseAccount(w) \/ Logout(w) \/ BeginReload(w) \/ EndReload(w) \/
           Resolve(w) \/ Decide(w) \/ Grant(w) \/ GrantRefused(w) \/
           GrantUnanswered(w) \/ Adopt(w) \/ Set(w) \/ Stamp(w) \/ Remove(w)
           \/ Promote(w) \/ Promoting(w) \/ EndLogoutAll(w)
  BY <1>1 DEF GetApiKey, Reload, RefreshAccount, Login, UseAccount, Logout,
     BeginReload, EndReload, Resolve, Decide, Grant, GrantRefused,
     GrantUnanswered, Adopt, Set, Stamp, Remove, Promote, Promoting,
     EndLogoutAll, Goto, NextLogout, GrantFails, fileVars, cacheVars, opVars,
     providerVars
<1>2. CASE WriteRotated(w)
  BY <1>2 DEF WriteRotated, WriteFile, WorkInv, SlotMap
<1>3. CASE Persist(w)
  BY <1>3 DEF Persist, WriteFile, Overlay
<1> QED
  BY <1>1, <1>2, <1>3 DEF Step, Call

LEMMA GivenChange ==
  ASSUME TypeInv, AllGivenBy(newest'), NEW w \in Worker, NEW ch, ChangeCache(w, ch),
         \A x \in DOMAIN ch : x \in Slot /\ GivenBy(newest', ch[x])
  PROVE  /\ \A s \in Store, x \in Slot : GivenBy(newest', data'[s][x])
         /\ \A v \in Worker : \A x \in DOMAIN changes'[v] : GivenBy(newest', changes'[v][x])
<1>1. Owner[w] \in Store /\ changes' = [changes EXCEPT ![w] = ch]
      /\ data' = [data EXCEPT ![Owner[w]] = Overlay(ch, data[Owner[w]])]
  BY AuthAssumption DEF ChangeCache
<1>2. \A x \in Slot : GivenBy(newest', Overlay(ch, data[Owner[w]])[x])
  BY <1>1 DEF Overlay, AllGivenBy
<1>3. \A s \in Store, x \in Slot : GivenBy(newest', data'[s][x])
  BY <1>1, <1>2 DEF AllGivenBy, TypeInv, TypeOK
<1>4. ASSUME NEW v \in Worker, NEW x \in DOMAIN changes'[v]
      PROVE  GivenBy(newest', changes'[v][x])
  BY <1>1, <1>4 DEF AllGivenBy, TypeInv, TypeOK
<1> QED
  BY <1>3, <1>4

LEMMA GivenDefault ==
  ASSUME TypeInv, AllGivenBy(newest'), NEW w \in Worker, NEW from \in Slot, SetDefaultAccount(w, from)
  PROVE  /\ \A s \in Store, x \in Slot : GivenBy(newest', data'[s][x])
         /\ \A v \in Worker : \A x \in DOMAIN changes'[v] : GivenBy(newest', changes'[v][x])
<1> DEFINE m == Cache(w)
           ch(to) == [x \in {Default, from, to} |->
             IF x = Default THEN m[from] ELSE IF x = to THEN m[Default] ELSE NoCred]
<1>1. PICK to : ChangeCache(w, ch(to)) /\ to \in Slot
  BY DefaultSlot
<1>2. \A x \in Slot : GivenBy(newest', m[x])
  BY CacheMap DEF Cache, AllGivenBy
<1>3. \A x \in DOMAIN ch(to) : x \in Slot /\ GivenBy(newest', ch(to)[x])
  BY <1>1, <1>2 DEF GivenBy, Slot
<1> QED
  BY <1>1, <1>3, GivenChange

LEMMA GivenOne ==
  ASSUME TypeInv, AllGivenBy(newest'), NEW w \in Worker, NEW x \in Slot, NEW c,
         GivenBy(newest', c), ChangeCache(w, Change(x, c))
  PROVE  /\ \A s \in Store, y \in Slot : GivenBy(newest', data'[s][y])
         /\ \A v \in Worker : \A y \in DOMAIN changes'[v] : GivenBy(newest', changes'[v][y])
BY GivenChange DEF Change

\* What is cached was given.
LEMMA GivenData ==
  ASSUME TypeInv, AllGivenBy(newest'), NEW w \in Worker, Step(w) \/ Call(w)
  PROVE  \A s \in Store, x \in Slot : GivenBy(newest', data'[s][x])
<1> USE DEF AllGivenBy
<1>1. CASE GetApiKey(w) \/ Reload(w) \/ RefreshAccount(w) \/ Login(w) \/
           Logout(w) \/ BeginReload(w) \/ Resolve(w) \/ Decide(w) \/ Grant(w)
           \/ GrantRefused(w) \/ GrantUnanswered(w) \/ WriteRotated(w) \/
           Persist(w) \/ Stamp(w) \/ Promote(w) \/ EndLogoutAll(w)
  BY <1>1 DEF GetApiKey, Reload, RefreshAccount, Login, Logout, BeginReload,
     Resolve, Decide, Grant, GrantRefused, GrantUnanswered, WriteRotated,
     Persist, Stamp, Promote, EndLogoutAll, Goto, NextLogout, GrantFails,
     fileVars, cacheVars, opVars, providerVars
<1>2. CASE EndReload(w)
  BY <1>2, AuthAssumption DEF EndReload, TypeInv, TypeOK, AllGivenBy
<1>3. CASE Adopt(w)
  BY <1>3, AuthAssumption DEF Adopt, TypeInv, TypeOK, AllGivenBy
<1>4. CASE Set(w)
  BY <1>4, GivenOne DEF Set, TypeInv, WorkInv, AllGivenBy
<1>5. CASE UseAccount(w)
  BY <1>5, GivenDefault DEF UseAccount
<1>6. CASE Remove(w)
  <2>1. Head(todo[w]) \in Slot
    BY <1>6 DEF Remove, TypeInv, TypeOK, WorkInv
  <2>2. GivenBy(newest', NoCred) /\ ChangeCache(w, Change(Head(todo[w]), NoCred))
    BY <1>6 DEF GivenBy, Remove
  <2> QED
    BY <2>1, <2>2, GivenOne
<1>7. CASE Promoting(w)
  <2>1. CASE SetDefaultAccount(w, slot[w])
    BY <1>7, <2>1, GivenDefault DEF Promoting, TypeInv, WorkInv
  <2>2. CASE UNCHANGED <<data, changes>>
    BY <1>7, <2>2 DEF Promoting, AllGivenBy
  <2> QED
    BY <1>7, <2>1, <2>2 DEF Promoting, cacheVars
<1> QED
  BY <1>1, <1>2, <1>3, <1>4, <1>5, <1>6, <1>7 DEF Step, Call

\* What is to be persisted was given.
LEMMA GivenChanges ==
  ASSUME TypeInv, AllGivenBy(newest'), NEW w \in Worker, Step(w) \/ Call(w)
  PROVE  \A v \in Worker : \A x \in DOMAIN changes'[v] : GivenBy(newest', changes'[v][x])
<1> USE DEF AllGivenBy
<1>1. CASE GetApiKey(w) \/ Reload(w) \/ RefreshAccount(w) \/ Login(w) \/
           Logout(w) \/ BeginReload(w) \/ EndReload(w) \/ Resolve(w) \/
           Decide(w) \/ Grant(w) \/ GrantRefused(w) \/ GrantUnanswered(w) \/
           WriteRotated(w) \/ Adopt(w) \/ Persist(w) \/ Promote(w) \/
           EndLogoutAll(w)
  BY <1>1 DEF GetApiKey, Reload, RefreshAccount, Login, Logout, BeginReload,
     EndReload, Resolve, Decide, Grant, GrantRefused, GrantUnanswered,
     WriteRotated, Adopt, Persist, Promote, EndLogoutAll, Goto, NextLogout,
     GrantFails, fileVars, cacheVars, opVars, providerVars
<1>2. CASE Set(w)
  BY <1>2, GivenOne DEF Set, TypeInv, WorkInv, AllGivenBy
<1>3. CASE UseAccount(w)
  BY <1>3, GivenDefault DEF UseAccount
<1>4. CASE Remove(w)
  <2>1. Head(todo[w]) \in Slot
    BY <1>4 DEF Remove, TypeInv, TypeOK, WorkInv
  <2>2. GivenBy(newest', NoCred) /\ ChangeCache(w, Change(Head(todo[w]), NoCred))
    BY <1>4 DEF GivenBy, Remove
  <2> QED
    BY <2>1, <2>2, GivenOne
<1>5. CASE Promoting(w)
  <2>1. CASE SetDefaultAccount(w, slot[w])
    BY <1>5, <2>1, GivenDefault DEF Promoting, TypeInv, WorkInv
  <2>2. CASE UNCHANGED <<data, changes>>
    BY <1>5, <2>2 DEF Promoting, AllGivenBy
  <2> QED
    BY <1>5, <2>1, <2>2 DEF Promoting, cacheVars
<1>6. CASE Stamp(w)
  <2>1. changes' = [changes EXCEPT ![w] = NoChanges]
    BY <1>6 DEF Stamp
  <2>2. ASSUME NEW v \in Worker, NEW x \in DOMAIN changes'[v]
        PROVE  GivenBy(newest', changes'[v][x])
    BY <2>1, <2>2 DEF NoChanges, AllGivenBy, TypeInv, TypeOK
  <2> QED
    BY <2>2
<1> QED
  BY <1>1, <1>2, <1>3, <1>4, <1>5, <1>6 DEF Step, Call

\* What a grant gave was given.
LEMMA GivenCred ==
  ASSUME TypeInv, AllGivenBy(newest'), NEW w \in Worker, Step(w) \/ Call(w)
  PROVE  \A v \in Worker : GivenBy(newest', cred'[v])
<1> USE DEF TypeInv, TypeOK, AllGivenBy
<1>1. CASE GetApiKey(w) \/ Reload(w) \/ RefreshAccount(w) \/ UseAccount(w) \/
           Logout(w) \/ BeginReload(w) \/ EndReload(w) \/ Resolve(w) \/
           Decide(w) \/ GrantRefused(w) \/ GrantUnanswered(w) \/
           WriteRotated(w) \/ Set(w) \/ Persist(w) \/ Remove(w) \/ Promote(w)
           \/ Promoting(w) \/ EndLogoutAll(w)
  BY <1>1 DEF GetApiKey, Reload, RefreshAccount, UseAccount, Logout,
     BeginReload, EndReload, Resolve, Decide, GrantRefused, GrantUnanswered,
     WriteRotated, Set, Persist, Remove, Promote, Promoting, EndLogoutAll, Goto,
     NextLogout, GrantFails, fileVars, cacheVars, opVars, providerVars
<1>2. CASE Login(w)
  <2>1. PICK a \in Account :
          /\ newest[a] < MaxTokens
          /\ newest' = [newest EXCEPT ![a] = @ + 1]
          /\ cred' = [cred EXCEPT ![w] = [acct |-> a, gen |-> newest'[a]]]
    BY <1>2 DEF Login
  <2>2. newest'[a] \in Nat
    BY <2>1, NextGrant, AuthAssumption
  <2>3. GivenBy(newest', cred'[w])
    BY <2>1, <2>2 DEF GivenBy
  <2> QED
    BY <2>1, <2>3
<1>3. CASE Grant(w)
  <2> DEFINE c == disk[slot[w]]
  <2>1. /\ c \in Cred /\ newest[c.acct] < MaxTokens
        /\ newest' = [newest EXCEPT ![c.acct] = @ + 1]
        /\ cred' = [cred EXCEPT ![w] = [acct |-> c.acct, gen |-> newest'[c.acct]]]
    BY <1>3 DEF Grant
  <2> HIDE DEF c
  <2>2. newest'[c.acct] \in Nat
    BY <2>1, NextGrant, AuthAssumption, CredFields
  <2>3. GivenBy(newest', cred'[w])
    BY <2>1, <2>2 DEF GivenBy
  <2> QED
    BY <2>1, <2>3
<1>4. CASE Adopt(w)
  BY <1>4 DEF Adopt, GivenBy
<1>5. CASE Stamp(w)
  BY <1>5 DEF Stamp, GivenBy
<1> QED
  BY <1>1, <1>2, <1>3, <1>4, <1>5 DEF Step, Call

\* What a refresh saw was given.
LEMMA GivenGot ==
  ASSUME TypeInv, AllGivenBy(newest'), NEW w \in Worker, Step(w) \/ Call(w)
  PROVE  \A v \in Worker, x \in Slot : GivenBy(newest', got'[v].map[x])
<1> USE DEF TypeInv, TypeOK, AllGivenBy
<1>1. CASE GetApiKey(w) \/ Reload(w) \/ RefreshAccount(w) \/ Login(w) \/
           UseAccount(w) \/ Logout(w) \/ BeginReload(w) \/ EndReload(w) \/
           Resolve(w) \/ Grant(w) \/ GrantRefused(w) \/ GrantUnanswered(w) \/
           Set(w) \/ Persist(w) \/ Stamp(w) \/ Remove(w) \/ Promote(w) \/
           Promoting(w) \/ EndLogoutAll(w)
  BY <1>1 DEF GetApiKey, Reload, RefreshAccount, Login, UseAccount, Logout,
     BeginReload, EndReload, Resolve, Grant, GrantRefused, GrantUnanswered, Set,
     Persist, Stamp, Remove, Promote, Promoting, EndLogoutAll, Goto, NextLogout,
     GrantFails, fileVars, cacheVars, opVars, providerVars
<1>2. CASE Decide(w)
  <2>1. CASE got' = got
    BY <2>1
  <2>2. CASE got' = [got EXCEPT ![w] = [map |-> disk, wrote |-> FALSE]]
    BY <2>2
  <2> QED
    BY <1>2, <2>1, <2>2 DEF Decide
<1>3. CASE WriteRotated(w)
  <2> DEFINE new == [disk EXCEPT ![slot[w]] = cred[w]]
  <2>1. \A x \in Slot : GivenBy(newest', new[x])
    BY <1>3 DEF WriteRotated, WorkInv, SlotMap
  <2> HIDE DEF new
  <2>2. got' = [got EXCEPT ![w] = [map |-> new, wrote |-> TRUE]]
    BY <1>3 DEF WriteRotated, new
  <2> QED
    BY <2>1, <2>2
<1>4. CASE Adopt(w)
  BY <1>4 DEF Adopt, NothingSeen, NoCreds, GivenBy
<1> QED
  BY <1>1, <1>2, <1>3, <1>4 DEF Step, Call

\* What was used was given.
LEMMA GivenSpent ==
  ASSUME TypeInv, AllGivenBy(newest'), NEW w \in Worker, Step(w) \/ Call(w)
  PROVE  \A c \in spent' : GivenBy(newest', c)
<1> USE DEF TypeInv, TypeOK, AllGivenBy
<1>1. CASE GetApiKey(w) \/ Reload(w) \/ RefreshAccount(w) \/ Login(w) \/
           UseAccount(w) \/ Logout(w) \/ BeginReload(w) \/ EndReload(w) \/
           Resolve(w) \/ Decide(w) \/ GrantRefused(w) \/ WriteRotated(w) \/
           Adopt(w) \/ Set(w) \/ Persist(w) \/ Stamp(w) \/ Remove(w) \/
           Promote(w) \/ Promoting(w) \/ EndLogoutAll(w)
  BY <1>1 DEF GetApiKey, Reload, RefreshAccount, Login, UseAccount, Logout,
     BeginReload, EndReload, Resolve, Decide, GrantRefused, WriteRotated, Adopt,
     Set, Persist, Stamp, Remove, Promote, Promoting, EndLogoutAll, Goto,
     NextLogout, GrantFails, fileVars, cacheVars, opVars, providerVars
<1>2. CASE Grant(w)
  BY <1>2 DEF Grant, WorkInv
<1>3. CASE GrantUnanswered(w)
  BY <1>3 DEF GrantUnanswered, WorkInv
<1> QED
  BY <1>1, <1>2, <1>3 DEF Step, Call

\* Every credential anywhere stays one that the provider gave.
LEMMA KeepsGiven ==
  ASSUME TypeInv, GivenInv, NEW w \in Worker, Step(w) \/ Call(w), calls' \in Nat
  PROVE  GivenInv'
<1>1. newest' \in [Account -> 1 .. MaxTokens]
  BY KeepsTypes DEF TypeInv, TypeOK
<1>2. AllGivenBy(newest')
  BY <1>1, GrantsGrow, StillGiven
<1> QED
  BY <1>2, GivenDisk, GivenData, GivenChanges, GivenCred, GivenGot, GivenSpent
     DEF GivenInv, AllGivenBy

\* A step of a goroutine that is not rotating, and leaves the file and the
\* provider alone, concerns no rotation.
LEMMA StandsBy ==
  ASSUME TypeInv, NEW w \in Worker, pc[w] # "writing",
         NEW q, q # "writing", pc' = [pc EXCEPT ![w] = q],
         \A v \in Worker \ {w} : slot'[v] = slot[v] /\ cred'[v] = cred[v],
         UNCHANGED <<disk, spent, tainted>>
  PROVE  (RotationInv => RotationInv') /\ (NobodyStranded => NobodyStranded')
<1>1. \A v \in Worker : /\ pc[v] = "writing" <=> pc'[v] = "writing"
                        /\ pc[v] = "writing" => slot'[v] = slot[v] /\ cred'[v] = cred[v]
  BY DEF TypeInv, TypeOK
<1>2. RotationInv => RotationInv'
  BY <1>1 DEF RotationInv
<1>3. ASSUME NobodyStranded, NEW x \in Slot, disk'[x] \in spent'
      PROVE  \/ disk'[x].acct \in tainted'
             \/ \E v \in Worker : pc'[v] = "writing" /\ slot'[v] = x
  BY <1>1, <1>3 DEF NobodyStranded
<1> QED
  BY <1>2, <1>3 DEF NobodyStranded

\* The file and the provider leave a rotation under way alone.
LEMMA KeepsRotation ==
  ASSUME TypeInv, LockInv, GivenInv, RotationInv, NEW w \in Worker, Step(w) \/ Call(w)
  PROVE  RotationInv'
<1> USE DEF TypeInv, TypeOK, WorkInv, LockInv, RotationInv
<1>2. CASE GetApiKey(w)
  BY <1>2 DEF GetApiKey, Goto, fileVars, cacheVars, opVars, providerVars
<1>3. CASE Reload(w)
  BY <1>3 DEF Reload, Goto, fileVars, cacheVars, opVars, providerVars
<1>4. CASE RefreshAccount(w)
  BY <1>4 DEF RefreshAccount, Goto, fileVars, cacheVars, opVars, providerVars
<1>5. CASE Login(w)
  BY <1>5 DEF Login, Goto, fileVars, cacheVars, opVars, providerVars
<1>6. CASE UseAccount(w)
  BY <1>6 DEF UseAccount, SetDefaultAccount, ChangeCache, Goto, fileVars,
     cacheVars, opVars, providerVars
<1>7. CASE Logout(w)
  BY <1>7 DEF Logout, Goto, fileVars, cacheVars, opVars, providerVars
<1>8. CASE BeginReload(w)
  BY <1>8 DEF BeginReload, Goto, fileVars, cacheVars, opVars, providerVars
<1>9. CASE EndReload(w)
  BY <1>9 DEF EndReload, Goto, fileVars, cacheVars, opVars, providerVars
<1>10. CASE Resolve(w)
  <2>1. pc[w] # "writing" /\ UNCHANGED <<disk, spent, tainted>>
        /\ \A v \in Worker \ {w} : slot'[v] = slot[v] /\ cred'[v] = cred[v]
    BY <1>10 DEF Resolve, fileVars, opVars, providerVars
  <2>2. PICK q \in {"idle", "refresh"} : pc' = [pc EXCEPT ![w] = q]
    BY <1>10 DEF Resolve, Goto
  <2> HIDE DEF TypeInv, NobodyStranded, RotationInv
  <2>3. q # "writing"
    BY <2>2
  <2> QED
    BY <2>1, <2>2, <2>3, StandsBy
<1>11. CASE Decide(w)
  BY <1>11 DEF Decide, Goto, fileVars, cacheVars, opVars, providerVars
<1>12. CASE Grant(w)
  <2> DEFINE c == disk[slot[w]]
             d == [acct |-> c.acct, gen |-> newest'[c.acct]]
  <2>1. /\ pc[w] = "granting" /\ c \in Cred \ spent
        /\ newest[c.acct] < MaxTokens
        /\ spent' = spent \cup {c}
        /\ newest' = [newest EXCEPT ![c.acct] = @ + 1]
        /\ cred' = [cred EXCEPT ![w] = d]
        /\ UNCHANGED <<disk, slot>>
    BY <1>12 DEF Grant, fileVars
  <2>2. newest'[c.acct] = newest[c.acct] + 1 /\ newest[c.acct] \in Nat
    BY <2>1, NextGrant, CredFields, AuthAssumption
  <2>3. ASSUME NEW e \in Cred, GivenBy(newest, e)
        PROVE  e # d
    BY <2>2, <2>3, CredFields, AuthAssumption DEF GivenBy
  <2>4. d \in Cred
    BY <2>1, NextGrant, NewCred, CredFields
  <2> HIDE DEF c, d
  <2>6. d \notin spent' /\ \A x \in Slot : disk[x] # d
    <3>1. GivenBy(newest, c)
      BY <1>12, <2>1 DEF GivenInv, AllGivenBy, c
    <3>2. d \notin spent'
      BY <2>1, <2>3, <3>1 DEF GivenInv, AllGivenBy
    <3>3. ASSUME NEW x \in Slot PROVE disk[x] # d
      BY <2>3, <2>4, CredFields DEF GivenInv, AllGivenBy, SlotMap
    <3> QED
      BY <3>2, <3>3
  <2>5. \A v \in Worker : pc'[v] = "writing" => v = w
    BY <1>12, <2>1 DEF Grant, Goto
  <2> QED
    BY <2>1, <2>6, <2>5 DEF c, d
<1>13. CASE GrantRefused(w)
  BY <1>13 DEF GrantRefused, GrantFails, Goto, fileVars, cacheVars, opVars,
     providerVars
<1>14. CASE GrantUnanswered(w)
  BY <1>14 DEF GrantUnanswered, GrantFails, Goto, fileVars, cacheVars, opVars,
     providerVars
<1>15. CASE WriteRotated(w)
  BY <1>15 DEF WriteRotated, Goto
<1>16. CASE Adopt(w)
  BY <1>16 DEF Adopt, Goto, fileVars, cacheVars, opVars, providerVars
<1>17. CASE Set(w)
  BY <1>17 DEF Set, ChangeCache, Goto, fileVars, cacheVars, opVars,
     providerVars
<1>18. CASE Persist(w)
  BY <1>18, AuthAssumption DEF Persist, Goto
<1>19. CASE Stamp(w)
  <2>1. pc[w] # "writing" /\ UNCHANGED <<disk, spent, tainted>>
        /\ \A v \in Worker \ {w} : slot'[v] = slot[v] /\ cred'[v] = cred[v]
    BY <1>19 DEF Stamp, fileVars, opVars, providerVars
  <2>2. PICK q \in {"idle", "promote", "logout"} : pc' = [pc EXCEPT ![w] = q]
    BY <1>19 DEF Stamp, NextLogout, Goto
  <2> HIDE DEF TypeInv, NobodyStranded, RotationInv
  <2>3. q # "writing"
    BY <2>2
  <2> QED
    BY <2>1, <2>2, <2>3, StandsBy
<1>20. CASE Remove(w)
  BY <1>20 DEF Remove, ChangeCache, Goto, fileVars, cacheVars, opVars,
     providerVars
<1>21. CASE Promote(w)
  <2>1. pc[w] # "writing" /\ UNCHANGED <<disk, spent, tainted>>
        /\ \A v \in Worker \ {w} : slot'[v] = slot[v] /\ cred'[v] = cred[v]
    BY <1>21 DEF Promote, fileVars, opVars, providerVars
  <2>2. PICK q \in {"promoting", "idle", "logout"} : pc' = [pc EXCEPT ![w] = q]
    BY <1>21 DEF Promote, NextLogout, Goto
  <2> HIDE DEF TypeInv, NobodyStranded, RotationInv
  <2>3. q # "writing"
    BY <2>2
  <2> QED
    BY <2>1, <2>2, <2>3, StandsBy
<1>22. CASE Promoting(w)
  <2>1. pc[w] # "writing" /\ UNCHANGED <<disk, spent, tainted>>
        /\ \A v \in Worker \ {w} : slot'[v] = slot[v] /\ cred'[v] = cred[v]
    BY <1>22 DEF Promoting, fileVars, opVars, providerVars
  <2>2. PICK q \in {"persist", "idle", "logout"} : pc' = [pc EXCEPT ![w] = q]
    BY <1>22 DEF Promoting, SetDefaultAccount, ChangeCache, NextLogout, Goto
  <2> HIDE DEF TypeInv, NobodyStranded, RotationInv
  <2>3. q # "writing"
    BY <2>2
  <2> QED
    BY <2>1, <2>2, <2>3, StandsBy
<1>23. CASE EndLogoutAll(w)
  <2>1. pc[w] # "writing" /\ UNCHANGED <<disk, spent, tainted>>
        /\ \A v \in Worker \ {w} : slot'[v] = slot[v] /\ cred'[v] = cred[v]
    BY <1>23 DEF EndLogoutAll, LoggedOutAll, fileVars, opVars, providerVars
  <2>2. PICK q \in {"idle", "logout"} : pc' = [pc EXCEPT ![w] = q]
    BY <1>23 DEF EndLogoutAll, LoggedOutAll, NextLogout, Goto
  <2> HIDE DEF TypeInv, NobodyStranded, RotationInv
  <2>3. q # "writing"
    BY <2>2
  <2> QED
    BY <2>1, <2>2, <2>3, StandsBy
<1> QED
  BY <1>2, <1>3, <1>4, <1>5, <1>6, <1>7, <1>8, <1>9, <1>10, <1>11, <1>12,
     <1>13, <1>14, <1>15, <1>16, <1>17, <1>18, <1>19, <1>20, <1>21, <1>22, <1>23
     DEF Step, Call

\* Only a stale cache puts one credential into two slots.
LEMMA KeepsShared ==
  ASSUME TypeInv, LockInv, RotationInv, SharedInv, NobodyStranded, NEW w \in Worker, Step(w) \/ Call(w)
  PROVE  SharedInv'
<1> USE DEF TypeInv, TypeOK, WorkInv, SharedInv, Shared
<1>1. CASE GetApiKey(w) \/ Reload(w) \/ RefreshAccount(w) \/ Login(w) \/
           UseAccount(w) \/ Logout(w) \/ BeginReload(w) \/ EndReload(w) \/
           Resolve(w) \/ Decide(w) \/ Grant(w) \/ GrantRefused(w) \/ Adopt(w)
           \/ Set(w) \/ Stamp(w) \/ Remove(w) \/ Promote(w) \/ Promoting(w)
           \/ EndLogoutAll(w)
  BY <1>1 DEF GetApiKey, Reload, RefreshAccount, Login, UseAccount, Logout,
     BeginReload, EndReload, Resolve, Decide, Grant, GrantRefused, Adopt, Set,
     Stamp, Remove, Promote, Promoting, EndLogoutAll, ChangeCache,
     SetDefaultAccount, Goto, NextLogout, GrantFails, fileVars, cacheVars,
     opVars, providerVars
<1>2. CASE WriteRotated(w)
  BY <1>2 DEF WriteRotated, WriteFile, RotationInv, SlotMap
<1>3. CASE Persist(w)
  <2>1. disk' = Overlay(changes[w], disk)
        /\ tainted' = tainted \cup {changes[w][x].acct : x \in Outdated(changes[w], disk)}
    BY <1>3 DEF Persist, WriteFile
  <2>2. ASSUME NEW x \in Slot, NEW y \in Slot, Shared(disk', x, y)
        PROVE  disk'[x].acct \in tainted'
    <3>1. CASE x \in DOMAIN changes[w]
      <4>1. x \in Outdated(changes[w], disk) /\ disk'[x] = changes[w][x]
        BY <2>1, <2>2, <3>1 DEF Outdated, Overlay
      <4> QED
        BY <2>1, <4>1
    <3>2. CASE y \in DOMAIN changes[w]
      <4>1. y \in Outdated(changes[w], disk) /\ disk'[y] = changes[w][y] /\ disk'[x] = disk'[y]
        BY <2>1, <2>2, <3>2 DEF Outdated, Overlay
      <4> QED
        BY <2>1, <4>1
    <3>3. CASE x \notin DOMAIN changes[w] /\ y \notin DOMAIN changes[w]
      BY <2>1, <2>2, <3>3 DEF Overlay
    <3> QED
      BY <3>1, <3>2, <3>3
  <2> QED
    BY <2>2
<1>4. CASE GrantUnanswered(w)
  BY <1>4 DEF GrantUnanswered, GrantFails, fileVars
<1> QED
  BY <1>1, <1>2, <1>3, <1>4 DEF Step, Call

\* A slot is left with a used token only by a rotation under way, a lost token or a stale cache.
LEMMA KeepsRefreshable ==
  ASSUME TypeInv, LockInv, RotationInv, SharedInv, NobodyStranded, NEW w \in Worker, Step(w) \/ Call(w)
  PROVE  NobodyStranded'
<1> USE DEF TypeInv, TypeOK, WorkInv, NobodyStranded, LockInv
<1>2. CASE GetApiKey(w)
  BY <1>2 DEF GetApiKey, Goto, fileVars, cacheVars, opVars, providerVars
<1>3. CASE Reload(w)
  BY <1>3 DEF Reload, Goto, fileVars, cacheVars, opVars, providerVars
<1>4. CASE RefreshAccount(w)
  BY <1>4 DEF RefreshAccount, Goto, fileVars, cacheVars, opVars, providerVars
<1>5. CASE Login(w)
  BY <1>5 DEF Login, Goto, fileVars, cacheVars, opVars, providerVars
<1>6. CASE UseAccount(w)
  BY <1>6 DEF UseAccount, SetDefaultAccount, ChangeCache, Goto, fileVars,
     cacheVars, opVars, providerVars
<1>7. CASE Logout(w)
  BY <1>7 DEF Logout, Goto, fileVars, cacheVars, opVars, providerVars
<1>8. CASE BeginReload(w)
  BY <1>8 DEF BeginReload, Goto, fileVars, cacheVars, opVars, providerVars
<1>9. CASE EndReload(w)
  BY <1>9 DEF EndReload, Goto, fileVars, cacheVars, opVars, providerVars
<1>10. CASE Resolve(w)
  <2>1. pc[w] # "writing" /\ UNCHANGED <<disk, spent, tainted>>
        /\ \A v \in Worker \ {w} : slot'[v] = slot[v] /\ cred'[v] = cred[v]
    BY <1>10 DEF Resolve, fileVars, opVars, providerVars
  <2>2. PICK q \in {"idle", "refresh"} : pc' = [pc EXCEPT ![w] = q]
    BY <1>10 DEF Resolve, Goto
  <2> HIDE DEF TypeInv, NobodyStranded, RotationInv
  <2>3. q # "writing"
    BY <2>2
  <2> QED
    BY <2>1, <2>2, <2>3, StandsBy
<1>11. CASE Decide(w)
  BY <1>11 DEF Decide, Goto, fileVars, cacheVars, opVars, providerVars
<1>12. CASE Grant(w)
  <2> DEFINE c == disk[slot[w]]
  <2>1. /\ c \in Cred /\ spent' = spent \cup {c} /\ UNCHANGED <<disk, slot, tainted>>
        /\ pc' = [pc EXCEPT ![w] = "writing"]
    BY <1>12 DEF Grant, Goto, fileVars
  <2>2. ASSUME NEW x \in Slot, disk[x] = c, x # slot[w]
        PROVE  c.acct \in tainted
    BY <2>1, <2>2, <1>12, CredFields DEF SharedInv, Shared, Grant
  <2> QED
    BY <2>1, <2>2
<1>13. CASE GrantRefused(w)
  BY <1>13 DEF GrantRefused, GrantFails, Goto, fileVars, cacheVars, opVars,
     providerVars
<1>14. CASE GrantUnanswered(w)
  BY <1>14 DEF GrantUnanswered, GrantFails, Goto, fileVars, opVars
<1>15. CASE WriteRotated(w)
  <2>1. /\ pc[w] = "writing" /\ disk' = [disk EXCEPT ![slot[w]] = cred[w]]
        /\ UNCHANGED <<spent, tainted, slot>>
        /\ cred[w] \notin spent /\ slot[w] \in Slot
    BY <1>15 DEF WriteRotated, WriteFile, RotationInv, providerVars
  <2>2. ASSUME NEW x \in Slot, disk'[x] \in spent'
        PROVE  disk'[x].acct \in tainted'
    <3>1. x # slot[w] /\ disk'[x] = disk[x]
      BY <2>1, <2>2 DEF SlotMap
    <3> QED
      BY <2>1, <2>2, <3>1
  <2> QED
    BY <2>2
<1>16. CASE Adopt(w)
  BY <1>16 DEF Adopt, Goto, fileVars, cacheVars, opVars, providerVars
<1>17. CASE Set(w)
  BY <1>17 DEF Set, ChangeCache, Goto, fileVars, cacheVars, opVars,
     providerVars
<1>18. CASE Persist(w)
  <2>1. disk' = Overlay(changes[w], disk) /\ fileLock = Nobody /\ spent' = spent
        /\ tainted' = tainted \cup {changes[w][x].acct : x \in Outdated(changes[w], disk)}
    BY <1>18 DEF Persist, WriteFile, providerVars
  <2>2. ASSUME NEW x \in Slot, disk'[x] \in spent'
        PROVE  disk'[x].acct \in tainted'
    <3>1. CASE x \in DOMAIN changes[w]
      BY <2>1, <2>2, <3>1 DEF Outdated, Overlay
    <3>2. CASE x \notin DOMAIN changes[w]
      BY <2>1, <2>2, <3>2, AuthAssumption DEF Overlay
    <3> QED
      BY <3>1, <3>2
  <2> QED
    BY <2>2
<1>19. CASE Stamp(w)
  <2>1. pc[w] # "writing" /\ UNCHANGED <<disk, spent, tainted>>
        /\ \A v \in Worker \ {w} : slot'[v] = slot[v] /\ cred'[v] = cred[v]
    BY <1>19 DEF Stamp, fileVars, opVars, providerVars
  <2>2. PICK q \in {"idle", "promote", "logout"} : pc' = [pc EXCEPT ![w] = q]
    BY <1>19 DEF Stamp, NextLogout, Goto
  <2> HIDE DEF TypeInv, NobodyStranded, RotationInv
  <2>3. q # "writing"
    BY <2>2
  <2> QED
    BY <2>1, <2>2, <2>3, StandsBy
<1>20. CASE Remove(w)
  BY <1>20 DEF Remove, ChangeCache, Goto, fileVars, cacheVars, opVars,
     providerVars
<1>21. CASE Promote(w)
  <2>1. pc[w] # "writing" /\ UNCHANGED <<disk, spent, tainted>>
        /\ \A v \in Worker \ {w} : slot'[v] = slot[v] /\ cred'[v] = cred[v]
    BY <1>21 DEF Promote, fileVars, opVars, providerVars
  <2>2. PICK q \in {"promoting", "idle", "logout"} : pc' = [pc EXCEPT ![w] = q]
    BY <1>21 DEF Promote, NextLogout, Goto
  <2> HIDE DEF TypeInv, NobodyStranded, RotationInv
  <2>3. q # "writing"
    BY <2>2
  <2> QED
    BY <2>1, <2>2, <2>3, StandsBy
<1>22. CASE Promoting(w)
  <2>1. pc[w] # "writing" /\ UNCHANGED <<disk, spent, tainted>>
        /\ \A v \in Worker \ {w} : slot'[v] = slot[v] /\ cred'[v] = cred[v]
    BY <1>22 DEF Promoting, fileVars, opVars, providerVars
  <2>2. PICK q \in {"persist", "idle", "logout"} : pc' = [pc EXCEPT ![w] = q]
    BY <1>22 DEF Promoting, SetDefaultAccount, ChangeCache, NextLogout, Goto
  <2> HIDE DEF TypeInv, NobodyStranded, RotationInv
  <2>3. q # "writing"
    BY <2>2
  <2> QED
    BY <2>1, <2>2, <2>3, StandsBy
<1>23. CASE EndLogoutAll(w)
  <2>1. pc[w] # "writing" /\ UNCHANGED <<disk, spent, tainted>>
        /\ \A v \in Worker \ {w} : slot'[v] = slot[v] /\ cred'[v] = cred[v]
    BY <1>23 DEF EndLogoutAll, LoggedOutAll, fileVars, opVars, providerVars
  <2>2. PICK q \in {"idle", "logout"} : pc' = [pc EXCEPT ![w] = q]
    BY <1>23 DEF EndLogoutAll, LoggedOutAll, NextLogout, Goto
  <2> HIDE DEF TypeInv, NobodyStranded, RotationInv
  <2>3. q # "writing"
    BY <2>2
  <2> QED
    BY <2>1, <2>2, <2>3, StandsBy
<1> QED
  BY <1>2, <1>3, <1>4, <1>5, <1>6, <1>7, <1>8, <1>9, <1>10, <1>11, <1>12,
     <1>13, <1>14, <1>15, <1>16, <1>17, <1>18, <1>19, <1>20, <1>21, <1>22, <1>23
     DEF Step, Call

\* A used token is used again only where it was lost or put back.
LEMMA KeepsSpent ==
  ASSUME TypeInv, LockInv, NobodyStranded, SpentOnce, NEW w \in Worker, Step(w) \/ Call(w)
  PROVE  SpentOnce'
<1> USE DEF TypeInv, TypeOK, WorkInv, SpentOnce
<1>1. CASE GetApiKey(w) \/ Reload(w) \/ RefreshAccount(w) \/ Login(w) \/
           UseAccount(w) \/ Logout(w) \/ BeginReload(w) \/ EndReload(w) \/
           Resolve(w) \/ Decide(w) \/ Grant(w) \/ WriteRotated(w) \/ Adopt(w)
           \/ Set(w) \/ Stamp(w) \/ Remove(w) \/ Promote(w) \/ Promoting(w)
           \/ EndLogoutAll(w)
  BY <1>1 DEF GetApiKey, Reload, RefreshAccount, Login, UseAccount, Logout,
     BeginReload, EndReload, Resolve, Decide, Grant, WriteRotated, Adopt, Set,
     Stamp, Remove, Promote, Promoting, EndLogoutAll, ChangeCache,
     SetDefaultAccount, Goto, NextLogout, GrantFails, fileVars, cacheVars,
     opVars, providerVars
<1>2. CASE GrantRefused(w)
  BY <1>2 DEF GrantRefused, NobodyStranded, LockInv
<1>3. CASE GrantUnanswered(w)
  BY <1>3 DEF GrantUnanswered
<1>4. CASE Persist(w)
  BY <1>4 DEF Persist, providerVars
<1> QED
  BY <1>1, <1>2, <1>3, <1>4 DEF Step, Call

\* The end of a process loses at most the token it was about to write; what
\* it truncates is all lost.
LEMMA OthersKeepSafety ==
  ASSUME IInv, Expire \/ Die, calls' = calls
  PROVE  IInv'
<1>1. TypeInv'
  BY OthersKeepTypes DEF IInv
<1>2. CASE Expire
  BY <1>1, <1>2 DEF Expire, IInv, LockInv, GivenInv, AllGivenBy, RotationInv, SharedInv, Shared,
     NobodyStranded, SpentOnce, fileVars, cacheVars, opVars
<1>3. ASSUME NEW s \in Store, Restart(s)
      PROVE  LockInv'
  BY <1>3 DEF Restart, WorkersOf, IInv, LockInv, TypeInv, TypeOK
<1>4. ASSUME NEW s \in Store, Restart(s),
             data' \in {[data EXCEPT ![s] = disk], [data EXCEPT ![s] = NoCreds]},
             disk' \in {disk, NoCreds}
      PROVE  GivenInv'
  <2> USE DEF IInv, TypeInv, TypeOK, GivenInv, AllGivenBy
  <2>1. newest' = newest /\ spent' = spent
    BY <1>4 DEF Restart, providerVars
  <2>2. \A n : GivenBy(n, NoCred) /\ \A x \in Slot : GivenBy(n, NoCreds[x])
    BY DEF GivenBy, NoCreds
  <2>3. \A x \in Slot : GivenBy(newest, disk'[x])
    BY <1>4, <2>2
  <2>4. \A r \in Store, x \in Slot : GivenBy(newest, data'[r][x])
    BY <1>4, <2>2
  <2>5. \A w \in Worker : GivenBy(newest, cred'[w])
    BY <1>4, <2>2 DEF Restart
  <2>6. \A w \in Worker, x \in Slot : GivenBy(newest, got'[w].map[x])
    BY <1>4, <2>2 DEF Restart, NothingSeen
  <2>7. \A w \in Worker : \A x \in DOMAIN changes'[w] : GivenBy(newest, changes'[w][x])
    BY <1>4, <2>2 DEF Restart, NoChanges
  <2> QED
    BY <2>1, <2>3, <2>4, <2>5, <2>6, <2>7
<1>5. ASSUME NEW s \in Store, Crash(s)
      PROVE  IInv'
  <2>1. /\ Restart(s) /\ disk' = disk /\ data' = [data EXCEPT ![s] = disk]
        /\ UNCHANGED <<spent, refused>>
        /\ tainted' = tainted \cup {cred[w].acct : w \in {v \in WorkersOf(s) : pc[v] = "writing"}}
    BY <1>5 DEF Crash, Restart, fileVars, providerVars
  <2>2. RotationInv'
    BY <2>1 DEF IInv, RotationInv, Restart, TypeInv, TypeOK
  <2>3. SharedInv' /\ SpentOnce'
    BY <2>1 DEF IInv, SharedInv, Shared, SpentOnce
  <2>4. NobodyStranded'
    <3>1. ASSUME NEW x \in Slot, disk[x] \in spent
          PROVE  \/ disk[x].acct \in tainted'
                 \/ \E w \in Worker : pc'[w] = "writing" /\ slot'[w] = x
      <4>1. CASE disk[x].acct \in tainted
        BY <2>1, <4>1
      <4>2. CASE \E w \in WorkersOf(s) : pc[w] = "writing" /\ slot[w] = x
        BY <2>1, <4>2 DEF IInv, RotationInv, WorkersOf
      <4>3. CASE \E w \in Worker \ WorkersOf(s) : pc[w] = "writing" /\ slot[w] = x
        BY <2>1, <4>3 DEF Restart, WorkersOf
      <4> QED
        BY <3>1, <4>1, <4>2, <4>3 DEF IInv, NobodyStranded
    <3> QED
      BY <2>1, <3>1 DEF NobodyStranded
  <2> QED
    BY <1>1, <1>3, <1>4, <2>1, <2>2, <2>3, <2>4 DEF IInv
<1>6. ASSUME NEW s \in Store, CrashMidWrite(s)
      PROVE  IInv'
  <2>1. /\ Restart(s) /\ disk' = NoCreds /\ data' = [data EXCEPT ![s] = NoCreds]
        /\ UNCHANGED <<spent, refused>> /\ tainted' = Account
    BY <1>6 DEF CrashMidWrite, Restart, providerVars
  <2>2. \A x \in Slot : disk'[x] = NoCred
    BY <2>1 DEF NoCreds
  <2>3. \A w \in Worker : pc'[w] # "writing"
    <3>1. PICK v \in WorkersOf(s) : pc[v] = "writing" \/ fileLock = Nobody
      BY <1>6 DEF CrashMidWrite
    <3>2. \A w \in Worker : pc[w] = "writing" => w \in WorkersOf(s)
      BY <3>1, AuthAssumption DEF IInv, LockInv, WorkersOf
    <3> QED
      BY <2>1, <3>2 DEF Restart, WorkersOf
  <2>4. RotationInv'
    BY <2>3 DEF RotationInv
  <2>5. SharedInv'
    BY <2>2 DEF SharedInv, Shared
  <2>6. NobodyStranded'
    BY <2>1, <2>2, CredFields DEF NobodyStranded, IInv, TypeInv, TypeOK
  <2>7. SpentOnce'
    BY <2>1 DEF SpentOnce, IInv, TypeInv, TypeOK
  <2> QED
    BY <1>1, <1>3, <1>4, <2>1, <2>4, <2>5, <2>6, <2>7 DEF IInv
<1> QED
  BY <1>2, <1>5, <1>6 DEF Die

LEMMA Invariance == Spec => []IInv
<1>1. Init => IInv
  <2> SUFFICES ASSUME Init PROVE IInv
    OBVIOUS
  <2>1. TypeInv
    BY InitTyped
  <2>2. \A x \in Slot : disk[x] # NoCred => disk[x].gen = 1
    BY DEF Init
  <2>3. GivenInv
    BY <2>2, AuthAssumption DEF Init, GivenInv, AllGivenBy, GivenBy, NothingSeen, NoCreds, NoChanges,
       TypeInv, TypeOK, SlotMap, Cred
  <2>4. \A x, y \in Slot : ~ Shared(disk, x, y)
    BY AuthAssumption DEF Init, Shared, Slot
  <2> QED
    BY <2>1, <2>3, <2>4 DEF IInv, Init, LockInv, RotationInv, SharedInv, NobodyStranded, SpentOnce
<1>2. IInv /\ [Next]_vars => IInv'
  <2> SUFFICES ASSUME IInv, [Next]_vars PROVE IInv'
    OBVIOUS
  <2>1. CASE UNCHANGED vars
    BY <2>1 DEF vars, fileVars, cacheVars, opVars, providerVars, IInv, TypeInv, TypeOK, WorkInv,
       LockInv, GivenInv, AllGivenBy, RotationInv, SharedInv, Shared, NobodyStranded, SpentOnce
  <2>2. ASSUME NEW w \in Worker, Step(w) \/ Call(w), calls' \in Nat
        PROVE  IInv'
    BY <2>2, KeepsTypes, KeepsLock, KeepsGiven, KeepsRotation, KeepsShared, KeepsRefreshable,
       KeepsSpent DEF IInv
  <2>3. CASE (Expire \/ Die) /\ UNCHANGED calls
    BY <2>3, OthersKeepSafety
  <2>4. calls \in Nat
    BY DEF IInv, TypeInv, TypeOK
  <2> QED
    BY <2>1, <2>2, <2>3, <2>4 DEF Next, Call
<1> QED
  BY <1>1, <1>2, PTL DEF Spec

-----------------------------------------------------------------------------
(* The theorems. *)

\* The cache, the file and every operation under way stay typed.
THEOREM TypeCorrect == Spec => []TypeOK
<1>1. TypeInv => TypeOK
  BY DEF TypeInv
<1> QED
  BY <1>1, TypeInvariance, PTL

\* refreshOAuthLocked: no refresh token is used twice, short of one that was
\* lost with a process or an answer, or that an outdated cache put back.
THEOREM UsedOnce == Spec => []SpentOnce
<1>1. IInv => SpentOnce
  BY DEF IInv
<1> QED
  BY <1>1, Invariance, PTL

\* A slot of auth.json with a used token is one whose rotation is under way,
\* short of the same.
THEOREM StaysRefreshable == Spec => []NobodyStranded
<1>1. IInv => NobodyStranded
  BY DEF IInv
<1> QED
  BY <1>1, Invariance, PTL

\* A write changes the slots it means to change.
LEMMA TouchesItsOwn ==
  ASSUME TypeInv, NEW w \in Worker, Step(w) \/ Call(w)
  PROVE  \A x \in Slot : disk'[x] # disk[x] =>
            \/ \E v \in Worker : pc[v] = "writing" /\ slot[v] = x
            \/ \E v \in Worker : pc[v] = "persist" /\ x \in DOMAIN changes[v]
<1> USE DEF TypeInv, TypeOK, SlotMap
<1>1. CASE GetApiKey(w) \/ Reload(w) \/ RefreshAccount(w) \/ Login(w) \/
           UseAccount(w) \/ Logout(w) \/ BeginReload(w) \/ EndReload(w) \/
           Resolve(w) \/ Decide(w) \/ Grant(w) \/ GrantRefused(w) \/
           GrantUnanswered(w) \/ Adopt(w) \/ Set(w) \/ Stamp(w) \/ Remove(w)
           \/ Promote(w) \/ Promoting(w) \/ EndLogoutAll(w)
  BY <1>1 DEF GetApiKey, Reload, RefreshAccount, Login, UseAccount, Logout,
     BeginReload, EndReload, Resolve, Decide, Grant, GrantRefused,
     GrantUnanswered, Adopt, Set, Stamp, Remove, Promote, Promoting,
     EndLogoutAll, ChangeCache, SetDefaultAccount, Goto, NextLogout, GrantFails,
     fileVars, cacheVars, opVars, providerVars
<1>2. CASE WriteRotated(w)
  BY <1>2 DEF WriteRotated, WriteFile, SlotMap
<1>3. CASE Persist(w)
  BY <1>3 DEF Persist, WriteFile, Overlay, SlotMap
<1> QED
  BY <1>1, <1>2, <1>3 DEF Step, Call

\* persistChanges and the locked refresh: no write touches a slot that its
\* goroutine did not mean to change, whatever was written since it loaded.
THEOREM WritesItsOwnSlots == Spec => OtherSlotsKept
<1>1. TypeInv /\ [Next]_vars
        => [\A x \in Slot : disk'[x] # disk[x] =>
              \/ text' # "json"
              \/ \E w \in Worker : pc[w] = "writing" /\ slot[w] = x
              \/ \E w \in Worker : pc[w] = "persist" /\ x \in DOMAIN changes[w]]_vars
  <2> SUFFICES ASSUME TypeInv, Next, NEW x \in Slot, disk'[x] # disk[x]
               PROVE  \/ text' # "json"
                      \/ \E w \in Worker : pc[w] = "writing" /\ slot[w] = x
                      \/ \E w \in Worker : pc[w] = "persist" /\ x \in DOMAIN changes[w]
    OBVIOUS
  <2>1. ASSUME NEW w \in Worker, Step(w) \/ Call(w)
        PROVE  \/ \E v \in Worker : pc[v] = "writing" /\ slot[v] = x
               \/ \E v \in Worker : pc[v] = "persist" /\ x \in DOMAIN changes[v]
    BY <2>1, TouchesItsOwn
  <2>2. CASE Expire
    BY <2>2 DEF Expire, fileVars
  <2>3. CASE Die
    BY <2>3 DEF Die, Crash, CrashMidWrite, fileVars
  <2> QED
    BY <2>1, <2>2, <2>3 DEF Next
<1> QED
  BY <1>1, TypeInvariance, PTL DEF Spec, OtherSlotsKept
=============================================================================

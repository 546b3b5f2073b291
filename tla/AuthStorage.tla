---------------------------- MODULE AuthStorage ----------------------------
(***************************************************************************)
(* pkg/auth: the accounts of one provider, cached by an AuthStorage per    *)
(* process and kept in auth.json, which every fir process shares.          *)
(*                                                                         *)
(* s.mu guards a cache; the backend's lock (a mutex inside the process, an *)
(* flock on auth.json across processes) guards the file.  Reload and every *)
(* Set hold s.mu while they wait for the file; a refresh holds the file    *)
(* while it talks to the provider, and takes s.mu afterwards.              *)
(*                                                                         *)
(* A credential is an account and a token generation.  Its refresh token   *)
(* is good for one grant: the provider refuses it the second time.         *)
(***************************************************************************)
EXTENDS Naturals, Sequences, FiniteSets

CONSTANTS
  Store,        \* AuthStorage values, one per process
  Worker,       \* goroutines
  Owner,        \* Owner[w]: the store goroutine w uses
  Account,      \* accounts of the provider; also the names of their slots
  Spare,        \* the slots "account2", "account3", ...
  Default,      \* the bare slot
  NoSlot, NoCred, Nobody,
  MaxTokens,    \* bound: grants per account; the last never expires
  MaxCalls,     \* bound: calls ever made
  Faults        \* whether processes may die and the provider's answers be lost

ASSUME AuthAssumption ==
  /\ Owner \in [Worker -> Store]
  /\ Nobody \notin Worker
  /\ IsFiniteSet(Account) /\ IsFiniteSet(Spare)
  /\ Default \notin Account \cup Spare
  /\ MaxTokens \in Nat \ {0} /\ MaxCalls \in Nat
  /\ Faults \in BOOLEAN

Slot == {Default} \cup Account \cup Spare
Cred == [acct : Account, gen : 1 .. MaxTokens]
SlotMap == [Slot -> Cred \cup {NoCred}]

ASSUME NoneAssumption == NoSlot \notin Slot /\ NoCred \notin Cred

VARIABLES
  disk,         \* what auth.json parses to
  text,         \* auth.json as text: "json", "empty" or "garbage"
  fileLock,     \* who has the backend's lock
  data,         \* s.data
  mu,           \* who holds s.mu for writing
  current,      \* s.lastStamp is the stamp auth.json has now
  pc,           \* what a goroutine is doing
  slot,         \* the slot it does it to
  seen,         \* the stamp its Reload took is still auth.json's
  cred,         \* the credential a refresh grant gave it
  got,          \* the file as its refresh saw it, and whether it wrote it
  changes,      \* the slot changes it has to persist
  todo,         \* the slots it has to log out
  newest,       \* newest[a]: grants the provider gave account a
  spent,        \* credentials whose refresh token was used
  expired,      \* credentials whose access token is out of date
  calls,        \* calls made so far
  refused,      \* history: accounts whose used refresh token was used again
  tainted       \* history: accounts whose token a stale cache put back on disk
                \* (used, or into a second slot), or whose new one never
                \* reached it

fileVars == <<disk, text>>
cacheVars == <<data, current>>
opVars == <<slot, seen, cred, got, changes, todo>>
providerVars == <<newest, spent, expired, refused>>
vars == <<fileVars, fileLock, cacheVars, mu, pc, opVars, providerVars, tainted, calls>>

NoCreds == [x \in Slot |-> NoCred]
NoChanges == [x \in {} |-> NoCred]
Change(x, c) == [y \in {x} |-> c]
NothingSeen == [map |-> NoCreds, wrote |-> FALSE]

\* Two accounts or more were logged in, each in its slot but for the default.
Init ==
  /\ \E d \in Account :
       disk = [x \in Slot |->
                 IF x = Default THEN [acct |-> d, gen |-> 1]
                 ELSE IF x \in Account \ {d} THEN [acct |-> x, gen |-> 1]
                 ELSE NoCred]
  /\ text = "json"
  /\ fileLock = Nobody
  /\ data = [s \in Store |-> disk]
  /\ mu = [s \in Store |-> Nobody]
  /\ current = [s \in Store |-> TRUE]
  /\ pc = [w \in Worker |-> "idle"]
  /\ slot = [w \in Worker |-> NoSlot]
  /\ seen = [w \in Worker |-> FALSE]
  /\ cred = [w \in Worker |-> NoCred]
  /\ got = [w \in Worker |-> NothingSeen]
  /\ changes = [w \in Worker |-> NoChanges]
  /\ todo = [w \in Worker |-> <<>>]
  /\ newest = [a \in Account |-> 1]
  /\ spent = {} /\ expired = {} /\ refused = {} /\ tainted = {}
  /\ calls = 0

-----------------------------------------------------------------------------
(* The cache and the file. *)

Cache(w) == data[Owner[w]]
MuFree(w) == mu[Owner[w]] = Nobody
Goto(w, where) == pc' = [pc EXCEPT ![w] = where]

\* writeToFile of m: every stamp taken before is out of date.
WriteFile(m) ==
  /\ disk' = m /\ text' = "json"
  /\ current' = [s \in Store |-> FALSE]
  /\ seen' = [w \in Worker |-> FALSE]

\* GetApiKey: ReloadIfStale, then look the slot up.
GetApiKey(w) ==
  /\ pc[w] = "idle" /\ MuFree(w)
  /\ \E x \in Slot : slot' = [slot EXCEPT ![w] = x]
  /\ Goto(w, IF current[Owner[w]] THEN "resolve" ELSE "reload")
  /\ UNCHANGED <<fileVars, fileLock, cacheVars, mu, seen, cred, got, changes,
                 todo, providerVars, tainted>>

\* RefreshApiKey, SyncAuth and /mcp reload: Reload whatever the stamp says.
Reload(w) ==
  /\ pc[w] = "idle"
  /\ \E x \in Slot \cup {NoSlot} : slot' = [slot EXCEPT ![w] = x]
  /\ Goto(w, "reload")
  /\ UNCHANGED <<fileVars, fileLock, cacheVars, mu, seen, cred, got, changes,
                 todo, providerVars, tainted>>

\* Reload takes s.mu and the stamp.
BeginReload(w) ==
  /\ pc[w] = "reload" /\ MuFree(w)
  /\ mu' = [mu EXCEPT ![Owner[w]] = w]
  /\ seen' = [seen EXCEPT ![w] = TRUE]
  /\ Goto(w, "reading")
  /\ UNCHANGED <<fileVars, fileLock, cacheVars, slot, cred, got, changes, todo,
                 providerVars, tainted>>

\* It reads the file under the backend's lock: what does not parse changes
\* nothing, no text at all is an empty map.
EndReload(w) ==
  /\ pc[w] = "reading" /\ fileLock = Nobody
  /\ data' = [data EXCEPT ![Owner[w]] = IF text = "garbage" THEN @ ELSE disk]
  /\ current' = [current EXCEPT ![Owner[w]] = seen[w]]
  /\ mu' = [mu EXCEPT ![Owner[w]] = Nobody]
  /\ Goto(w, IF slot[w] = NoSlot THEN "idle" ELSE "resolve")
  /\ UNCHANGED <<fileVars, fileLock, opVars, providerVars, tainted>>

Resolve(w) ==
  /\ pc[w] = "resolve" /\ MuFree(w)
  /\ IF Cache(w)[slot[w]] \in expired
       THEN Goto(w, "refresh") /\ UNCHANGED slot
       ELSE Goto(w, "idle") /\ slot' = [slot EXCEPT ![w] = NoSlot]
  /\ UNCHANGED <<fileVars, fileLock, cacheVars, mu, seen, cred, got, changes,
                 todo, providerVars, tainted>>

-----------------------------------------------------------------------------
(* Refreshing: refreshOAuthLocked. *)

\* RefreshAccount of a cached slot, forced or not.
RefreshAccount(w) ==
  /\ pc[w] = "idle" /\ MuFree(w)
  /\ \E x \in Slot, how \in {"refresh", "force"} :
       /\ Cache(w)[x] # NoCred
       /\ slot' = [slot EXCEPT ![w] = x]
       /\ Goto(w, how)
  /\ UNCHANGED <<fileVars, fileLock, cacheVars, mu, seen, cred, got, changes,
                 todo, providerVars, tainted>>

\* Variant: the lock is taken for the write only.
DecideUnlocked(w) ==
  /\ pc[w] \in {"refresh", "force"} /\ fileLock = Nobody
  /\ LET c == disk[slot[w]] IN
       IF c = NoCred \/ (pc[w] = "refresh" /\ c \notin expired)
         THEN /\ got' = [got EXCEPT ![w] = [map |-> disk, wrote |-> FALSE]]
              /\ Goto(w, "adopt")
         ELSE Goto(w, "granting") /\ UNCHANGED got
  /\ UNCHANGED <<fileVars, fileLock, cacheVars, mu, slot, seen, cred, changes,
                 todo, providerVars, tainted>>

\* Take the lock, read the file, and ask shouldRefresh about what it holds.
Decide(w) ==
  /\ pc[w] \in {"refresh", "force"} /\ fileLock = Nobody
  /\ LET c == disk[slot[w]] IN
       IF c = NoCred \/ (pc[w] = "refresh" /\ c \notin expired)
         THEN /\ got' = [got EXCEPT ![w] = [map |-> disk, wrote |-> FALSE]]
              /\ Goto(w, "adopt")
              /\ UNCHANGED fileLock
         ELSE /\ fileLock' = w
              /\ Goto(w, "granting")
              /\ UNCHANGED got
  /\ UNCHANGED <<fileVars, cacheVars, mu, slot, seen, cred, changes, todo,
                 providerVars, tainted>>

\* The provider exchanges the refresh token for new tokens.
Grant(w) ==
  /\ pc[w] = "granting"
  /\ LET c == disk[slot[w]] IN
       /\ c \in Cred \ spent /\ newest[c.acct] < MaxTokens
       /\ spent' = spent \cup {c}
       /\ newest' = [newest EXCEPT ![c.acct] = @ + 1]
       /\ cred' = [cred EXCEPT ![w] = [acct |-> c.acct, gen |-> newest'[c.acct]]]
  /\ Goto(w, "writing")
  /\ UNCHANGED <<fileVars, fileLock, cacheVars, mu, slot, seen, got, changes,
                 todo, expired, refused, tainted>>

\* RefreshToken fails: the lock is given back and nothing is written.
\* GetApiKey goes on to Reload, RefreshAccount returns.
GrantFails(w) ==
  /\ fileLock' = Nobody
  /\ \E where \in {"idle", "reload"} : Goto(w, where)
  /\ slot' = [slot EXCEPT ![w] = NoSlot]
  /\ UNCHANGED <<fileVars, cacheVars, mu, seen, cred, got, changes, todo>>

\* The token was used before.
GrantRefused(w) ==
  /\ pc[w] = "granting" /\ disk[slot[w]] \in spent
  /\ GrantFails(w)
  /\ refused' = refused \cup {disk[slot[w]].acct}
  /\ UNCHANGED <<newest, spent, expired, tainted>>

\* The provider cannot be reached, or grants and its answer is lost.
GrantUnanswered(w) ==
  /\ pc[w] = "granting" /\ disk[slot[w]] \in Cred \ spent
  /\ GrantFails(w)
  /\ \/ UNCHANGED <<spent, tainted>>
     \/ /\ Faults
        /\ spent' = spent \cup {disk[slot[w]]}
        /\ tainted' = tainted \cup {disk[slot[w]].acct}
  /\ UNCHANGED <<newest, expired, refused>>

\* Variant: memory is synced before the file lock is given back.
WriteRotatedLocked(w) ==
  /\ pc[w] = "writing"
  /\ LET new == [disk EXCEPT ![slot[w]] = cred[w]] IN
       /\ WriteFile(new)
       /\ got' = [got EXCEPT ![w] = [map |-> new, wrote |-> TRUE]]
  /\ Goto(w, "adopt")
  /\ UNCHANGED <<fileLock, data, mu, slot, cred, changes, todo, providerVars, tainted>>

\* The rotated tokens are written and the lock is given back.
WriteRotated(w) ==
  /\ pc[w] = "writing"
  /\ LET new == [disk EXCEPT ![slot[w]] = cred[w]] IN
       /\ WriteFile(new)
       /\ got' = [got EXCEPT ![w] = [map |-> new, wrote |-> TRUE]]
  /\ fileLock' = Nobody
  /\ Goto(w, "adopt")
  /\ UNCHANGED <<data, mu, slot, cred, changes, todo, providerVars, tainted>>

\* "Sync the in-memory view": the file as it was under the lock becomes the
\* cache, and after a write the stamp as it is now is taken.
Adopt(w) ==
  /\ pc[w] = "adopt" /\ MuFree(w)
  /\ data' = [data EXCEPT ![Owner[w]] = got[w].map]
  /\ current' = [current EXCEPT ![Owner[w]] = @ \/ got[w].wrote]
  /\ fileLock' = IF fileLock = w THEN Nobody ELSE fileLock
  /\ got' = [got EXCEPT ![w] = NothingSeen]
  /\ slot' = [slot EXCEPT ![w] = NoSlot]
  /\ cred' = [cred EXCEPT ![w] = NoCred]
  /\ Goto(w, "idle")
  /\ UNCHANGED <<fileVars, mu, seen, changes, todo, providerVars, tainted>>

\* An access token reaches its expiry.
Expire ==
  /\ \E c \in Cred \ expired :
       /\ c.gen <= newest[c.acct] /\ c.gen < MaxTokens
       /\ expired' = expired \cup {c}
  /\ UNCHANGED <<fileVars, fileLock, cacheVars, mu, pc, opVars, newest, spent,
                 refused, tainted>>

-----------------------------------------------------------------------------
(* Changing slots: Set, Remove, SetDefaultAccount. *)

\* The changes ch laid over the map m.
Overlay(ch, m) == [x \in Slot |-> IF x \in DOMAIN ch THEN ch[x] ELSE m[x]]

\* Under s.mu the cache changes; s.mu is kept for persistChanges.
ChangeCache(w, ch) ==
  /\ MuFree(w)
  /\ mu' = [mu EXCEPT ![Owner[w]] = w]
  /\ data' = [data EXCEPT ![Owner[w]] = Overlay(ch, @)]
  /\ changes' = [changes EXCEPT ![w] = ch]
  /\ Goto(w, "persist")

\* Variant: the cache is what is written.
PersistCache(w) ==
  /\ pc[w] = "persist" /\ fileLock = Nobody
  /\ WriteFile(Cache(w))
  /\ Goto(w, "stamp")
  /\ UNCHANGED <<fileLock, data, mu, slot, cred, got, changes, todo,
                 providerVars, tainted>>

\* Slots x and y hold one credential.
Shared(m, x, y) == x # y /\ m[x] = m[y] /\ m[x] # NoCred

\* The slots that changes ch to map m fill with an outdated credential.
Outdated(ch, m) ==
  {x \in DOMAIN ch : ch[x] \in spent \/ \E y \in Slot : Shared(Overlay(ch, m), x, y)}

\* persistChanges: the changes are laid over the file as it is now.  What was
\* copied from the cache may be out of date.
Persist(w) ==
  /\ pc[w] = "persist" /\ fileLock = Nobody
  /\ WriteFile(Overlay(changes[w], disk))
  /\ tainted' = tainted \cup {changes[w][x].acct : x \in Outdated(changes[w], disk)}
  /\ Goto(w, "stamp")
  /\ UNCHANGED <<fileLock, data, mu, slot, cred, got, changes, todo, providerVars>>

\* Logout of one slot is over.
NextLogout(w) ==
  /\ todo' = [todo EXCEPT ![w] = Tail(@)]
  /\ Goto(w, IF Len(todo[w]) = 1 THEN "idle" ELSE "logout")

\* The stamp is taken after the lock was given back.  A Remove of Logout goes
\* on to look for an account to promote.
Stamp(w) ==
  /\ pc[w] = "stamp"
  /\ current' = [current EXCEPT ![Owner[w]] = TRUE]
  /\ mu' = [mu EXCEPT ![Owner[w]] = Nobody]
  /\ changes' = [changes EXCEPT ![w] = NoChanges]
  /\ cred' = [cred EXCEPT ![w] = NoCred]
  /\ slot' = [slot EXCEPT ![w] = NoSlot]
  /\ IF todo[w] = <<>> THEN Goto(w, "idle") /\ UNCHANGED todo
     ELSE IF slot[w] = NoSlot THEN Goto(w, "promote") /\ UNCHANGED todo
     ELSE NextLogout(w)
  /\ UNCHANGED <<fileVars, fileLock, data, seen, got, providerVars, tainted>>

\* assignSlot, for a provider that reports identities.
AssignedSlots(m, a) ==
  LET same == {x \in Slot : m[x] # NoCred /\ m[x].acct = a} IN
  IF m[Default] = NoCred \/ Default \in same THEN {Default}
  ELSE IF same # {} THEN same ELSE {a}

\* LoginAccount: the provider gives a new grant, a slot is chosen for it.
Login(w) ==
  /\ pc[w] = "idle" /\ MuFree(w)
  /\ \E a \in Account :
       /\ newest[a] < MaxTokens
       /\ newest' = [newest EXCEPT ![a] = @ + 1]
       /\ \E x \in AssignedSlots(Cache(w), a) : slot' = [slot EXCEPT ![w] = x]
       /\ cred' = [cred EXCEPT ![w] = [acct |-> a, gen |-> newest'[a]]]
  /\ Goto(w, "set")
  /\ UNCHANGED <<fileVars, fileLock, cacheVars, mu, seen, got, changes, todo,
                 spent, expired, refused, tainted>>

Set(w) ==
  /\ pc[w] = "set"
  /\ ChangeCache(w, Change(slot[w], cred[w]))
  /\ UNCHANGED <<fileVars, fileLock, current, slot, seen, cred, got, todo,
                 providerVars, tainted>>

\* freeSlotLocked: where the old default d goes when from is vacated.
DemotedSlots(m, d, from) ==
  LET free(x) == x = from \/ m[x] = NoCred IN
  IF free(d.acct) THEN {d.acct} ELSE {x \in Spare : free(x)}

\* SetDefaultAccount of the account in a named slot, as the cache has it.
SetDefaultAccount(w, from) ==
  LET m == Cache(w) IN
    /\ m[from] # NoCred
    /\ \E to \in IF m[Default] = NoCred THEN {from}
                  ELSE DemotedSlots(m, m[Default], from) :
         ChangeCache(w, [x \in {Default, from, to} |->
           IF x = Default THEN m[from] ELSE IF x = to THEN m[Default] ELSE NoCred])

\* fir login use <slot>.
UseAccount(w) ==
  /\ pc[w] = "idle"
  /\ \E from \in Slot \ {Default} : SetDefaultAccount(w, from)
  /\ UNCHANGED <<fileVars, fileLock, current, slot, seen, cred, got, todo,
                 providerVars, tainted>>

-----------------------------------------------------------------------------
(* Logging out. *)

Taken(m) == {x \in Slot : m[x] # NoCred}

\* Logout of one slot; "/logout all" of every slot the cache has now, the
\* default first (NoSlot ends the list).
Logout(w) ==
  /\ pc[w] = "idle" /\ MuFree(w)
  /\ \/ \E x \in Taken(Cache(w)) : todo' = [todo EXCEPT ![w] = <<x>>]
     \/ \E order \in [1 .. Cardinality(Taken(Cache(w))) -> Taken(Cache(w))] :
          /\ Taken(Cache(w)) = {order[i] : i \in DOMAIN order}
          /\ Default \in Taken(Cache(w)) => order[1] = Default
          /\ todo' = [todo EXCEPT ![w] = order \o <<NoSlot>>]
  /\ Goto(w, "logout")
  /\ UNCHANGED <<fileVars, fileLock, cacheVars, mu, slot, seen, cred, got,
                 changes, providerVars, tainted>>

\* Remove the first of the slots.
Remove(w) ==
  /\ pc[w] = "logout" /\ Head(todo[w]) # NoSlot
  /\ ChangeCache(w, Change(Head(todo[w]), NoCred))
  /\ UNCHANGED <<fileVars, fileLock, current, slot, seen, cred, got, todo,
                 providerVars, tainted>>

\* After the default slot was removed, the cache's only account is looked up,
\* to be promoted.
Promote(w) ==
  /\ pc[w] = "promote" /\ MuFree(w)
  /\ LET rest == Taken(Cache(w)) IN
       IF Head(todo[w]) = Default /\ Cardinality(rest) = 1 /\ Default \notin rest
         THEN /\ slot' = [slot EXCEPT ![w] = CHOOSE x \in rest : TRUE]
              /\ Goto(w, "promoting")
              /\ UNCHANGED todo
         ELSE NextLogout(w) /\ UNCHANGED slot
  /\ UNCHANGED <<fileVars, fileLock, cacheVars, mu, seen, cred, got, changes,
                 providerVars, tainted>>

\* It is promoted, or gone meanwhile.
Promoting(w) ==
  /\ pc[w] = "promoting" /\ MuFree(w)
  /\ \/ SetDefaultAccount(w, slot[w]) /\ UNCHANGED <<current, slot, todo>>
     \/ /\ Cache(w)[slot[w]] = NoCred
        /\ NextLogout(w)
        /\ slot' = [slot EXCEPT ![w] = NoSlot]
        /\ UNCHANGED <<cacheVars, mu, changes>>
  /\ UNCHANGED <<fileVars, fileLock, seen, cred, got, providerVars, tainted>>

\* "Logged out from all providers."
LoggedOutAll(w) == pc[w] = "logout" /\ todo[w] = <<NoSlot>>

EndLogoutAll(w) ==
  /\ LoggedOutAll(w)
  /\ NextLogout(w)
  /\ UNCHANGED <<fileVars, fileLock, cacheVars, mu, slot, seen, cred, got,
                 changes, providerVars, tainted>>

-----------------------------------------------------------------------------
(* Processes that die. *)

WorkersOf(s) == {w \in Worker : Owner[w] = s}

\* The process of s dies and another takes its place, which waits for the
\* file's lock and loads it.
Restart(s) ==
  /\ fileLock \in WorkersOf(s) \cup {Nobody}
  /\ pc' = [w \in Worker |-> IF Owner[w] = s THEN "idle" ELSE pc[w]]
  /\ mu' = [mu EXCEPT ![s] = Nobody]
  /\ fileLock' = IF fileLock \in WorkersOf(s) THEN Nobody ELSE fileLock
  /\ slot' = [w \in Worker |-> IF Owner[w] = s THEN NoSlot ELSE slot[w]]
  /\ cred' = [w \in Worker |-> IF Owner[w] = s THEN NoCred ELSE cred[w]]
  /\ got' = [w \in Worker |-> IF Owner[w] = s THEN NothingSeen ELSE got[w]]
  /\ changes' = [w \in Worker |-> IF Owner[w] = s THEN NoChanges ELSE changes[w]]
  /\ todo' = [w \in Worker |-> IF Owner[w] = s THEN <<>> ELSE todo[w]]
  /\ UNCHANGED providerVars

\* Between two steps: a grant not yet written is lost.
Crash(s) ==
  /\ Faults
  /\ Restart(s)
  /\ data' = [data EXCEPT ![s] = disk]
  /\ current' = [current EXCEPT ![s] = TRUE]
  /\ tainted' = tainted \cup
       {cred[w].acct : w \in {v \in WorkersOf(s) : pc[v] = "writing"}}
  /\ UNCHANGED <<fileVars, seen>>

\* Inside writeToFile: after the truncation, or in the middle of the text.
CrashMidWrite(s) ==
  /\ Faults
  /\ \E w \in WorkersOf(s) :
       pc[w] = "writing" \/ (pc[w] = "persist" /\ fileLock = Nobody)
  /\ Restart(s)
  /\ \E t \in {"empty", "garbage"} : text' = t
  /\ disk' = NoCreds
  /\ data' = [data EXCEPT ![s] = NoCreds]
  /\ current' = [x \in Store |-> x = s]
  /\ seen' = [w \in Worker |-> FALSE]
  /\ tainted' = Account

-----------------------------------------------------------------------------
(* The specification. *)

\* The steps by which an operation goes on.
Step(w) ==
  \/ BeginReload(w) \/ EndReload(w) \/ Resolve(w)
  \/ Decide(w) \/ Grant(w) \/ GrantRefused(w) \/ GrantUnanswered(w)
  \/ WriteRotated(w) \/ Adopt(w)
  \/ Set(w) \/ Persist(w) \/ Stamp(w)
  \/ Remove(w) \/ Promote(w) \/ Promoting(w) \/ EndLogoutAll(w)

Call(w) ==
  /\ calls < MaxCalls
  /\ calls' = calls + 1
  /\ \/ GetApiKey(w) \/ Reload(w) \/ RefreshAccount(w)
     \/ Login(w) \/ UseAccount(w) \/ Logout(w)

Die == \E s \in Store : Crash(s) \/ CrashMidWrite(s)

Next ==
  \/ \E w \in Worker : Call(w)
  \/ UNCHANGED calls /\ ((\E w \in Worker : Step(w)) \/ Expire \/ Die)

Spec == Init /\ [][Next]_vars

\* A goroutine runs on; one that waits for a mutex (Go's hand themselves to
\* the longest waiter) or for the flock gets it if it is free again and again;
\* the provider answers, or its connection ends.
FairSpec == Spec /\ \A w \in Worker : SF_vars(Step(w) /\ UNCHANGED calls)

-----------------------------------------------------------------------------
(* Properties. *)

TypeOK ==
  /\ disk \in SlotMap /\ text \in {"json", "empty", "garbage"}
  /\ fileLock \in Worker \cup {Nobody}
  /\ data \in [Store -> SlotMap]
  /\ mu \in [Store -> Worker \cup {Nobody}]
  /\ current \in [Store -> BOOLEAN]
  /\ pc \in [Worker -> {"idle", "reload", "reading", "resolve", "refresh", "force",
                        "granting", "writing", "adopt", "set", "persist", "stamp",
                        "logout", "promote", "promoting"}]
  /\ slot \in [Worker -> Slot \cup {NoSlot}]
  /\ seen \in [Worker -> BOOLEAN]
  /\ cred \in [Worker -> Cred \cup {NoCred}]
  /\ got \in [Worker -> [map : SlotMap, wrote : BOOLEAN]]
  /\ DOMAIN changes = Worker
  /\ \A w \in Worker : \A x \in DOMAIN changes[w] :
       x \in Slot /\ changes[w][x] \in Cred \cup {NoCred}
  /\ todo \in [Worker -> Seq(Slot \cup {NoSlot})]
  /\ newest \in [Account -> 1 .. MaxTokens]
  /\ calls \in Nat
  /\ spent \subseteq Cred /\ expired \subseteq Cred
  /\ refused \subseteq Account /\ tainted \subseteq Account

\* refreshOAuthLocked: "two processes can never both consume the same refresh
\* token", short of one that dies with the new token in hand, loses the
\* provider's answer, or writes an outdated token back from its cache.
SpentOnce == refused \subseteq tainted

\* No account is stranded: what auth.json holds can still be refreshed, unless
\* its rotation is under way.
NobodyStranded ==
  \A x \in Slot :
    disk[x] \in spent =>
      \/ disk[x].acct \in tainted
      \/ \E w \in Worker : pc[w] = "writing" /\ slot[w] = x

\* Every write is laid over the file as it is: a slot changes only when a
\* goroutine that is writing means to change it, whatever others wrote since
\* its cache was loaded.
OtherSlotsKept ==
  [][\A x \in Slot : disk'[x] # disk[x] =>
       \/ text' # "json"
       \/ \E w \in Worker : pc[w] = "writing" /\ slot[w] = x
       \/ \E w \in Worker : pc[w] = "persist" /\ x \in DOMAIN changes[w]]_vars

\* s.mu before the file, never the other way: every call comes to its end.
CallsEnd == \A w \in Worker : pc[w] # "idle" ~> pc[w] = "idle"

-----------------------------------------------------------------------------
(* What comments of the code say and the code does not do. *)

\* ReloadIfStale "re-reads auth.json when it has changed on disk since this
\* AuthStorage last loaded it": a store at rest whose stamp is the file's has
\* the file in its cache.
StampMeansFresh ==
  \A s \in Store :
    current[s] /\ text = "json" /\ (\A w \in WorkersOf(s) : pc[w] = "idle")
      => data[s] = disk

\* "two processes can never both consume the same refresh token", where no
\* process dies and no answer is lost.
NeverSpentTwice == refused = {}

\* "A corrupt or truncated file leaves the in-memory credentials untouched."
DamageSparesTheCache ==
  [][\A w \in Worker : EndReload(w) /\ text # "json" => UNCHANGED data]_vars

\* "Logged out from all providers."
LogoutAllLogsOut ==
  \A w \in Worker : LoggedOutAll(w) => Taken(Cache(w)) = {}
=============================================================================

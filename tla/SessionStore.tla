---------------------------- MODULE SessionStore ----------------------------
(***************************************************************************)
(* The transcript store of pkg/session/store: an append-only tree of       *)
(* entries per session, kept in memory by a SessionStore and in a JSONL    *)
(* file on disk, one writer per file by an flock on <file>.meta.json.      *)
(*                                                                         *)
(* A Store is one SessionStore value of some fir process.  Two stores of   *)
(* one process exclude each other like two processes do, because flock     *)
(* belongs to the open file description.                                   *)
(*                                                                         *)
(* A file's text is abstracted to what the loader makes of it: whether a   *)
(* header line parses, the entries that parse in file order, and how the   *)
(* text ends.  Lines that do not parse are skipped by the loader wherever  *)
(* they stand, so only an unterminated last line matters.                  *)
(***************************************************************************)
EXTENDS Naturals, Sequences, FiniteSets

CONSTANTS
  Store,        \* SessionStore values
  File,         \* transcript paths
  ReadOnly,     \* the paths inside read-only extra stores (session.Stores)
  NoStore, NoFile,
  MaxEntries,   \* bound: entries ever created
  Crashes       \* whether processes may die

\* What the constants are like; the instances that are checked assume it.
StoreAssumption ==
  /\ NoStore \notin Store
  /\ NoFile \notin File
  /\ ReadOnly \subseteq File
  /\ MaxEntries \in Nat \ {0}
  /\ Crashes \in BOOLEAN

VARIABLES
  present,      \* the files that exist
  header,       \* header[f]: a session header line of f parses
  log,          \* log[f]: the entries of f that parse, in file order
  tail,         \* tail[f]: how f's text ends
  holder,       \* holder[f]: whose file descriptor has the flock of f
  parent,       \* parent[e]: SessionEntry.ParentID, 0 for a root
  target,       \* target[e]: the entry a label entry labels, 0 if not a label
  pc,           \* pc[p]: what store p is doing
  file,         \* ss.sessionFile
  lock,         \* ss.lock: the file whose flock ss.lock holds
  mem,          \* ss.entries
  leaf,         \* ss.leafID, 0 before the first entry
  persist,      \* ss.persist
  exposed       \* history: files written, or open for writing, outside the
                \* discipline (no flock held on them, or a rewrite cut short),
                \* and the copies made of such files

diskVars  == <<present, header, log, tail>>
treeVars  == <<parent, target>>
storeVars == <<pc, file, lock, mem, leaf, persist>>
vars == <<diskVars, holder, treeVars, storeVars, exposed>>

EntryId == Nat \ {0}
Ending == {"newline", "header", "entry", "torn"}

Entries(s) == {s[i] : i \in DOMAIN s}
LastOf(s) == IF s = <<>> THEN 0 ELSE s[Len(s)]

\* A read-only store's archive holds sessions of one entry.
Init ==
  /\ present = ReadOnly
  /\ header = [f \in File |-> f \in ReadOnly]
  /\ log    = [f \in File |-> IF f \in ReadOnly THEN <<1>> ELSE <<>>]
  /\ tail   = [f \in File |-> "newline"]
  /\ holder = [f \in File |-> NoStore]
  /\ parent = IF ReadOnly = {} THEN <<>> ELSE <<0>>
  /\ target = parent
  /\ pc      = [p \in Store |-> "detached"]
  /\ file    = [p \in Store |-> NoFile]
  /\ lock    = [p \in Store |-> NoFile]
  /\ mem     = [p \in Store |-> <<>>]
  /\ leaf    = [p \in Store |-> 0]
  /\ persist = [p \in Store |-> TRUE]
  /\ exposed = {}

-----------------------------------------------------------------------------
(* Paths, locks and file contents. *)

\* Names made from a timestamp and a UUID: no file, store or lock uses them.
Fresh(f) ==
  /\ f \notin present \cup ReadOnly
  /\ holder[f] = NoStore
  /\ \A q \in Store : file[q] # f /\ lock[q] # f

\* The flocks after store p closes ss.lock.
Released(p) == [f \in File |-> IF f = lock[p] THEN NoStore ELSE holder[f]]

\* The flocks after the process of store p ends: every descriptor closes.
Dropped(p) == [f \in File |-> IF holder[f] = p THEN NoStore ELSE holder[f]]

\* os.WriteFile of a header and the entries es to f.
WriteAll(f, es) ==
  /\ present' = present \cup {f}
  /\ header' = [header EXCEPT ![f] = TRUE]
  /\ log' = [log EXCEPT ![f] = es]
  /\ tail' = [tail EXCEPT ![f] = "newline"]

\* Text written after an unterminated line joins it, and neither line parses.
JoinLastLine(f) ==
  /\ log' = [log EXCEPT ![f] =
                IF tail[f] = "entry" THEN SubSeq(@, 1, Len(@) - 1) ELSE @]
  /\ header' = [header EXCEPT ![f] = @ /\ tail[f] # "header"]
  /\ tail' = [tail EXCEPT ![f] = "torn"]

\* O_APPEND of the data of entry e, without its newline.
AppendData(f, e) ==
  /\ present' = present \cup {f}
  /\ IF tail[f] = "newline"
       THEN /\ log' = [log EXCEPT ![f] = Append(@, e)]
            /\ tail' = [tail EXCEPT ![f] = "entry"]
            /\ UNCHANGED header
       ELSE JoinLastLine(f)

\* The same, cut short.
AppendTorn(f) ==
  /\ present' = present \cup {f}
  /\ IF tail[f] = "newline"
       THEN /\ tail' = [tail EXCEPT ![f] = "torn"]
            /\ UNCHANGED <<header, log>>
       ELSE JoinLastLine(f)

\* ss now presents the entries es of file f, holding the flock of g.
Load(p, f, g, es) ==
  /\ pc' = [pc EXCEPT ![p] = "ready"]
  /\ file' = [file EXCEPT ![p] = f]
  /\ lock' = [lock EXCEPT ![p] = g]
  /\ mem' = [mem EXCEPT ![p] = es]
  /\ leaf' = [leaf EXCEPT ![p] = LastOf(es)]

-----------------------------------------------------------------------------
(* Creating a session. *)

\* newSession of a persisted store: drop the old flock, take the new file's,
\* write the header line; its newline is a second write.
NewSession(p) ==
  /\ pc[p] \in {"detached", "ready"} /\ persist[p]
  /\ \E f \in File :
       /\ Fresh(f)
       /\ holder' = [Released(p) EXCEPT ![f] = p]
       /\ present' = present \cup {f}
       /\ header' = [header EXCEPT ![f] = TRUE]
       /\ log' = [log EXCEPT ![f] = <<>>]
       /\ tail' = [tail EXCEPT ![f] = "header"]
       /\ file' = [file EXCEPT ![p] = f]
       /\ lock' = [lock EXCEPT ![p] = f]
  /\ pc' = [pc EXCEPT ![p] = "writing"]
  /\ mem' = [mem EXCEPT ![p] = <<>>]
  /\ leaf' = [leaf EXCEPT ![p] = 0]
  /\ UNCHANGED <<treeVars, persist, exposed>>

\* newSession of a store opened in memory: no file, no flock.
NewSessionInMemory(p) ==
  /\ pc[p] = "ready" /\ ~persist[p]
  /\ mem' = [mem EXCEPT ![p] = <<>>]
  /\ leaf' = [leaf EXCEPT ![p] = 0]
  /\ UNCHANGED <<diskVars, holder, treeVars, pc, file, lock, persist, exposed>>

\* The newline after a header or an entry.
FinishLine(p) ==
  /\ pc[p] = "writing"
  /\ pc' = [pc EXCEPT ![p] = "ready"]
  /\ tail' = [tail EXCEPT ![file[p]] = "newline"]
  /\ UNCHANGED <<present, header, log, holder, treeVars,
                 file, lock, mem, leaf, persist, exposed>>

\* Variant: StampInvocation that does not look for entries.
StampInvocationAlways(p) ==
  /\ pc[p] = "ready" /\ persist[p]
  /\ WriteAll(file[p], <<>>)
  /\ UNCHANGED <<holder, treeVars, storeVars, exposed>>

\* StampInvocation on a session without entries: rewriteFile.
StampInvocation(p) ==
  /\ pc[p] = "ready" /\ persist[p] /\ mem[p] = <<>>
  /\ WriteAll(file[p], <<>>)
  /\ UNCHANGED <<holder, treeVars, storeVars, exposed>>

-----------------------------------------------------------------------------
(* Appending and branching. *)

\* appendEntry of a new entry under parent b that labels t (0: not a label).
AppendEntry(p, b, t) ==
  /\ pc[p] = "ready"
  /\ Len(parent) < MaxEntries
  /\ LET e == Len(parent) + 1 IN
       /\ parent' = Append(parent, b)
       /\ target' = Append(target, t)
       /\ mem' = [mem EXCEPT ![p] = Append(@, e)]
       /\ leaf' = [leaf EXCEPT ![p] = e]
       /\ IF persist[p]
            THEN AppendData(file[p], e) /\ pc' = [pc EXCEPT ![p] = "writing"]
            ELSE UNCHANGED <<diskVars, pc>>
  /\ UNCHANGED <<holder, file, lock, persist, exposed>>

\* The Append* methods: the new entry goes under the current leaf.
AppendMessage(p) == AppendEntry(p, leaf[p], 0)

AppendLabelChange(p) == \E t \in Entries(mem[p]) : AppendEntry(p, leaf[p], t)

\* BranchWithSummary: move the leaf and append the summary there.
BranchWithSummary(p) ==
  \E b \in Entries(mem[p]) \cup {0} : AppendEntry(p, b, 0)

Branch(p) ==
  /\ pc[p] = "ready"
  /\ \E b \in Entries(mem[p]) \cup {0} : leaf' = [leaf EXCEPT ![p] = b]
  /\ UNCHANGED <<diskVars, holder, treeVars, pc, file, lock, mem, persist, exposed>>

\* ForceFlush: rewriteFile with what memory holds, before a re-exec.
ForceFlush(p) ==
  /\ pc[p] = "ready" /\ persist[p] /\ mem[p] # <<>>
  /\ WriteAll(file[p], mem[p])
  /\ UNCHANGED <<holder, treeVars, storeVars, exposed>>

-----------------------------------------------------------------------------
(* Opening: setSessionFile. *)

Opening(p) == pc[p] \in {"detached", "switching"}

\* SetSessionFile on a live store first closes its flock.
BeginSwitch(p) ==
  /\ pc[p] = "ready"
  /\ pc' = [pc EXCEPT ![p] = "switching"]
  /\ holder' = Released(p)
  /\ lock' = [lock EXCEPT ![p] = NoFile]
  /\ UNCHANGED <<diskVars, treeVars, file, mem, leaf, persist, exposed>>

\* Variant: the last line is left as it is.
OpenLockedUnrepaired(p, f) ==
  /\ Opening(p) /\ persist[p]
  /\ f \in present \ ReadOnly /\ header[f]
  /\ holder[f] = NoStore
  /\ holder' = [holder EXCEPT ![f] = p]
  /\ Load(p, f, f, log[f])
  /\ UNCHANGED <<diskVars, treeVars, persist, exposed>>

\* Variant: the outcome of the flock is not looked at.
OpenLockedUnchecked(p, f) ==
  /\ Opening(p) /\ persist[p]
  /\ f \in present \ ReadOnly /\ header[f]
  /\ holder' = [holder EXCEPT ![f] = p]
  /\ tail' = [tail EXCEPT ![f] = "newline"]
  /\ Load(p, f, f, log[f])
  /\ UNCHANGED <<present, header, log, treeVars, persist, exposed>>

\* Variant: a read-only store is not told from fir's own.
OpenLockedAnywhere(p, f) ==
  /\ Opening(p) /\ persist[p]
  /\ f \in present /\ header[f]
  /\ holder[f] = NoStore
  /\ holder' = [holder EXCEPT ![f] = p]
  /\ tail' = [tail EXCEPT ![f] = "newline"]
  /\ Load(p, f, f, log[f])
  /\ UNCHANGED <<present, header, log, treeVars, persist, exposed>>

\* The flock is free and the header parses: repair the last line and load.
OpenLocked(p, f) ==
  /\ Opening(p) /\ persist[p]
  /\ f \in present \ ReadOnly /\ header[f]
  /\ holder[f] = NoStore
  /\ holder' = [holder EXCEPT ![f] = p]
  /\ tail' = [tail EXCEPT ![f] = "newline"]
  /\ Load(p, f, f, log[f])
  /\ UNCHANGED <<present, header, log, treeVars, persist, exposed>>

\* Another store has the flock: ForkFrom copies the entries to a new file and
\* opens it with a store of its own, which is never closed.  That descriptor
\* has the fork's flock, so "acquire lock on the forked file" fails.
OpenFork(p, f) ==
  /\ Opening(p) /\ persist[p]
  /\ f \in present \ ReadOnly /\ header[f]
  /\ holder[f] # NoStore
  /\ \E g \in File :
       /\ Fresh(g)
       /\ WriteAll(g, log[f])
       /\ holder' = [holder EXCEPT ![g] = p]
       /\ Load(p, g, NoFile, log[f])
       /\ exposed' = exposed \cup {g}
  /\ UNCHANGED <<treeVars, persist>>

\* No header parses: newSession takes a new path and its flock, the store is
\* pointed back at f, and f is rewritten with the new header alone.
OpenCorrupt(p, f) ==
  /\ Opening(p) /\ persist[p]
  /\ f \in present \ ReadOnly /\ ~header[f]
  /\ \E s \in File :
       /\ Fresh(s)
       /\ holder' = [holder EXCEPT ![s] = p]
       /\ present' = present \cup {s}
       /\ header' = [header EXCEPT ![s] = TRUE, ![f] = TRUE]
       /\ log' = [log EXCEPT ![f] = <<>>]
       /\ tail' = [tail EXCEPT ![f] = "newline"]
       /\ Load(p, f, s, <<>>)
  /\ exposed' = exposed \cup {f}
  /\ UNCHANGED <<treeVars, persist>>

\* The path does not exist (--session <name>): newSession takes a new path,
\* its flock and its header, and the store is pointed back at f, which gets
\* no header of its own.
OpenMissing(p, f) ==
  /\ Opening(p) /\ persist[p]
  /\ f \notin present \cup ReadOnly
  /\ \E s \in File \ {f} :
       /\ Fresh(s)
       /\ holder' = [holder EXCEPT ![s] = p]
       /\ present' = present \cup {s}
       /\ header' = [header EXCEPT ![s] = TRUE]
       /\ Load(p, f, s, <<>>)
  /\ exposed' = exposed \cup {f}
  /\ UNCHANGED <<log, tail, treeVars, persist>>

\* A transcript of a read-only store: fork it out, close the fork, take its
\* flock.
OpenReadOnly(p, f) ==
  /\ Opening(p) /\ persist[p]
  /\ f \in ReadOnly
  /\ \E g \in File :
       /\ Fresh(g)
       /\ WriteAll(g, log[f])
       /\ holder' = [holder EXCEPT ![g] = p]
       /\ Load(p, g, g, log[f])
  /\ UNCHANGED <<treeVars, persist, exposed>>

\* No writable directory for that fork, or the store is in memory already:
\* load without a flock and never write.
OpenInMemory(p, f) ==
  /\ Opening(p)
  /\ f \in present /\ (f \in ReadOnly \/ ~persist[p])
  /\ Load(p, f, NoFile, IF header[f] THEN log[f] ELSE <<>>)
  /\ persist' = [persist EXCEPT ![p] = FALSE]
  /\ UNCHANGED <<diskVars, holder, treeVars, exposed>>

-----------------------------------------------------------------------------
(* ForkAt: a child session of one branch. *)

\* getBranchUnlocked: the entries from the root to e, following ParentID as
\* far as the ids of S go.  There is one such sequence.
BranchesTo(S, e) ==
  {b \in UNION {[1 .. n -> S] : n \in 1 .. Cardinality(S)} :
     /\ b[Len(b)] = e
     /\ \A i \in 2 .. Len(b) : parent[b[i]] = b[i - 1]
     /\ parent[b[1]] \notin S}

Ascending(K) ==
  {at \in [1 .. Cardinality(K) -> K] :
     \A i, j \in DOMAIN at : i < j => at[i] < at[j]}

\* The entries of a branch b that are no labels, in the order of b.
WithoutLabels(b) ==
  {[i \in DOMAIN at |-> b[at[i]]] : at \in Ascending({i \in DOMAIN b : target[b[i]] = 0})}

Labelled(S, T) == {t \in S : \E l \in T : target[l] = t}

\* Variant: only the entry is copied, not the branch that leads to it.
ForkAtTail(p, f) ==
  /\ pc[p] = "detached"
  /\ f \in present /\ header[f]
  /\ \E e \in Entries(log[f]), g \in File :
       /\ Fresh(g) /\ target[e] = 0
       /\ WriteAll(g, <<e>>)
       /\ holder' = [holder EXCEPT ![g] = p]
       /\ Load(p, g, g, <<e>>)
  /\ UNCHANGED <<treeVars, persist, exposed>>

\* CreateBranchedSession of a throw-away reader of f, then OpenSessionStore:
\* the branch without its label entries, then a new label entry for each
\* labelled entry of it.  ForkAt refuses an entry whose tool calls are not
\* all answered; which entries those are is SessionContext's subject.
ForkAt(p, f) ==
  /\ pc[p] = "detached"
  /\ f \in present /\ header[f]
  /\ \E g \in File, e \in Entries(log[f]) :
     /\ Fresh(g)
     /\ \E branch \in BranchesTo(Entries(log[f]), e) : \E kept \in WithoutLabels(branch) :
          LET labelled == Labelled(Entries(kept), Entries(log[f]))
              n == Cardinality(labelled)
              end == Len(parent)
              child == kept \o [i \in 1 .. n |-> end + i]
          IN /\ end + n <= MaxEntries
             /\ \E order \in [1 .. n -> labelled] :
                  /\ \A i, j \in 1 .. n : order[i] = order[j] => i = j
                  /\ target' = target \o order
             /\ parent' = parent \o
                  [i \in 1 .. n |-> IF i = 1 THEN LastOf(kept) ELSE end + i - 1]
             /\ WriteAll(g, child)
             /\ holder' = [holder EXCEPT ![g] = p]
             /\ Load(p, g, g, child)
             /\ exposed' = IF f \in exposed THEN exposed \cup {g} ELSE exposed
  /\ UNCHANGED persist

-----------------------------------------------------------------------------
(* Closing, dying, and the descriptors nobody closes. *)

Detach(p) ==
  /\ pc' = [pc EXCEPT ![p] = "detached"]
  /\ file' = [file EXCEPT ![p] = NoFile]
  /\ lock' = [lock EXCEPT ![p] = NoFile]
  /\ mem' = [mem EXCEPT ![p] = <<>>]
  /\ leaf' = [leaf EXCEPT ![p] = 0]
  /\ persist' = [persist EXCEPT ![p] = TRUE]

Close(p) ==
  /\ pc[p] = "ready"
  /\ holder' = Released(p)
  /\ Detach(p)
  /\ UNCHANGED <<diskVars, treeVars, exposed>>

\* The finalizer of an unreachable os.File closes a leaked flock.
CollectLeakedLock(f) ==
  /\ holder[f] # NoStore
  /\ lock[holder[f]] # f
  /\ holder' = [holder EXCEPT ![f] = NoStore]
  /\ UNCHANGED <<diskVars, treeVars, storeVars, exposed>>

\* The process exits or is killed between two writes.
Crash(p) ==
  /\ Crashes
  /\ holder' = Dropped(p)
  /\ Detach(p)
  /\ UNCHANGED <<diskVars, treeVars, exposed>>

\* It is killed while an entry's data is being written.
CrashMidAppend(p) ==
  /\ Crashes
  /\ pc[p] = "ready" /\ persist[p]
  /\ AppendTorn(file[p])
  /\ holder' = Dropped(p)
  /\ Detach(p)
  /\ UNCHANGED <<treeVars, exposed>>

\* It is killed inside os.WriteFile of rewriteFile: after the truncation,
\* with some prefix of the lines written.
CrashMidRewrite(p) ==
  /\ Crashes
  /\ pc[p] = "ready" /\ persist[p]
  /\ \E n \in 0 .. Len(mem[p]), t \in Ending, h \in BOOLEAN :
       /\ (t = "entry" => h /\ n > 0) /\ (t = "header" => h /\ n = 0)
       /\ (~h => n = 0)
       /\ header' = [header EXCEPT ![file[p]] = h]
       /\ log' = [log EXCEPT ![file[p]] = SubSeq(mem[p], 1, n)]
       /\ tail' = [tail EXCEPT ![file[p]] = t]
  /\ present' = present \cup {file[p]}
  /\ exposed' = exposed \cup {file[p]}
  /\ holder' = Dropped(p)
  /\ Detach(p)
  /\ UNCHANGED treeVars
-----------------------------------------------------------------------------
(* The specification. *)

Write(p) ==
  \/ FinishLine(p) \/ StampInvocation(p)
  \/ AppendMessage(p) \/ AppendLabelChange(p) \/ BranchWithSummary(p)
  \/ ForceFlush(p)

Open(p) ==
  \E f \in File :
    \/ OpenLocked(p, f) \/ OpenFork(p, f) \/ OpenCorrupt(p, f)
    \/ OpenMissing(p, f) \/ OpenReadOnly(p, f) \/ OpenInMemory(p, f)
    \/ ForkAt(p, f)

Die(p) == Crash(p) \/ CrashMidAppend(p) \/ CrashMidRewrite(p)

Next ==
  \/ \E p \in Store :
       \/ NewSession(p) \/ NewSessionInMemory(p)
       \/ Write(p) \/ Branch(p)
       \/ BeginSwitch(p) \/ Open(p) \/ Close(p) \/ Die(p)
  \/ \E f \in File : CollectLeakedLock(f)

Spec == Init /\ [][Next]_vars

-----------------------------------------------------------------------------
(* Properties. *)

TypeOK ==
  /\ present \in SUBSET File
  /\ header \in [File -> BOOLEAN]
  /\ log \in [File -> Seq(EntryId)]
  /\ tail \in [File -> Ending]
  /\ holder \in [File -> Store \cup {NoStore}]
  /\ parent \in Seq(Nat)
  /\ target \in Seq(Nat)
  /\ pc \in [Store -> {"detached", "switching", "ready", "writing"}]
  /\ file \in [Store -> File \cup {NoFile}]
  /\ lock \in [Store -> File \cup {NoFile}]
  /\ mem \in [Store -> Seq(EntryId)]
  /\ leaf \in [Store -> Nat]
  /\ persist \in [Store -> BOOLEAN]
  /\ exposed \in SUBSET File

\* Store p may write to file[p].
Writing(p) == pc[p] \in {"ready", "writing"} /\ persist[p]

\* tryLockSession keeps a second writer out: a file that no store ever took up
\* without its flock has at most one writer at a time, the flock's holder,
\* across opens, switches, forks, closes, crashes and leaked descriptors.
SingleWriter ==
  \A p, q \in Store :
    Writing(p) /\ Writing(q) /\ file[p] = file[q] /\ file[p] \notin exposed
      => p = q /\ lock[p] = file[p] /\ holder[file[p]] = p

\* repairTrailingNewline "makes the damage stop at one line": what the writer
\* of such a file was told is saved is what a reload would give, in its order
\* and under a header, whatever torn line an earlier process left.
MemoryIsOnDisk ==
  \A p \in Store :
    Writing(p) /\ file[p] \notin exposed
      => header[file[p]] /\ log[file[p]] = mem[p]

\* Parents come before children in a transcript, so that walking ParentID from
\* the leaf (getBranchUnlocked) reaches a root; the one entry that may miss its
\* parent is one whose parent was a label entry, which ForkAt drops.
ParentsComeFirst ==
  \A f \in File \ exposed :
    \A i \in DOMAIN log[f] :
      LET b == parent[log[f][i]] IN
        b # 0 => \/ b \in Entries(SubSeq(log[f], 1, i - 1))
                 \/ target[b] # 0

Extends(s, t) == Len(s) <= Len(t) /\ \A i \in 1 .. Len(s) : t[i] = s[i]

\* Saved entries stay saved: a transcript only grows, across crashes, torn
\* lines, repairs, stamps, re-execs and other processes' forks of it, unless
\* it is exposed.
AppendOnly ==
  [][\A f \in File : f \notin exposed' => Extends(log[f], log'[f])]_vars

\* checkWritable and forkOutOfReadOnly: no step changes a transcript of a
\* read-only store, or takes its flock (which would create its .meta.json).
ReadOnlyUntouched ==
  [][\A f \in ReadOnly :
       /\ header'[f] = header[f] /\ log'[f] = log[f] /\ tail'[f] = tail[f]
       /\ holder'[f] = NoStore]_vars

-----------------------------------------------------------------------------
(* What comments of the code say and the code does not do. *)

\* "Acquire lock on the forked file": when a descriptor of this store has the
\* flock of the file the store writes, ss.lock is that flock.
ForkKeepsItsLock ==
  \A p \in Store : Writing(p) /\ holder[file[p]] = p => lock[p] = file[p]

\* "lock: flock on .meta.json; nil if in-memory or lock failed": a flock that
\* ss.lock holds is the session file's.
LockNamesItsFile ==
  \A p \in Store : lock[p] # NoFile => lock[p] = file[p]

\* "Append-only trees stored in JSONL files", whatever way they were opened.
AlwaysAppendOnly ==
  [][\A f \in File : Extends(log[f], log'[f])]_vars

\* ForkAt's child "contains exactly the root->entryID path": walking ParentID
\* from any entry of a transcript stays in the transcript up to a root.
BranchesReachTheirRoot ==
  \A f \in File \ exposed :
    \A i \in DOMAIN log[f] : parent[log[f][i]] \in Entries(log[f]) \cup {0}
=============================================================================

# fir: a verification project

fir is a coding agent: a loop sends a conversation to a model, runs the tools the
model asks for, and stores what happened in transcripts on disk. Several fir
processes share one home directory, and inside a process goroutines of MCP servers,
extensions, the user interface and the agent run side by side. This directory holds
TLA+ models of the parts where order, crashes and concurrency matter, the TLC runs
that check them, and proofs, checked by TLAPS, of what holds for every instance.

All paths below are under `src/`; `store/` is `pkg/session/store/`.

## Inventory

The architecture document (docs/architecture.md) has modes (terminal, print, ACP) on
top of an agent session, which drives an agent loop with tools and providers, takes
tools from MCP servers and extensions, and is kept by the session store. The agent
loop, the built-in tools, the provider adapters and the MCP and ACP SDKs live in other
Go modules; what they do to fir appears in the models as external actions.

| Component | State | Operations | Hard behaviour | What makes it correct |
|---|---|---|---|---|
| Transcript store (store/session.go, lock.go, fork_at.go, session_sidecar.go) | per session: the entries, the leaf, the flock; on disk a JSONL file and a lock sidecar | create, open, fork, append, branch, label, switch, close | several processes on one file, torn lines, rewrites cut short, read-only archives | one writer per file; its memory is the file; entries are never lost; parents come before children |
| Observable cards (store/observables.go) | map of cards, last stamp; a cards file | put, clear, flush, reload | concurrent flushes, failed flushes, clocks that stand still or step back | the file ends at the latest map and never goes back; stamps order cards as the puts did |
| Credentials (pkg/auth) | per process a cache and a stamp; auth.json shared | resolve a key, reload, refresh, log in, log out, switch account | rotation of refresh tokens between processes, a lock held over network calls, crashes in a write | a refresh token is used once; no account loses its last token; other slots are left alone |
| MCP manager (pkg/mcp/client.go) | per server: session, tools, error, ready channel, reconnect loop | start, reconnect, reload, log in, list tools, wait for a session, close | dials that end after their reason is gone, channels closed by several goroutines, sessions that die at any time | every session is closed by somebody; after Close nothing is installed; waiters are answered; the agent has the current tools |
| Transcript context (store/session.go BuildSessionContextFromEntries, orphan.go, fork_at.go) | none; reads the tree | the messages of a leaf's branch | compactions, orphaned entries, forks in mid-turn | a prefix of the parent's context after a fork; tool calls and results stay paired |
| State history and handles (store/state.go, pkg/session/state.go) | snapshots in a JSONL file; handle files | save, append, compact, bind, resolve, forget, prune | torn lines, another process's migration, a save that meets a switch, saves after Close | a save that returned is what is restored; each transcript has its own settings; a forgotten handle stays forgotten |
| Log rotation (pkg/log/rotate.go) | the log, Keep backups, two lock files; per process a mutex and a flag | write, rotate, archive, close | several processes, copies that fail, a close in the midst of a rotation | every line is in the log or a backup until it is the oldest |
| Agent session (pkg/session, pkg/extension/session_bridge.go) | queues of messages, the pending hand-off, model, in-flight marks | prompt, inject, steer, prepend context, hand off, start anew, compact, switch model, run a shell command, close | events of a run against calls from outside; a fresh session against messages on their way to the old one | a message is neither lost nor carried twice; context is where the transcript replays it |
| Status card (pkg/session/statuscard.go) | status and notice | transitions on agent events | late events | the card says what the run does |
| Compaction (pkg/session/compaction) | none | choose a cut, summarise | the cut between a call and its result | the kept messages are a valid suffix |
| Extension bridge (pkg/extension/bridge.go) | pending calls, closed flag, activity time | call, answer, notify, fail all | an answer, a deadline, a cancel and the end of the stream at once | every call ends once; none is parked after the end |
| Extension manager (pkg/extension/manager.go, process.go, forkserver.go) | running bridges, stopped flag | start, stop, reload all, reload one | Stop while a reload spawns | no process is left behind; no registration is left of one stopped |
| ACP mode (pkg/modes/acp) | sessions by id, activity times, cancel functions, rehydration locks | new, load, prompt, cancel, release, reap | reaping and releasing against prompts | a session is torn down once and never under a prompt that was admitted |
| MCP OAuth (pkg/mcp/oauth.go) | pending requirement, tokens | challenge, login, refresh | background 401s | a requirement is cleared by the login that meets it |
| Auto-reply, models, settings, updates, packages, terminal, resources | files of their own | see PROJECT.json | read-modify-write of one file by several processes | see PROJECT.json |

How they interact: a mode creates an agent session (`Setup`), which opens a transcript
store (flock) and restores the state beside it; every agent event appends to the store
and moves the status card, a card of the observables store. The session's MCP manager
calls back (`onToolsChanged`) into `advertise`, which swaps the agent's MCP tools.
Extensions reach the session through a bridge. Providers resolve keys through the
credential store, the only file all processes write. The exposures of each part are
listed, with lines, under "hazards" in PROJECT.json, with the properties that cover
them or the module that will.

## Plan

Each module is a state machine of its own; the MC modules compose those that share a
run. Done, in this order:

1. `SessionStore` - transcripts.
2. `ObservableStore` - cards.
3. `AuthStorage` - credentials.
4. `McpManager` - one MCP server.
5. `ExtensionBridge`, an implementation of `OneShotCall`, and `ExtensionManager`.
6. `AcpSessions` - the table of sessions behind one sessionId.
7. `SessionState` - settings beside transcripts, and the handle.
8. `AgentSession` with the status card - prompts, queues, contexts, hand-offs.
9. `LogRotation` - the debug log.

Planned: `SessionContext`, the context of a branch as recursive functions over bounded
trees against a reference definition, with the cut points of compaction; the settings
file, the refresh of models, MCP OAuth and auto-reply. To prove next: what is only
model-checked below and is not liveness.

## Modules

### SessionStore

`store/session.go`, `lock.go`, `fork_at.go`. A `Store` is one `SessionStore` value,
with `file` = sessionFile, `lock` = the flock in ss.lock, `mem` = entries,
`leaf` = leafID, `persist`. A file is what its loader makes of it: `header`, the
entries that parse (`log`), and how the text ends (`tail`), because a line written
after an unterminated one joins it and neither parses. `holder` is the kernel's table
of flocks. Actions are NewSession, the open paths (locked, busy and therefore forked,
read-only and therefore forked, missing, repaired), the in-place and the entry-wise
append with its write cut short, SetSessionFile, NewSession on an open store, ForkAt,
branching, labels, Close, re-exec, a leaked descriptor and a process that dies.
`exposed` is history: the files written, or open for writing, outside the flock
discipline. They exist, and the properties say what holds of all others.

### ObservableStore

`store/observables.go`. `cards`, `lastTs` and `disk` are the map, the stamp and the
file; a worker's `pc` follows Put or Clear, then flush: wait for flushMu, snapshot
under mu, write, rename. `memAt`, `diskAt` and `snapAt` number the changes.

### AuthStorage

`pkg/auth/authstorage.go`, `accounts.go`, `refresh.go` and `/logout` of
`pkg/slashcmd/builtin/auth.go`. `disk`/`text` is auth.json, `fileLock` its lock,
`data`, `mu` and `current` a process's cache, its mutex and whether its stamp is the
file's. A credential is an account and a generation; the provider is external and
refuses a refresh token it saw before. Every call is cut at the points where it waits
for a mutex, the file's lock or the provider, and may die there or inside a write.
`tainted` is history: the accounts of which a credential was lost, restored, or put
back by a stale cache.

### McpManager

`pkg/mcp/client.go` and `advertise` of `pkg/session/factory.go`, for one server.
`entry` is the serverEntry. Goroutines are the one Start launches, callers of Reload
and LoginServer, a reconnect loop per install, handlers of tools/list_changed, callers
of ensureConnected, and Close; `pc`, `mine` (a session), `chan` (a ready channel),
`cfg` (a configuration read) and `saw` (a listing) are their local variables. One step
is one critical section of the entry's mutex, or what a goroutine does between two.
Sessions, channels and loops nobody refers to are used again, so runs never end for
want of them. ServerConnecting events and backoff times are left out. `Patient` is a
constant: Reload does not come while Start dials.

### ExtensionBridge and OneShotCall

`pkg/extension/bridge.go` and its users in `tools.go` and `providers.go`. A call parks
a channel in b.pending, writes, and waits for the answer, its deadline, its context
and the end of the stream; the reader routes answers and starts a goroutine for each
request of the extension, whose `call_tool` may run another of its tools. Time is
ticks: `quiet` is the age of b.lastActivity, `waited` that of a call. A tick comes only
once what could be done before it has been done, which is what a deadline of seconds
means. The RPCs that cancel a tool are one more CallHook each, with a deadline, and are
not told apart. `OneShotCall` is the promise to a caller - opened once, ended once,
answered only by an answer, failed only by a lost connection - and the bridge
implements it, with the fate of the waiting goroutine as `outcome`.

### ExtensionManager

`pkg/extension/manager.go`, `process.go` and the registrations of `pkg/session`. An
instance is one process; `stage` follows startOne, `bridges` is m.bridges (a set: the
order does not matter here), `slot` the auth provider, and `ext`, `by` say of what and
for whom it was spawned. The Start of Setup, Reload, ReloadOne and Stop are callers
that meet under m.mu, ReloadOnes under reloadOneMu too. Two histories name the
overlaps the code does not exclude: `mixed` (a ReloadOne is under way
while a Start, of Setup or of a Reload, is) and `late` (the session ends while a Reload
is under way).

### AcpSessions

`pkg/modes/acp`. One sessionId: `table` is pa.sessions[id], a firSession `e` has a
`status` from building to gone, its transcript, cancel function and in-flight mark;
`handle`, `turns` and `holder` are the disk. Prompts and loads open, rehydrate under
the rehydrate lock, run and answer; the reaper, releases and the Closer tear down; the
process may be killed, and another one may hold the transcript. `raced` is history: a
client sent a load or a release beside another request, or a request met the reaper's
teardown or the shutdown (`Racing`).

### SessionState

`pkg/session/state.go`, `store/state.go`. `lines[t]` is the history file beside a
transcript, `old` the file of a former version, `state` and `saveMu` the session's
RuntimeState. A person's commands and events of the session save from goroutines of
their own; readers of other processes migrate what they read. Each read, append,
rewrite and rename is a step, may fail, and the session may die in it. A snapshot is
the number of the last edit it has and the transcript whose settings it carries.
`crossed` and `overtaken` are history: a save met a switch of transcripts half way; an
old version's settings were imported after newer ones, which takes two who migrate.

### AgentSession

`pkg/session/agentsession.go`, `statuscard.go`, `pkg/extension/session_bridge.go` and
the /new of `pkg/modes/interactive/commands.go`. Every message is sent by a goroutine,
every hand-off or /new is one; their `pc` cuts the calls where another goroutine can
come between: the look at isStreaming, the queue, the prompt, the reset, the note to
the transcript. The agent is external and appears as the session uses it: a run begins
with what it was given, takes its queues between replies, clears isStreaming after
agent_end, and takes the queues once more when it was aborted. A carried message is
`Noted`, as withCarriedNote makes it, and carryKey tells it from the original.
A message is carried once: one that the last hand-off carried, even if it was only
queued then, the next drops (session_bridge.go:41-43). `due` says when the session that
a message was last carried to has had it, so that NothingForgotten speaks of every
message until then, however many hand-offs follow each other.
Monitors name the overlaps that no lock excludes: `raced` (a run begins between a
restart's look at the agent and its reset), `entangled` (a hand-off on its way between
another's request and its prompt), `late` (queued after the run's last look), `behind`
(a context between the steps of a reset).

### LogRotation

`pkg/log/rotate.go`. `log` and `backup` are the file and its Keep backups, `shared`,
`exclusive` and `archLock` the kernel's flocks on the two lock files, `mu`, `rotating`
and `tmp` per process. Writes, rotations and the archiving goroutine fail, close and
die at any step. Shifting the backups is one step: at Keep = 2 it is one rename.
Backups are compressed, and a compression that fails removes what it began.

### Compositions

`MCSession` puts a running session (AgentSession) beside its store (SessionStore), and
`MCSessionFiles` the settings, the archive and the log of a process (SessionState,
SessionStore, LogRotation) into one specification each. The parts share files only by
name and have no variable in common, so a behaviour is one of either part, chosen at
first; a run then checks the parts with one set of bounds. What crosses between them
in the code is inside the modules: AgentSession and AcpSessions have the transcript as
what was persisted, SessionState has the switch of transcripts.

## Runs

| Run | Question and answer | Bounds |
|---|---|---|
| session_store | A session at work. One writer per transcript, its memory is what a reload gives, entries are not lost, and forks and branches keep it a tree in file order, off the exposed files. No message is lost or carried twice by hand-offs that follow each other, contexts are in the place where the transcript replays them, and the card does not say running for ever. Holds. | 2 stores, 3 paths, 2 entries, and 4 while one store works on 2 paths and none is exposed, at most 1 exposed file and then 2 paths at a time; 2 messages, 2 restarts, a context, of these 3 in a behaviour, 2 replies (beside a restart none that calls tools) and 2 more while one hand-off follows another; cut once `raced` or `behind` |
| observables | The file ends at the latest map, does not go back, stamps order cards, every change reaches the file unless a flush failed. Holds. | 3 workers, 2 keys, 4 changes, clock 0..1, faults and crashes |
| auth_storage | No refresh token is used twice and no account stranded short of a lost or restored token; writes touch the slots they mean to. Holds. | 2 processes, 2 accounts and a spare slot, 2 generations, 3 calls, faults |
| auth_live | No call waits for ever. Holds. | 2 goroutines of a process |
| mcp_manager | No session is left open with nobody to close it; Close is final; every loop can be stopped; a session has its entry's configuration; the agent ends with the tools there are. Holds. | 2 sessions, 2 channels, 2 loops, a reloader, two enabled configurations and a disabled one, `Patient` |
| mcp_tools | Tools stored and advertised are the session's. Holds. | 2 list handlers, a login |
| mcp_live | Callers are answered; Close ends. Holds. | a caller, a loop, no reload |
| ext_bridge | Every waiter is reachable and told once; an extension that works is not clipped; the bridge implements one-shot calls. Holds. | 2 tools, one without a deadline, call_tool and exec, MaxQuiet 1, a pipe of 1 |
| ext_live | The wait of an awaited event is bounded however chatty the extension; calls return once the read loop ended. Holds. | an event, a stream's start |
| acp_sessions | A session is torn down once; a second prompt never rebuilds the first one's; what was answered is in the transcript the session wakes with; no late save revives a released one. Holds short of `raced`, the first also then. | 2 prompts, a load, a release, reaper, closer, 2 firSessions, 3 transcripts, an outsider, 2 crashes; after a race no crash, outsider or closer |
| ext_manager | No process is lost to the manager or outlives Stop; no extension runs twice; the registries lead to processes that run. Holds short of `mixed` and `late`. | 2 extensions with one auth provider, 5 instances, a Reload, 2 ReloadOnes, a Stop, an edit of files |
| session_files | An archive is never written or locked, whatever is forked out of it; a save that returned is found again; each transcript keeps its own settings unless a save meets a switch; no line of the log is lost but by a process closed in the midst of its rotation. Holds. | 1 store, 2 paths and an archive, 4 entries; an event, a reader, 3 transcripts, one of an old version, 2 kept states, an edit, a switch, one fault; 3 writers in 2 processes, 2 backups, 3 lines |

Why these bounds are enough: a conflict over a file, a slot, an entry or a queue needs
two actors, and the third path, worker or session is there so that one can be replaced
while another is still in use. Two entries let one be torn while another is whole;
four let a fork drop a label that lies between two kept ones. Two generations let a
token be used, rotated and used again; the last generation never expires, so no run
stops for want of one. Two backups make one the oldest. Five instances are one per
start there can be, and one more. Symmetric values are declared symmetric in runs
without liveness properties. Where a monitor (`raced`, `mixed`, `late`, `behind`,
`crossed`) is set, little is promised, and some constraints stop there: what still
holds then is proved for every behaviour, below.

Larger instances were run while the models were made and pass too: AgentSession with
one message, two restarts and no limit on callers (24.7 million states), CarriedOnce
with three restarts that follow each other (8.9 million), and both it and
NothingForgotten with four callers, two messages and two hand-offs, one after the
other (12.4 million).

CHECK_DEADLOCK is off where the bounds let a system stop (entries, changes or calls
used up, everything closed), which the real one does as well when nobody calls it.

## Fairness

- ObservableStore: weak fairness of the flushing step as a whole: a goroutine that has
  called flush runs until it returns, and a free flushMu is taken by one of those that
  wait for it. Which one is not assumed, nor is any producer obliged to change a card.
- AuthStorage: strong fairness of each goroutine's step, for the same reason and
  because the flock is released by whoever holds it once the provider has answered; a
  provider answers or its connection ends.
- McpManager: weak fairness of each goroutine's own steps; a dial ends, and a server
  dialled for ever answers at last (strong fairness of DialOk). Nothing is assumed of
  users, of servers that die, or of callers' deadlines.
- ExtensionBridge: weak fairness of each goroutine, among them one for every ready
  channel of a caller's select, which does not pass one over for ever; strong fairness
  of time. Nothing is assumed of the extension: it may say nothing or never stop.

## Proofs

Eight modules hold proofs, for every value of the constants that satisfies the
module's assumption (`SessionAssumption`, `ObservableAssumption`, ...; the ones of
SessionStore, SessionState and LogRotation are asserted of the instances in MCSession
and MCSessionFiles as `StoreConstants`, `SettingsConstants` and `LogConstants`). Each has an inductive invariant, which TLC
checked on an instance before it was proved, and whose parts are named; a theorem then
reads it off. In every case the property itself is not inductive.

`SessionProofs` is about two modules. Of the transcripts: TranscriptsTypeCorrect,
OneWriterPerFile (SingleWriter), NothingSavedIsLost (MemoryIsOnDisk),
TranscriptsOnlyGrow (AppendOnly), ReadOnlyStaysUntouched (ReadOnlyUntouched, which
MCSessionFiles checks).
StoreInv = TypeOK, LockInv, FileInv and WriterInv. SingleWriter needs that ss.lock names a
flock the store really has (LockInv) and that a writer of a file that is not exposed
has that file's flock (WriterInv); two writers would then be two holders of one flock.
MemoryIsOnDisk needs in addition that between appends the last line is whole, or the
next append would be lost with it. FileInv keeps the archive locked by nobody and an
absent file empty, so that creating it loses nothing. AppendOnly and ReadOnlyUntouched
follow step by step from StoreInv. ParentsBeforeChildren (ParentsComeFirst) needs
TreeInv as well: files and memories hold only entries that exist, a store's leaf is an
entry of its memory, and no read-only transcript is ever exposed. A new entry then has
its parent before it, because the file is the writer's memory; a copy or a prefix keeps
the order; and of a fork KeptRooted says that a kept entry's parent is the entry kept
before it, a label, or missing where the branch starts. For that the branch is the
sequence that follows ParentID (BranchesTo), not the loop that builds it.

Of the running session: ChangesBack (NotRunningForever), ContextsOnceInPlace
(ContextsInPlace), ForgetsNothing (NothingForgotten). IInv has, beside TypeOK:
ShapeInv (only a run that is about to deliver has something to deliver, an idle one has
no contexts, and what it has yet to deliver is marked in inFlight) and Once (each
context is counted at most once), which carry ContextsInPlace with ReplayInv: the
transcript, with the context that is being persisted, is the history without its
replies, unless a restart has just emptied it. QuietInv: between a restart's look at
the agent and its reset no run is on, which is why a reset erases nothing that a run
delivers. RunningInv names who will change a card that says running. NothingForgotten
needs to know what a reset may erase, before it does: OweInv says that what nobody
answered and a hand-off on its way is about to erase is also on its way to the next
session, or was had by it, and DueInv that what such a session is still to have is on
its way and that what the last hand-off carried was due. KindInv says which restarts
hold messages. `Afoot` is the union of all the places an item can be on its way from;
AfootStays says that only its delivery takes it out.

CarriesOnce (CarriedOnce) counts. Unless hand-offs overlap, one is underway at most
(AloneInv). CountInv: as long as no session saw a message, one copy of it travels at
most and the history has none; and the sessions that saw it, its copies on their way
and the copies that the next hand-off would carry are two at most together. The first
delivery makes that sum two (a session saw it, and the history has it for a hand-off to
carry); a hand-off turns the copy to carry into one on its way, and its delivery that
into a second session that saw it. A message that nobody took is nowhere (FreshInv), so
that taking it starts the count at one. MarkedInv keeps the next hand-off from starting
over: of a message that some session saw, what is on its way was carried by the last
hand-off, which the next one drops, and nothing of it is queued while a request is
pending. The copies are counted with the lemmas on
sequences at the start of the module: how many items of a sequence are in a set, and
that appending, removing and moving items change it by as many.

`ObservableStoreProofs`: TypeCorrect, FileIsLatestWhenIdle (SavedWhenIdle),
LatestCardWins (LatestWins), FileOnlyAdvances (DiskNeverGoesBack). SavedWhenIdle speaks
of idle workers only; the invariant says what holds while they run. MutexInv: who
writes holds flushMu, so one does. NumberInv: the file is no later than the snapshot
being written, the snapshot no later than the map, and equal numbers mean equal maps.
PendingInv: if the write under way will not save the latest change, somebody has yet
to flush; that is what a flush that skips itself would break. OrderInv: the stamps of
the map, of the file and of every snapshot order their cards, and lastTs bounds them;
the file's part is what a restart needs, and `LatestTsProperty` (the largest stamp of
a map exists, by well-foundedness of the numbers) is why a restarted process goes on
from there.

`AuthStorageProofs`: TypeCorrect, UsedOnce (SpentOnce), StaysRefreshable
(NobodyStranded), WritesItsOwnSlots (OtherSlotsKept). IInv = TypeInv, LockInv,
GivenInv, RotationInv, SharedInv and the two properties: who refreshes holds the
file's lock from its decision to its write (LockInv), every credential about, in
caches and hands too, was given out by the provider (GivenInv), who is about to write
a rotation has a token nobody has used or saved (RotationInv), and one credential is in
two slots only where a stale cache put it there (SharedInv). The proof needs `tainted` to record a credential that a stale cache put into a second
slot, which happens only beyond the three calls of the run: the history was
strengthened for it.

`McpManagerProofs`: NobodyStranded (NothingStranded), ClosedStaysEmpty
(NothingInstalledAfterClose), ConfigIsCurrent (SessionHasItsConfig), AgentIsTold
(AgentHasTheTools), ToolsBelong (ToolsOfTheSession). IInv has three layers. BaseInv
holds always: kinds of goroutine and where each can be (KindInv), what each holds in
its hands (HoldInv), what the entry of a closed manager or an unconfigured server has not (EntryInv), and
that a difference between the tools stored and those advertised has a goroutine on its
way to advertise them (NewsInv). OwnInv holds of `Patient` instances: reloadMu and the
entry's connecting keep apart those who open the server (ApartInv), who find neither
loop nor session (ClearInv), and the loop nobody told to stop has the entry to itself
(LoopInv). ConfigInv holds of those without a login or without a reloader (Steady): who
may still install a session dialled with the entry's configuration. The theorems carry
these conditions, which the runs share.

`ExtensionBridgeProofs`: TypeCorrect, EveryWaiterToldOnce (WaitersToldOnce),
BusyIsNotClipped (NotClippedMidWork), Refinement (ImplementsOneShot). The channel of a
parked call is in b.pending, or something is on its way to it or in it (ReachInv); one
at rest has nothing on its way (RestInv); nothing is parked once closed (ClosedInv); a
response was sent by the extension (RepliedInv). BusyIsNotClipped rests on
HeardInv: while a request of the extension is dispatched or a call_tool runs, `quiet`
is 0. The refinement has one step per action: each maps to a step of OneShotCall or
leaves outcome, replied and lost as they are.

`AcpSessionsProofs`: OneTearsDown (TornDownOnce), ReusesTheFirst
(RehydrateReplacesNothing), AnsweredIsKept (TurnsKept), LateSaveRevivesNothing
(NoRevival). IInv = BaseInv (who builds a session is alone with it, what is taken out
of the table is taken by one, saveMu is held by who saves, nobody but the prompt ends
its turn, who rehydrates holds the rehydrate lock) and, unless `raced`, CalmInv: a
session that hears its agent is the table's or about to be torn down (KnownInv), who
opens or releases finds the table empty and it stays so (EmptyInv), a prompt that waits
has a session that hears its agent (HeardInv), a turn that is answered is in the
transcript (WrittenInv), and the handle leads to what was answered (HandleInv).

`ExtensionManagerProofs`: TypeCorrect, TakesNothingBack, RunsWhatItKnows
(RunsOnceAndKnown), LeavesNothing (StopIsFinal), NoDeadOwner (AuthOwnerIsUp),
ToolsLeadSomewhere (ToolsAnswered). IInv = TypeOK, CallInv (where a call can be, and
with what), OrderInv, OwnedInv (an instance between spawn and registration has a
caller who will register or kill it), AuthInv, ToolInv, StoppedIsEmpty; unless `mixed`,
AloneInv (one caller at a time starts extensions, of names that nothing else has) and
AnswerInv (who has registered answers); unless `late`, a
Stop that has begun has marked the manager.

`SessionFilesProofs` is about two modules. Of the settings: AckedIsNeverLost
(AckedSurvives) and SettingsAreInPlace (SettingsInPlace), with IInv = TypeInv, KindInv,
MuInv, EditInv, CleanInv; unless `overtaken`, LengthInv, HandInv, AckInv and SavedInv;
unless `crossed`, ConvInv. saveMu serialises savers (MuInv); what a saver has read is
what is there (HandInv); without a fault no history is empty and no old version is left
behind one (CleanInv); what was acknowledged is no later than the snapshot on disk, that no later than the state
(AckInv), and the state is saved or a saver is on its way (SavedInv). ConvInv says
whose settings a snapshot in hand carries. Of the log: TypeCorrect and LosesNoLine
(NothingIsLost), with LogIInv = LogTypeInv, LogMuInv, FlockInv (who truncates is
alone), RotationInv, ClosedInv and, unless `bare`, ArchiveInv and CopyInv: one
process at a time shifts backups, and a copy is the log until that is truncated.

Only model-checked:

- all liveness (EventuallySaved, CallsEnd, CallersAnswered, CloseEnds, AckBounded,
  ClosedEndsCalls): fairness and ENABLED are beyond the prover.

## Disagreements with the code's comments

Where a comment of the code promises more than the code does, the module states the
comment too. No run expects a violation; each property below is violated by TLC when
it is put in the place of the property of its cfg, and is here for whoever changes
that code. The lines are in the comments of the modules and under "hazards" in
PROJECT.json.

| Property | cfg | What the code does |
|---|---|---|
| ForkKeepsItsLock | MCSessionStoreComments | between a fork's creation and its re-acquired flock, another descriptor owns the flock |
| LockNamesItsFile | MCSessionStoreComments | a store opened on a missing path holds the flock of a stray file |
| AlwaysAppendOnly | MCSessionStoreComments | a store opened on a missing path writes without the flock (session.go:373 against :177) |
| BranchesReachTheirRoot | MCSessionStoreLabels | a fork below a label drops the label its entries descend from |
| NeverSpentTwice | MCAuthStorageComments | a stale cache writes back a token that was used (accounts.go:188 against refresh.go:164) |
| StampMeansFresh | MCAuthStorageComments | the stamp taken after a write can be another process's write |
| LogoutAllLogsOut | MCAuthStorageComments | logging out of the default promotes an account after its slot was visited |
| DamageSparesTheCache | MCAuthStorage | a file cut short by a crash is read as no credentials |
| CloseLeavesNoneOpen | MCMcpManagerComments | Reload removes a server while Start's goroutine opens it, its loop not yet known: nobody stops the loop, and Close waits for it (client.go:1115 against :1478) |
| ReadyClosedOnce | MCMcpManagerComments | a dialler and Close can both close a ready channel (client.go:763, 1149 against :1499) |
| EventsInOrder | MCMcpManagerComments | ready, from Start, can follow the loop's disconnected |
| WaitersAreServed | MCMcpManagerComments | a caller waits on the channel of a generation that was given up |
| NoChangeMissed | MCMcpManagerComments | a change of tools announced between listing and install is not seen |
| DisabledStaysDown | MCMcpManagerLogin | a login dials with a configuration read before it was disabled |
| NestedUnderItsCall | MCExtensionBridge | a call_tool runs under the context of whichever tool call came last, or none |
| StreamsEnd | MCExtensionBridgeStreams | the end of the read loop leaves a stream's events without an end |
| NeverTwice | MCExtensionManagerComments | a ReloadOne and a Start both spawn an extension (manager.go:684-685) |
| StopIsAlwaysFinal | MCExtensionManagerComments | a Reload clears the flag Stop has set (manager.go:485-488) |
| AuthByPriority | MCExtensionManagerComments | a ReloadOne gives the provider to the extension that lost it (manager.go:305) |
| NotFoundIsDeleted | MCExtensionManagerComments | an extension of a package is stopped by a ReloadOne as if its file were gone (manager.go:677-678) |
| CommandsAreUnique | MCExtensionManagerClash | of two that start in parallel neither sees the other's command (manager.go:440) |
| WakingIsSeamless | MCAcpSessionsComments | a prompt can meet the reaper's teardown, and its turn is lost |
| OwnTurn | MCAcpSessionsComments | a prompt's message can be queued into another's run |
| ReleaseIsAuthoritative | MCAcpSessionsComments | a save that was under way binds a released handle again |
| RetryLeaksNothing | MCAcpSessionsComments | of two loads at once, one's session is overwritten in the table |
| ConversationIsKept | MCSessionStateComments | a save during a switch writes empty settings beside the transcript, where the switch reads them |
| HandleFollows | MCSessionStateComments | a save that asked for its transcript before a switch binds the handle to it after the switch (state.go:45) |
| LegacyComesFirst | MCSessionStateComments | of two that migrate and both found no history, the second appends after the first (store/state.go:79) |
| SettingsStay | MCSessionStateComments | a death tears the line a migration writes, and another's migration, which finds a history, removes the old file |
| NeverForgotten | MCAgentSessionComments | a run that begins beside a hand-off is reset with its message |
| InjectedIsHeard | MCAgentSessionComments | InjectMessage drops a message that should begin a turn when there is no model, or another run begins first (agentsession.go:745-747 against 759-760) |
| RunningMeansRunning | MCAgentSessionComments | a message queued after the run's last look leaves the card at running |
| PersistedInPlace | MCAgentSessionComments | a run that begins between a context's queueing and its persisting writes its messages before it (agentsession.go:1335-1338) |
| NeverCarriedTwice | MCSession | of two hand-offs that overlap both carry a message: the note changes its carryKey (session_bridge.go:41 against :636) |
| LossFree | MCSessionFiles | Close releases the flock under a rotation (rotate.go:144) |

## What is not modelled

Inside the modelled parts:

- SessionStore: write errors other than a death, and a rewrite that is itself cut short.
- AuthStorage: API keys, runtime overrides, the audit log, logins that only add, and a
  refresh without a deadline.
- McpManager: resources, prompts, sampling and health of servers, and the drop of
  events when the channel of 64 is full.
- ExtensionManager: discovery, trust, the fork template, signals, and that the roll
  back of a start which meets Stop leaves the tools it registered (manager.go:490-502).
- AcpSessions: session/cancel and the cancel functions of two prompts (conn.go:189),
  /resume and /new inside a session, hand-offs (methods.go:276-330); a delivery during
  unsubscribe is one step; a session is idle long enough to be reaped only when no
  prompt was admitted.
- SessionState: transcripts that another user owns, which are forked first; handles
  whose transcript is gone; errors of bind.
- AgentSession: compaction and its continuation (agentsession.go:1051-1117), the
  clearing of a plan at a prompt (736-740), credentials that change under a model,
  shell commands, switching and navigating, Steer and TriggerTurn. A hand-off has one
  prompt text, and the replies that run tools carry no text.
- LogRotation: the shift of more than two backups as several renames.

Everywhere: file time stamps are fine enough to tell two writes apart, and a process
dies, the machine does not: file systems that lose or reorder writes after a power
failure are left out. The components not modelled yet are in PROJECT.json with their
reasons: planned, external, or input and output with little state.

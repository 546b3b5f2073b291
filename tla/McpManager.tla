----------------------------- MODULE McpManager -----------------------------
(***************************************************************************)
(* pkg/mcp/client.go: a Manager and one MCP server of its configuration.   *)
(*                                                                         *)
(* Goroutines dial the server: the one Start launches, callers of Reload   *)
(* and LoginServer, and a reconnect loop per installed session.  What they *)
(* find is kept in the server's entry, whose mutex every step below that   *)
(* touches the entry holds from its first access to its last; between      *)
(* steps anybody may take it.                                              *)
(*                                                                         *)
(* Sessions, channels and loops that nobody refers to are used again, so   *)
(* no run is cut short.  Backoff and the kick that shortens it are time    *)
(* only, ServerConnecting is an announcement only; both are left out.      *)
(***************************************************************************)
EXTENDS Naturals

CONSTANTS
  Session,      \* connections to the server
  Chan,         \* ready channels
  Loop,         \* reconnect-loop goroutines
  Starter,      \* the goroutine Start launches for the server
  Closer,       \* the caller of Close
  Reloader,     \* callers of Reload
  Login,        \* callers of LoginServer
  Lister,       \* handlers of tools/list_changed
  Caller,       \* callers of CallTool, by ensureConnected
  Config,       \* configurations the server may be given
  Disabled,     \* those with "disabled" set
  None,
  Patient       \* whether Reload is called only when Start's dial is over

Dialer == {Starter} \cup Reloader \cup Login \cup Loop
Goroutine == Dialer \cup {Closer} \cup Lister \cup Caller

ASSUME McpAssumption ==
  /\ Disabled \subseteq Config /\ Config \ Disabled # {} /\ Chan # {}
  /\ None \notin Config \cup Session \cup Loop \cup Chan \cup Goroutine
  /\ Starter \notin Reloader \cup Login \cup Loop \cup {Closer} \cup Lister \cup Caller
  /\ Closer \notin Dialer \cup Lister \cup Caller
  /\ Loop \cap (Reloader \cup Login \cup Lister \cup Caller) = {}
  /\ Reloader \cap (Login \cup Lister \cup Caller) = {}
  /\ Login \cap (Lister \cup Caller) = {} /\ Lister \cap Caller = {}
  /\ Patient \in BOOLEAN

VARIABLES
  entry,        \* the serverEntry; its config is None when there is none
  conn,         \* a session is live, dead (its transport ended) or closed
  dialled,      \* the configuration a session was dialled with
  shut,         \* channels that were closed
  cancelled,    \* loops whose context was cancelled
  done,         \* m.done is closed
  panicked,     \* the process ended: a closed channel was closed
  reloadMu,     \* who holds m.reloadMu
  pc,           \* what a goroutine is doing
  mine,         \* the session it is doing it to
  chan,         \* the ready channel it will close, or waits for
  cfg,          \* the configuration it read
  saw,          \* whether the tools it listed are still the server's
  advertised,   \* whose tools the agent has; None: the saved schemas
  event         \* the last ServerReady or ServerDisconnected

entryVars == <<entry, dialled, done>>
liveVars == <<conn, shut, cancelled, panicked>>
localVars == <<mine, chan, cfg, saw>>
outVars == <<advertised, event>>
vars == <<entryVars, liveVars, reloadMu, pc, localVars, outVars>>

NewEntry(c, h) ==
  [config |-> c, session |-> None, tools |-> None, fresh |-> TRUE, err |-> FALSE,
   connecting |-> FALSE, ready |-> h, loop |-> None]

Configured == entry.config # None
Goto(g, where) == pc' = [pc EXCEPT ![g] = where]

\* The manager was started with the server configured.
Init ==
  /\ \E c \in Config, h \in Chan :
       LET starts == c \notin Disabled IN
       /\ entry = [NewEntry(c, h) EXCEPT !.connecting = starts]
       /\ pc = [g \in Goroutine |-> IF g \in Loop THEN "none"
                                    ELSE IF g = Starter /\ starts THEN "dial"
                                    ELSE "idle"]
       /\ cfg = [g \in Goroutine |-> IF g = Starter /\ starts THEN c ELSE None]
       /\ conn = [s \in Session |-> "closed"]
  /\ dialled = [s \in Session |-> None]
  /\ shut = {} /\ cancelled = {}
  /\ done = FALSE /\ panicked = FALSE
  /\ reloadMu = None
  /\ mine = [g \in Goroutine |-> None]
  /\ chan = [g \in Goroutine |-> None]
  /\ saw = [g \in Goroutine |-> FALSE]
  /\ advertised = None
  /\ event = "none"

-----------------------------------------------------------------------------
(* Shared steps. *)

Unused(s) ==
  /\ conn[s] = "closed"
  /\ s \notin {entry.session, entry.tools, advertised}
  /\ \A g \in Goroutine : mine[g] # s

Unheld(h) == h # entry.ready /\ \A g \in Goroutine : chan[g] # h

\* e.ready afterwards: as it is while open, a new one if it is closed.
OpenReady(h) ==
  IF entry.ready \in shut THEN Unheld(h) /\ shut' = shut \ {h}
                          ELSE h = entry.ready /\ UNCHANGED shut

CloseConn(g) == conn' = [conn EXCEPT ![mine[g]] = "closed"]
LetGo(g) == mine' = [mine EXCEPT ![g] = None]

\* The callback of onToolsChanged: ToolsByServer into the agent's tool set.
Offered ==
  IF Configured /\ entry.config \notin Disabled /\ entry.session # None
    THEN entry.tools ELSE None
Advertise == advertised' = Offered

-----------------------------------------------------------------------------
(* Dialling and installing: startServer and tryReconnect. *)

\* Connected and listed.
DialOk(g) ==
  /\ pc[g] = "dial" /\ cfg[g] # None
  /\ \E s \in Session :
       /\ Unused(s)
       /\ conn' = [conn EXCEPT ![s] = "live"]
       /\ dialled' = [dialled EXCEPT ![s] = cfg[g]]
       /\ mine' = [mine EXCEPT ![g] = s]
  /\ saw' = [saw EXCEPT ![g] = TRUE]
  /\ cfg' = [cfg EXCEPT ![g] = None]
  /\ Goto(g, "install")
  /\ UNCHANGED <<entry, done, shut, cancelled, panicked, reloadMu, chan, outVars>>

\* What failed was closed; a loop whose context was cancelled counts nothing.
DialFails(g) ==
  /\ pc[g] = "dial"
  /\ Goto(g, IF g \in Loop /\ g \in cancelled THEN "retry" ELSE "failed")
  /\ cfg' = [cfg EXCEPT ![g] = None]
  /\ UNCHANGED <<entryVars, liveVars, reloadMu, mine, chan, saw, outVars>>

\* Variant: a new ready channel is made even if the entry's is open.
InstalledAnew(g) ==
  /\ \E h \in Chan :
       /\ Unheld(h)
       /\ shut' = shut \ {h}
       /\ entry' = [entry EXCEPT !.session = mine[g], !.tools = mine[g],
                                 !.fresh = saw[g], !.err = FALSE, !.ready = h]
       /\ chan' = [chan EXCEPT ![g] = h]
  /\ Goto(g, "closeReady")
  /\ UNCHANGED conn

\* The session is the entry's.
Installed(g) ==
  /\ \E h \in Chan :
       /\ OpenReady(h)
       /\ entry' = [entry EXCEPT !.session = mine[g], !.tools = mine[g],
                                 !.fresh = saw[g], !.err = FALSE, !.ready = h]
       /\ chan' = [chan EXCEPT ![g] = h]
  /\ Goto(g, "closeReady")
  /\ UNCHANGED conn

\* Nobody would ever close it: installSession does.
Refused(g) ==
  /\ CloseConn(g)
  /\ Goto(g, IF g \in Loop THEN "retry" ELSE "failed")
  /\ UNCHANGED <<entry, shut, chan>>

\* Variant: the context of the dial is not looked at.
InstallStale(g) ==
  /\ pc[g] = "install"
  /\ IF Configured /\ ~done THEN Installed(g) ELSE Refused(g)
  /\ LetGo(g)
  /\ saw' = [saw EXCEPT ![g] = FALSE]
  /\ UNCHANGED <<dialled, done, cancelled, panicked, reloadMu, cfg, outVars>>

\* Variant: m.done is not looked at.
InstallLate(g) ==
  /\ pc[g] = "install"
  /\ IF Configured /\ g \notin cancelled THEN Installed(g) ELSE Refused(g)
  /\ LetGo(g)
  /\ saw' = [saw EXCEPT ![g] = FALSE]
  /\ UNCHANGED <<dialled, done, cancelled, panicked, reloadMu, cfg, outVars>>

InstallSession(g) ==
  /\ pc[g] = "install"
  /\ IF Configured /\ ~done /\ g \notin cancelled THEN Installed(g) ELSE Refused(g)
  /\ LetGo(g)
  /\ saw' = [saw EXCEPT ![g] = FALSE]
  /\ UNCHANGED <<dialled, done, cancelled, panicked, reloadMu, cfg, outVars>>

\* close(ready), outside the entry's lock.
CloseReady(g) ==
  /\ pc[g] = "closeReady"
  /\ panicked' = (chan[g] \in shut)
  /\ shut' = shut \cup {chan[g]}
  /\ chan' = [chan EXCEPT ![g] = None]
  /\ Goto(g, IF g \in Loop THEN "tell" ELSE "startLoop")
  /\ UNCHANGED <<entryVars, conn, cancelled, reloadMu, mine, cfg, saw, outVars>>

\* The loop, if there is one to cancel.
Running(l) == {x \in Loop : x = l /\ pc[x] # "none"}

\* startReconnectLoop: the loop before is told to stop.
StartLoop(g) ==
  /\ pc[g] = "startLoop"
  /\ IF Configured
       THEN \E l \in Loop :
              /\ pc[l] = "none" /\ l # entry.loop
              /\ entry' = [entry EXCEPT !.loop = l]
              /\ cancelled' = cancelled \cup Running(entry.loop)
              /\ pc' = [pc EXCEPT ![l] = "top", ![g] = "started"]
       ELSE Goto(g, "started") /\ UNCHANGED <<entry, cancelled>>
  /\ UNCHANGED <<dialled, done, conn, shut, panicked, reloadMu, localVars, outVars>>

-----------------------------------------------------------------------------
(* Start. *)

\* connecting is over.
StartOver ==
  /\ pc[Starter] \in {"started", "failed"}
  /\ entry' = IF Configured THEN [entry EXCEPT !.connecting = FALSE] ELSE entry
  /\ Goto(Starter, IF pc[Starter] = "started" THEN "tell" ELSE "fail")
  /\ UNCHANGED <<dialled, done, liveVars, reloadMu, localVars, outVars>>

\* The error is recorded, and whatever session the entry has is taken out.
StartFails ==
  /\ pc[Starter] = "fail"
  /\ IF Configured
       THEN /\ entry' = IF entry.session = None THEN [entry EXCEPT !.err = TRUE]
                        ELSE [entry EXCEPT !.err = TRUE, !.session = None, !.tools = None]
            /\ mine' = [mine EXCEPT ![Starter] = entry.session]
       ELSE UNCHANGED <<entry, mine>>
  /\ Goto(Starter, "drop")
  /\ UNCHANGED <<dialled, done, liveVars, reloadMu, chan, cfg, saw, outVars>>

StartDrops ==
  /\ pc[Starter] = "drop"
  /\ IF mine[Starter] = None THEN UNCHANGED <<conn, mine>>
     ELSE CloseConn(Starter) /\ LetGo(Starter)
  /\ Goto(Starter, "tellFailed")
  /\ UNCHANGED <<entryVars, shut, cancelled, panicked, reloadMu, chan, cfg, saw, outVars>>

\* onToolsChanged, then ServerReady with or without an error.
StartTells ==
  /\ pc[Starter] \in {"tell", "tellFailed"}
  /\ Advertise
  /\ event' = IF pc[Starter] = "tell" THEN "ready" ELSE "failed"
  /\ Goto(Starter, "idle")
  /\ UNCHANGED <<entryVars, liveVars, reloadMu, localVars>>

-----------------------------------------------------------------------------
(* The reconnect loop. *)

\* reconnectLoopRetired
Retired(l) == l \in cancelled \/ done \/ ~Configured

LoopExits(l) == Goto(l, "none") /\ cancelled' = cancelled \ {l}

LoopChecks(l) ==
  /\ pc[l] \in {"top", "retry"}
  /\ IF Retired(l) THEN LoopExits(l)
     ELSE Goto(l, IF pc[l] = "top" THEN "look" ELSE "redial") /\ UNCHANGED cancelled
  /\ UNCHANGED <<entryVars, conn, shut, panicked, reloadMu, localVars, outVars>>

\* Wait for the session there is; else dial one.
LoopLooks(l) ==
  /\ pc[l] = "look"
  /\ mine' = [mine EXCEPT ![l] = entry.session]
  /\ Goto(l, IF entry.session = None THEN "retry" ELSE "wait")
  /\ UNCHANGED <<entryVars, liveVars, reloadMu, chan, cfg, saw, outVars>>

\* session.Wait returns, and handleSessionEnd closes what is left of it.
SessionEnds(l) ==
  /\ pc[l] = "wait" /\ conn[mine[l]] # "live"
  /\ CloseConn(l)
  /\ Goto(l, "ended")
  /\ UNCHANGED <<entryVars, shut, cancelled, panicked, reloadMu, localVars, outVars>>

\* The entry is cleared if it still is this session's.
HandleSessionEnd(l) ==
  /\ pc[l] = "ended"
  /\ IF Configured /\ entry.session = mine[l]
       THEN /\ \E h \in Chan, bad \in BOOLEAN :
                 /\ Unheld(h)
                 /\ shut' = shut \ {h}
                 /\ entry' = [entry EXCEPT !.session = None, !.tools = None,
                                           !.ready = h, !.err = bad]
            /\ Goto(l, "tellEnd")
       ELSE Goto(l, "tellStale") /\ UNCHANGED <<entry, shut>>
  /\ LetGo(l)
  /\ UNCHANGED <<dialled, done, conn, cancelled, panicked, reloadMu, chan, cfg, saw, outVars>>

\* Variant: the agent is not told that a session ended.
LoopTellsReadyOnly(l) ==
  /\ pc[l] \in {"tellEnd", "tellStale", "tell"}
  /\ IF pc[l] = "tell" THEN Advertise ELSE UNCHANGED advertised
  /\ event' = CASE pc[l] = "tellEnd" -> "disconnected"
                [] pc[l] = "tell" -> "ready"
                [] OTHER -> event
  /\ Goto(l, IF pc[l] = "tell" THEN "top" ELSE "retry")
  /\ UNCHANGED <<entryVars, liveVars, reloadMu, localVars>>

\* onToolsChanged, and the event if the entry changed.
LoopTells(l) ==
  /\ pc[l] \in {"tellEnd", "tellStale", "tell"}
  /\ Advertise
  /\ event' = CASE pc[l] = "tellEnd" -> "disconnected"
                [] pc[l] = "tell" -> "ready"
                [] OTHER -> event
  /\ Goto(l, IF pc[l] = "tell" THEN "top" ELSE "retry")
  /\ UNCHANGED <<entryVars, liveVars, reloadMu, localVars>>

\* tryReconnect reads the configuration, waits its backoff and dials, unless its
\* context is cancelled while it waits.
Retry(l) ==
  /\ pc[l] = "redial"
  /\ \/ cfg' = [cfg EXCEPT ![l] = entry.config] /\ Goto(l, "dial")
     \/ l \in cancelled /\ Goto(l, "retry") /\ UNCHANGED cfg
  /\ UNCHANGED <<entryVars, liveVars, reloadMu, mine, chan, saw, outVars>>

\* The failure is counted, and surfaced when it needs a login or repeats.
RetryFailed(l) ==
  /\ pc[l] = "failed"
  /\ \E surface \in BOOLEAN :
       entry' = IF Configured
                  THEN [entry EXCEPT !.err = @ \/ surface]
                  ELSE entry
  /\ Goto(l, "retry")
  /\ UNCHANGED <<dialled, done, liveVars, reloadMu, localVars, outVars>>

-----------------------------------------------------------------------------
(* Reload and LoginServer. *)

\* Which of removed, changed, unchanged but down, or new the server is: its
\* loop is cancelled and its session noted, unless it is unchanged and up.
BeginReload(r) ==
  /\ pc[r] = "idle" /\ reloadMu = None
  /\ Patient => pc[Starter] = "idle"
  /\ reloadMu' = r
  /\ \E c \in Config \cup {None} :
       LET healthy == entry.connecting \/ (entry.session # None /\ ~entry.err) IN
       /\ cfg' = [cfg EXCEPT ![r] = c]
       /\ IF Configured /\ ~(c = entry.config /\ healthy)
            THEN /\ entry' = [entry EXCEPT !.loop = None]
                 /\ cancelled' = cancelled \cup Running(entry.loop)
                 /\ mine' = [mine EXCEPT ![r] = entry.session]
                 /\ Goto(r, IF entry.session = None THEN "update" ELSE "clear")
            ELSE /\ Goto(r, IF Configured THEN "tell" ELSE "update")
                 /\ UNCHANGED <<entry, cancelled, mine>>
  /\ UNCHANGED <<dialled, done, conn, shut, panicked, chan, saw, outVars>>

\* "Clear state before closing".
ReloadClears(r) ==
  /\ pc[r] = "clear"
  /\ IF Configured
       THEN \E h \in Chan :
              /\ OpenReady(h)
              /\ entry' = [entry EXCEPT !.session = None, !.tools = None,
                                        !.err = FALSE, !.ready = h]
       ELSE UNCHANGED <<entry, shut>>
  /\ Goto(r, "close")
  /\ UNCHANGED <<dialled, done, conn, cancelled, panicked, reloadMu, localVars, outVars>>

ReloadCloses(r) ==
  /\ pc[r] = "close"
  /\ CloseConn(r) /\ LetGo(r)
  /\ Goto(r, "update")
  /\ UNCHANGED <<entryVars, shut, cancelled, panicked, reloadMu, chan, cfg, saw, outVars>>

\* The entry is deleted, made, or given its configuration; then it is started.
ReloadUpdates(r) ==
  /\ pc[r] = "update"
  /\ IF cfg[r] = None
       THEN entry' = NewEntry(None, entry.ready) /\ UNCHANGED shut
       ELSE IF Configured
         THEN entry' = [entry EXCEPT !.config = cfg[r]] /\ UNCHANGED shut
         ELSE \E h \in Chan :
                Unheld(h) /\ shut' = shut \ {h} /\ entry' = NewEntry(cfg[r], h)
  /\ IF cfg[r] \in Disabled \cup {None}
       THEN Goto(r, "tell") ELSE Goto(r, "dial")
  /\ UNCHANGED <<dialled, done, conn, cancelled, panicked, reloadMu, localVars, outVars>>

ReloadStarted(r) ==
  /\ pc[r] \in {"started", "failed"}
  /\ entry' = IF pc[r] = "failed" /\ Configured THEN [entry EXCEPT !.err = TRUE]
                                                ELSE entry
  /\ Goto(r, "tell")
  /\ UNCHANGED <<dialled, done, liveVars, reloadMu, localVars, outVars>>

ReloadTells(r) ==
  /\ pc[r] = "tell"
  /\ Advertise
  /\ reloadMu' = None
  /\ cfg' = [cfg EXCEPT ![r] = None]
  /\ Goto(r, "idle")
  /\ UNCHANGED <<entryVars, liveVars, mine, chan, saw, event>>

\* LoginServer reads the configuration, then a person uses a browser.
BeginLogin(p) ==
  /\ pc[p] = "idle" /\ Configured
  /\ cfg' = [cfg EXCEPT ![p] = entry.config]
  /\ Goto(p, "login")
  /\ UNCHANGED <<entryVars, liveVars, reloadMu, mine, chan, saw, outVars>>

\* A server nobody is connecting is started, with the configuration read then.
FinishLogin(p) ==
  /\ pc[p] = "login" /\ reloadMu = None
  /\ IF \/ cfg[p] \in Disabled
        \/ entry.session # None \/ entry.connecting \/ entry.loop # None
       THEN /\ Goto(p, "idle")
            /\ cfg' = [cfg EXCEPT ![p] = None]
            /\ UNCHANGED reloadMu
       ELSE /\ Goto(p, "dial")
            /\ reloadMu' = p
            /\ UNCHANGED cfg
  /\ UNCHANGED <<entryVars, liveVars, mine, chan, saw, outVars>>

LoginEnds(p) ==
  /\ pc[p] \in {"started", "failed"}
  /\ IF pc[p] = "started" THEN Advertise ELSE UNCHANGED advertised
  /\ reloadMu' = None
  /\ cfg' = [cfg EXCEPT ![p] = None]
  /\ Goto(p, "idle")
  /\ UNCHANGED <<entryVars, liveVars, mine, chan, saw, event>>

-----------------------------------------------------------------------------
(* ToolListChangedHandler. *)

\* The server's tools change: what was listed of them is out of date, and the
\* notification starts a handler.
ToolsChange(t) ==
  /\ pc[t] = "idle"
  /\ \E s \in Session :
       /\ conn[s] = "live"
       /\ mine' = [mine EXCEPT ![t] = s]
       /\ saw' = [g \in Goroutine |-> saw[g] /\ mine[g] # s]
       /\ entry' = IF entry.tools = s THEN [entry EXCEPT !.fresh = FALSE] ELSE entry
  /\ Goto(t, "check")
  /\ UNCHANGED <<dialled, done, liveVars, reloadMu, chan, cfg, outVars>>

GiveUp(t) == Goto(t, "idle") /\ LetGo(t) /\ saw' = [saw EXCEPT ![t] = FALSE]

\* "If the session isn't installed in the entry yet, skip".
ListerChecks(t) ==
  /\ pc[t] = "check"
  /\ IF entry.session = None THEN GiveUp(t) ELSE Goto(t, "list") /\ UNCHANGED <<mine, saw>>
  /\ UNCHANGED <<entryVars, liveVars, reloadMu, chan, cfg, outVars>>

ListerLists(t) ==
  /\ pc[t] = "list"
  /\ \/ GiveUp(t)
     \/ /\ conn[mine[t]] = "live"
        /\ saw' = [saw EXCEPT ![t] = TRUE]
        /\ Goto(t, "store")
        /\ UNCHANGED mine
  /\ UNCHANGED <<entryVars, liveVars, reloadMu, chan, cfg, outVars>>

\* Variant: no guard against stale updates.
ListerStoresUnguarded(t) ==
  /\ pc[t] = "store"
  /\ entry' = IF Configured THEN [entry EXCEPT !.tools = mine[t], !.fresh = saw[t]]
                            ELSE entry
  /\ Goto(t, "tell")
  /\ UNCHANGED <<dialled, done, liveVars, reloadMu, localVars, outVars>>

\* "Guard against stale updates".
ListerStores(t) ==
  /\ pc[t] = "store"
  /\ entry' = IF Configured /\ entry.session = mine[t]
                THEN [entry EXCEPT !.tools = mine[t], !.fresh = saw[t]] ELSE entry
  /\ Goto(t, "tell")
  /\ UNCHANGED <<dialled, done, liveVars, reloadMu, localVars, outVars>>

ListerTells(t) ==
  /\ pc[t] = "tell"
  /\ Advertise
  /\ GiveUp(t)
  /\ UNCHANGED <<entryVars, liveVars, reloadMu, chan, cfg, event>>

-----------------------------------------------------------------------------
(* ensureConnected, when the fast path finds no session. *)

CallSlow(k) ==
  /\ pc[k] = "idle" /\ entry.session = None
  /\ Goto(k, "slow")
  /\ UNCHANGED <<entryVars, liveVars, reloadMu, localVars, outVars>>

\* Not configured or no loop: an error.  Else wait for ready.
CallSnapshots(k) ==
  /\ pc[k] = "slow"
  /\ IF Configured /\ entry.loop # None
       THEN chan' = [chan EXCEPT ![k] = entry.ready] /\ Goto(k, "waiting")
       ELSE Goto(k, "idle") /\ UNCHANGED chan
  /\ UNCHANGED <<entryVars, liveVars, reloadMu, mine, cfg, saw, outVars>>

CallReturns(k) == chan' = [chan EXCEPT ![k] = None] /\ Goto(k, "idle")

CallWakes(k) ==
  /\ pc[k] = "waiting" /\ chan[k] \in shut
  /\ CallReturns(k)
  /\ UNCHANGED <<entryVars, liveVars, reloadMu, mine, cfg, saw, outVars>>

\* ctx.Done
CallTimesOut(k) ==
  /\ pc[k] = "waiting"
  /\ CallReturns(k)
  /\ UNCHANGED <<entryVars, liveVars, reloadMu, mine, cfg, saw, outVars>>

-----------------------------------------------------------------------------
(* Close, and sessions that end. *)

BeginClose ==
  /\ pc[Closer] = "idle"
  /\ done' = TRUE
  /\ Goto(Closer, "snapshot")
  /\ UNCHANGED <<entry, dialled, liveVars, reloadMu, localVars, outVars>>

\* Take the loop and the session out of the entry and wake who waits.  (The
\* loops are cancelled a little later; they heed m.done as well.)
CloseSnapshots ==
  /\ pc[Closer] = "snapshot"
  /\ IF Configured
       THEN /\ entry' = [entry EXCEPT !.loop = None, !.session = None]
            /\ cancelled' = cancelled \cup Running(entry.loop)
            /\ mine' = [mine EXCEPT ![Closer] = entry.session]
            /\ shut' = shut \cup {entry.ready}
       ELSE UNCHANGED <<entry, cancelled, mine, shut>>
  /\ Goto(Closer, "close")
  /\ UNCHANGED <<dialled, done, conn, panicked, reloadMu, chan, cfg, saw, outVars>>

\* Variant: the loops are waited for before the sessions are closed.
CloseJoinsFirst ==
  /\ pc[Closer] = "close"
  /\ \A l \in Loop : pc[l] = "none"
  /\ IF mine[Closer] = None THEN UNCHANGED <<conn, mine>>
     ELSE CloseConn(Closer) /\ LetGo(Closer)
  /\ Goto(Closer, "join")
  /\ UNCHANGED <<entryVars, shut, cancelled, panicked, reloadMu, chan, cfg, saw, outVars>>

CloseCloses ==
  /\ pc[Closer] = "close"
  /\ IF mine[Closer] = None THEN UNCHANGED <<conn, mine>>
     ELSE CloseConn(Closer) /\ LetGo(Closer)
  /\ Goto(Closer, "join")
  /\ UNCHANGED <<entryVars, shut, cancelled, panicked, reloadMu, chan, cfg, saw, outVars>>

\* reconnectWG.Wait
CloseJoins ==
  /\ pc[Closer] = "join"
  /\ \A l \in Loop : pc[l] = "none"
  /\ Goto(Closer, "ended")
  /\ UNCHANGED <<entryVars, liveVars, reloadMu, localVars, outVars>>

\* The server goes away.
SessionDies ==
  /\ \E s \in Session : conn[s] = "live" /\ conn' = [conn EXCEPT ![s] = "dead"]
  /\ UNCHANGED <<entryVars, shut, cancelled, panicked, reloadMu, pc, localVars, outVars>>

-----------------------------------------------------------------------------
(* The specification. *)

\* The steps by which what was begun goes on, but for the server's answers.
Run(g) ==
  \/ InstallSession(g) \/ CloseReady(g) \/ StartLoop(g)
  \/ g = Starter /\ (StartOver \/ StartFails \/ StartDrops \/ StartTells)
  \/ g \in Loop /\ (\/ LoopChecks(g) \/ LoopLooks(g) \/ SessionEnds(g) \/ HandleSessionEnd(g)
                    \/ LoopTells(g) \/ Retry(g) \/ RetryFailed(g))
  \/ g \in Reloader /\ (\/ ReloadClears(g) \/ ReloadCloses(g) \/ ReloadUpdates(g)
                        \/ ReloadStarted(g) \/ ReloadTells(g))
  \/ g \in Login /\ LoginEnds(g)
  \/ g \in Lister /\ (\/ ListerChecks(g) \/ ListerLists(g) \/ ListerStores(g)
                      \/ ListerTells(g))
  \/ g \in Caller /\ (CallSnapshots(g) \/ CallWakes(g))
  \/ g = Closer /\ (CloseSnapshots \/ CloseCloses \/ CloseJoins)

Answers(g) == DialOk(g) \/ DialFails(g)

\* What users, callers, servers and time do.
Begin ==
  \/ \E r \in Reloader : BeginReload(r)
  \/ \E p \in Login : BeginLogin(p) \/ FinishLogin(p)
  \/ \E t \in Lister : ToolsChange(t)
  \/ \E k \in Caller : CallSlow(k) \/ CallTimesOut(k)
  \/ BeginClose
  \/ SessionDies

Next ==
  /\ ~panicked
  /\ \/ \E g \in Goroutine : Run(g)
     \/ \E g \in Dialer : Answers(g)
     \/ Begin

Spec == Init /\ [][Next]_vars

\* A goroutine runs on, and a dial ends.  A server that is dialled for ever
\* answers at last.
FairSpec ==
  /\ Spec
  /\ \A g \in Goroutine : WF_vars(~panicked /\ Run(g))
  /\ \A g \in Dialer :
       WF_vars(~panicked /\ Answers(g)) /\ SF_vars(~panicked /\ DialOk(g))

-----------------------------------------------------------------------------
(* Properties. *)

EntryType ==
  [config : Config \cup {None}, session : Session \cup {None},
   tools : Session \cup {None}, fresh : BOOLEAN, err : BOOLEAN,
   connecting : BOOLEAN, ready : Chan, loop : Loop \cup {None}]

PC == {"none", "idle", "dial", "install", "closeReady", "startLoop", "started",
       "failed", "tell", "fail", "drop", "tellFailed", "top", "wait", "ended",
       "tellEnd", "tellStale", "retry", "look", "redial", "clear", "close", "update", "login",
       "check", "list", "store", "slow", "waiting", "snapshot", "join"}

TypeOK ==
  /\ entry \in EntryType
  /\ conn \in [Session -> {"live", "dead", "closed"}]
  /\ dialled \in [Session -> Config \cup {None}]
  /\ shut \subseteq Chan /\ cancelled \subseteq Loop
  /\ done \in BOOLEAN /\ panicked \in BOOLEAN
  /\ reloadMu \in Reloader \cup Login \cup {None}
  /\ pc \in [Goroutine -> PC]
  /\ mine \in [Goroutine -> Session \cup {None}]
  /\ chan \in [Goroutine -> Chan \cup {None}]
  /\ cfg \in [Goroutine -> Config \cup {None}]
  /\ saw \in [Goroutine -> BOOLEAN]
  /\ advertised \in Session \cup {None}
  /\ event \in {"none", "ready", "failed", "disconnected"}

\* installSession: a session that is open is the entry's, or a goroutine that
\* will close or install it has it; a loop that only waits for it will not.
NoSessionStranded ==
  \A s \in Session :
    conn[s] # "closed" =>
      \/ s = entry.session
      \/ \E g \in Dialer \cup {Closer} : mine[g] = s /\ pc[g] # "wait"
      \/ conn[s] = "dead" /\ \E l \in Loop : mine[l] = s

\* installSession against Close: what Close left behind stays empty.
NothingInstalledAfterClose ==
  pc[Closer] \in {"close", "join", "ended"} => entry.session = None

\* A loop that was not told to stop is the one the entry knows, so Reload and
\* Close can tell it to, and there is no other.
LoopIsKnown ==
  \A l \in Loop : pc[l] # "none" /\ l \notin cancelled => entry.loop = l

\* installSession, startReconnect: whatever runs for the server, session or loop,
\* is known to somebody who will end it.
NothingStranded == TypeOK /\ NoSessionStranded /\ LoopIsKnown

\* Reload: the installed session was dialled with the entry's configuration.
SessionHasItsConfig ==
  entry.session # None => dialled[entry.session] = entry.config

\* ToolListChangedHandler: the entry's tools are those of its session.
ToolsOfTheSession == entry.session # None => entry.tools = entry.session

\* The goroutine owes the agent no news.
Told(g) ==
  \/ pc[g] \in {"idle", "none", "top", "look", "wait", "retry", "redial", "slow",
                "waiting", "login", "check", "list"}
  \/ g \in Loop /\ pc[g] \in {"dial", "install", "failed"}

\* onToolsChanged: every change of the entry is followed by a callback, so the
\* agent ends with the tools of the session there is.
AgentHasTheTools ==
  ~done /\ ~panicked /\ (\A g \in Goroutine : Told(g)) =>
    advertised = Offered

\* Close comes to its end, for it closes every session a loop may wait for.
CloseEnds == pc[Closer] = "snapshot" ~> pc[Closer] = "ended" \/ panicked

\* ensureConnected: "waits for the auto-reconnect loop to install one".
CallersAnswered ==
  \A k \in Caller : pc[k] = "waiting" ~> pc[k] = "idle" \/ panicked

-----------------------------------------------------------------------------
(* What comments of the code say and the code does not do. *)

\* "Use non-blocking detect-then-close to handle the case where the loop
\* already closed it": a ready channel is closed once.
ReadyClosedOnce == ~panicked

\* "Close closes all active MCP sessions and stops their auto-reconnect
\* loops": when Close gets to wait for the loops, no session it passed over
\* keeps one of them waiting.
CloseLeavesNoneOpen ==
  pc[Closer] = "join" =>
    \A l \in Loop : pc[l] = "wait" => \/ conn[mine[l]] # "live"
                                      \/ \E g \in Dialer \ Loop : mine[g] = mine[l]

\* "Events for a single server are delivered in order": a session ends after
\* it was ready.
EventsInOrder ==
  [][event' = "disconnected" /\ event # "disconnected" => event = "ready"]_event

\* "waits for the auto-reconnect loop to install one.  If no loop is running
\* [...] returns "not connected" immediately": a caller that waits has a
\* channel that a loop, a start or Close is to close.
WaitersAreServed ==
  \A k \in Caller : pc[k] = "waiting" =>
    \/ chan[k] \in shut
    \/ /\ Configured /\ chan[k] = entry.ready
       /\ entry.loop # None \/ (\E g \in Dialer : pc[g] # "idle" /\ g \notin Loop)

\* "a disabled server is never dialled"
DisabledStaysDown ==
  \A g \in Login : pc[g] = "dial" => entry.config \notin Disabled

\* "If the session isn't installed in the entry yet, skip: dialAndInitialize
\* lists tools right after Connect anyway": no change of the tools is missed.
NoChangeMissed ==
  entry.session # None /\ conn[entry.session] = "live" /\ ~entry.fresh =>
    \E t \in Lister : pc[t] \in {"check", "list", "store"} /\ mine[t] = entry.session
=============================================================================

# A TLA+ model of OpenRung for Windows

The repository is a Windows VPN client: a WinUI app (`app/OpenRung.WinUI.Cpp`)
that starts and watches a Go process, the *core* (`core/`), over a loopback
HTTP API; the connection engine inside the core (`libs/connectcore`); the
client side of the transports (`libs/punchcore`, `libs/wsscore`,
`libs/brokerapi`); and a vendored copy of the server side
(`libs/openrung/internal`: broker, relay hub, relay runtime, WSS sidecar).

Six models cover it: the engine's lifecycle, one session's supervision, the app
and its core process, the path by which a client reaches a relay (*access*), the
path by which a relay reaches the directory (*relay network*), and telemetry from
the client's queue to the broker's store. `PROJECT.json` maps every definition to
the source lines it models and lists the hazards.

## 1. Inventory

| Part | State | Operations | Hard behaviour | What must be right |
|---|---|---|---|---|
| Engine lifecycle (`engine.go`, `lifecycle.go`, `mode.go`) | `connectMu`, `s.conn`, the status, per connection: flags, active candidate, proxy flags and snapshot | Connect, Disconnect, SetMode, Shutdown, Start, the `runConnect` goroutine | methods overlap the goroutine; the intent is read, unlocked and used; the process dies anywhere; registry and file calls fail | one live connection; an honest terminal status; the user's proxy setting comes back; every method returns |
| Session supervision (`monitor.go`, `network.go`) | current candidate, trigger, one-slot channels, epochs, pause | watch, hold, recover, gate, promote, health sweeps | wakes sent after the epoch bump, drained by two readers; pause against cancel | no epoch is lost; a cancel ends every wait |
| Punch breaker (`punchbreaker.go`, `punch.go`) | streak, open flag, stamp per relay | mark, lose, ask | long sequences of losses; the threshold | an unstable relay is not punched for ever |
| Ladder and WSS fallback (`engine.go`, `wss.go`) | candidate list, ticket retry flag, fronts | attempt direct, punch, WSS; request ticket | one retry per ladder; blame for the right party; expiry | no ticket without eligibility; no relay blamed for its front |
| Candidate selection (`ranker.go`, `helpers.go`) | none | rank, filter, demote | pinned and empty targets | a permutation of its input; a demoted relay is last, never dropped |
| Directory cache (`directory.go`) | snapshot, time of fetch, in-flight marker | fetch, snapshotFor | failing fetches, expiry | rate floor, single flight, nothing expired is served |
| Core process (`core/server.go`, `api.go`) | endpoint file, heartbeat time, HTTP handlers | serve, watchdog, handlers, shutdown | two cores start together; exit against start | one core; its file is its own; the proxy is back before exit |
| App services (`CoreManager.cpp`, `CoreSupervisor.cpp`) | process handle, threads, stop event, gate | EnsureRunning, Stop, Restart, heartbeat, event loop | threads joined under a lock; adoption; elevation | a running core is kept alive; stop and start compose |
| Telemetry (`clienttelemetry`) | session, outbox and its file | record, flush, remove, rewrite | crash between send and removal; caps | delivered at least once up to the cap |
| WSS tickets (`broker/wss_ticket.go`, `wssbridge`) | replay journal, session limits | issue, redeem, compact, admit | restart during compaction; limits at their bound | a ticket is redeemed once |
| Broker, hub, relay node | leases, caps, tunnels, ports | register, heartbeat, expire, claim, release | lost registrations, fast reconnects | a lease has one live tunnel; no port is leaked |
| Event hub, UI views, queries, HTTP and crypto code | | | | not modelled: display, SQL and I/O |

How the parts meet: the app calls the core's HTTP handlers, which call the
engine's public methods from one goroutine each. The engine starts one
goroutine per connection. That goroutine borrows the Windows proxy setting
through `proxymode` and leaves a snapshot in the state store for the next
launch. While connected it supervises a tunnel together with a health loop, and
reacts to network epochs reported by `core/netwatch.go`. To connect it asks the
broker for a page of relays and climbs a *ladder*: each relay in turn, directly,
over a punched UDP path that the relay's hub coordinates, or through a CDN front
to the relay's WSS *sidecar*, which honours a ticket issued by the broker. A
relay gets onto the page by registering itself or through a hub it keeps a
tunnel to. What the client observes goes through an outbox file to the broker's
telemetry sink.

## 2. Modules

| Module | Content |
|---|---|
| `Engine` | the engine's goroutines, the OS proxy, the store and the process |
| `EngineProps`, `EngineInv` | its properties; the inductive invariant |
| `EngineProofs` | lock and reference lemmas, one lemma per group of steps, the theorems |
| `MCEngine` and `engine_*.cfg` | instances for TLC |
| `Supervise` | one session's supervise loop, health loop, epochs, pause and breaker |
| `SuperviseProps`, `SuperviseProofs` | properties and inductive invariant; theorems |
| `MCSupervise`, `supervise.cfg` | the instance for TLC |
| `CoreLink` | the app's `CoreManager` with its threads, the core processes, the endpoint file |
| `CoreLinkProps`, `CoreLinkProofs` | properties and inductive invariants; theorems |
| `MCCoreLink`, `corelink*.cfg` | the instances for TLC |
| `Directory`, `Hub`, `Reach`, `RelayNode` | the broker's relay store with its cap for new relays; the hub's sessions; the reachability probe; the relay's runtime and tunnel client |
| `RelayNet`, `RelayNetProps`, `MCRelayNet`, `relaynet.cfg` | the three together, their properties and inductive invariant, the instance |
| `RelayNetProofs` | the theorems about them |
| `Outbox`, `TelemetryManager`, `Ingest` | the queue and its file; sessions, heartbeats and flushes; the broker's handler and its two sinks |
| `Telemetry`, `TelemetryProps`, `MCTelemetry`, `telemetry.cfg` | the three together, their properties and inductive invariant, the instance |
| `TelemetryStepProofs`, `TelemetryProofs` | one lemma per step of a host, the file and the broker; lemmas about ordered selections, and the theorems |
| `Env`, `Tickets`, `ReplayStore`, `Sidecar`, `WssClient` | time and mishaps; issue and verification; the replay journal; the sidecar's handlers; the client's end of a WSS session |
| `Rendezvous` | a punch: client, coordinator and relay |
| `Ranking`, `Discovery`, `SingBox`, `Ladder`, `Panel` | score and page; the race for the page; the tunnel's configuration; the connect ladder; the app's pages and the handlers behind them |
| `OneShot` | what a ticket promises: the abstract specification |
| `Access`, `AccessProps`, `MCAccess`, `access.cfg` | the access path together, its properties and inductive invariants, the instance |
| `AccessStepProofs`, `AccessProofs` | what the steps of sidecar, journal, coordinator and pages keep; the ladder's steps, the refinement of `OneShot` and the theorems |

The definitions whose comment starts with *Mutant* are not part of a
specification. Each is a plausible bug, and substituting it for the definition
named in `PROJECT.json` makes TLC report the property it is paired with.

### Engine

A step is one critical section of `s.mu` or one call that leaves the process,
so two goroutines interleave exactly where the code lets them.

* `cpc`, `op`, `held` are a caller inside ConnectTarget, Disconnect, SetMode or
  Shutdown; all four hold `connectMu`. `Call`/`Acquire` enter, `TeardownMark`,
  `Cancel`, `AwaitDone` are `teardownExisting`, `Install` and `Launch` the rest
  of ConnectTarget. `Exit` is `serve` returning after `Engine.Stop`.
* `pc` is the program point of `runConnect` for each connection: `Prepare` to
  `Bail` (connectFlow and promote), `ApplyProxy` to `ApplyUnsave` (applyProxy),
  `WatchCancelled` to `Reladder` (supervise, coarsely), `Finalize` to
  `CloseDone` (finalizeConn, clearConn and the deferred close).
* `osProxy` and `persisted` outlive the process. `Crash` may happen at any
  instant; `Start` and `StartForget` are the restore at launch.
* `MayFail` says which external calls may fail. A failed Set or Restore may or
  may not have written the registry, and the engine drops the store's errors.

A finished connection object is returned to its zero value and reused, so a
finite set `Conns` stands for the unboundedly many connections of a process.

### Supervise

The same loop seen from its channels. `netNotify`, `healthKick` and
`healthFail` hold at most one item; `reporting` holds the goroutines between
the epoch bump and the wake of `UpdateNetworkState`. A candidate is
`<<relay, via, epoch>>`. The supervisor's points follow the code: `watch`,
`held` (the pause), `classify`, `backoff`, the two network waits (`exempt` for
an exempt punched loss, `gate` for a transport failure), `recover`, and the
ladder `dial`, `start`, `won`. `sweptAt` is a history variable. Only desktop is
modelled: the repository's host leaves `Engine.Mobile` nil, so recovery budgets
do not exist. Times are abstracted to choices: a timer may fire at any moment
and a punched path may or may not have been stable when it is lost.

### CoreLink

* `core[p]` is a core process in `serve`: `check` (single-instance check),
  `publish` (engine start, endpoint file), `serving`, `draining` (HTTP down,
  engine stopping), `removing` (the file). `CoreDrains` is both the shutdown
  request and the heartbeat watchdog, which can fire whenever no heartbeat
  thread is free to beat for this core. `CoreExits` removes whatever file is
  there.
* `pc`, `op`, `found` are a worker thread inside EnsureRunning (`EnsureLock` to
  `StartHeartbeat`), Stop (`StopLock` to `StopClear`) or Restart (`Unstop`
  between the two). `ensureLock` and `gate` are the two mutexes; `gate` is kept
  across steps only where `StartHeartbeatLocked` joins threads under it.
* `hb`, `wt` are the heartbeat and the wait thread; `none` means not joinable.
  `flags` holds `m_stopping`, the manual-reset stop event, the auto-reset exit
  event and `m_exitedSignaled`.
* `mine` (the app's own live cores) and `asked` (who accepted a shutdown) are
  history variables. The app starts with no core, a stale file, or a core that
  an earlier app left, elevated or not.

Reaching the loopback port is reliable: a core answers exactly while it serves.
A core acts on an accepted shutdown within the six seconds Stop waits, and may
take longer to finish; Stop then kills it. Killing an elevated core may be
denied (`"kill"` in `MayFail`). The app is single-instance, so every core is
the app's own or was left by an earlier one.

### Relay network

* `Directory`: `rows` is the relay store, in memory or durable; `call[c]` is the
  request a caller (a hub session or the relay itself) has under way, from
  `Send` over the handler's steps (identity proof, cap reservation, store) to
  `Reply`, each of which may be lost. `ledger`, `spent` and the reservations are
  the cap for new relays. The ledger has room for `LedgerMax` identities, and
  `LedgerFills` has the relays elsewhere (`Others`) take it up.
* `Hub`: `pc[s]` follows `handleControl` and `tunnel.run` of a session (`hello`,
  `register`, `run`, `remove`), `beat[s]` its registration heartbeat, `inUse`
  the port allocator, `registry` the map of tunnels that `addTunnel`,
  `claimTunnel` and `removeTunnel` maintain.
* `Reach` is the probe of a port as an operator; `RelayNode` has `eng`, `run` and
  `phase` for the supervisor goroutine, `client` and `conn` for the tunnel
  client, `xray` for the child process. `effectiveConfig` is applied where the
  code applies it.

Left out: HELLO without an identity; more than one request of a caller in flight;
client streams through the hub; geolocation. The ledger keeps an identity longer
than the cap's window, as in the code, and no entry of it expires in the model;
when a stored proof becomes too old is decided when it is used. An xray child
that was killed is taken to be gone within the second that `stopProcess` still
waits for it, and the streams the tunnel client has handed on are not joined.

### Telemetry

* `Outbox`: `file` (lines, and whether the last one is torn), `lock`, and per
  host the cached queue `box[h]`. `appendLocked`, `loadLocked`, `removeSent`,
  `rewriteLocked` and `Close` are actions or parts of them, with failing and
  torn writes. `lag` remembers that the file is known to be behind.
* `TelemetryManager`: sessions, the memory queue used while the outbox is not
  available and its migration, heartbeats with their piggyback, flush batches.
* `Ingest`: validation, the file log with its buffer and limits, the Postgres
  writer with its pending queue and idempotent insert, and the restart of each.

One goroutine per host uploads at a time. The sessions of a host do not overlap;
those of different hosts do, up to `MaxActive` at a time. An event fits any
request, fills more than half of one (`Large`, so that two of them need two
requests) or fits none (`huge`). Left out: EnqueueBatch, the legacy
array format, hourly rollups, retention.

### Access

* Time (`now`) starts with the first ticket and is the clock of broker and
  sidecar; it does not go back. `luck` counts mishaps, and `Trouble` bounds them:
  lost answers, failing writes, crashes, broken paths. Refusals the code may
  always give (rate limits) are not counted.
* `claims[t]` is a ticket once issued. `journal`, `index`, `tail` and `store` are
  the replay store: what is on disk, in memory, being written, and whether the
  process is down, opening, open or failed. `grants[t]` counts how often a
  session was admitted on it (a history variable).
* `hs[h]` is a request at the sidecar (`check`, `sync`, `serve`, ..., `drain`)
  with its streams, `slots` the semaphores, `post[t]` the copies of a request the
  front may still deliver.
* `est`, `coord`, `rsp`, `inflight` are a punch at its three parties. The relay's
  end survives the loss of the hub, as it runs under the context of the tunnel
  client's `Run`; `RelayStops` ends it.
* `race` and `roster` are the list request over the broker's fronts and the
  registered relays; `lad` is the ladder (rung, path, point); `held` what the
  candidate holds; `blamed` counts relay_attempt_failed events.
* `job[j]`, `flight`, `settingsMu`, `file` are the requests of the app's pages,
  the directory cache and the core's settings file. A read of the file may fail,
  and then yields the empty settings; a write may fail and leave the file.

`SingBox` and `Ranking` have no state: they are functions of a candidate's
configuration and of what clients reported, compared in `ProbesProven`,
`OutsideTunnel` and `ReliableFirst` with what they are for. `ProbesProven` and
`ReliableFirst` are evaluations of these functions over every configuration input
and every history of the instance, at the states that use the result; the other
ranking mode, legacy, is a value of `RankingMode`, and brokers on the loopback
address, whose lists need no signature, are `Loopback`. Scores are integers, in
millionths.

Simplifications: one viewer address; a teardown of a candidate is one step, and
so is taking the several slots of a session or a stream, the ones taken being
given back where one is missing; a
failed ladder ends the connect (`Supervise` has the retries); one front per
relay; the hub is lost only while a punch is under way; the mode is fixed once
connecting; what is registered is chosen when the list is asked for; the pages
act only before a connect, and a relay's test is one step.

## 3. Runs

| Run | Instance | Shows |
|---|---|---|
| `engine_safety` | 2 connections, 2 callers, crashes, all four methods | `NoOrphan`, `SessionBelongsToConn`, `TerminalHoldsNothing`, `ProxyReturned`, `CrashRecoverable`, and the action properties `ModeFixedInSession`, `ShutdownReleases`, `DisconnectingPath` |
| `engine_faults` | 2 connections, 1 caller, Set, Restore, store and process all fail, `POST /api/proxy` | `NeverSetAtRest`: whatever fails, an engine that shows a terminal status does not turn the OS proxy to itself |
| `engine_live` | 1 connection object, 2 callers, fair | `DisconnectingEnds`, `CallersReturn` |
| `engine_intent` | violation | an accepted Disconnect may still be published as FAILED |
| `engine_snapshot_kept` | violation | the snapshot kept after a failed Restore is lost in the next connection |
| `engine_failed_set` | violation | Set without a saved snapshot after an earlier failed Set |
| `supervise` | 1 relay, 1 reporter, 2 epochs, both thresholds 2, fair | `NoLostEpoch`, `CircuitHonoured`, `EpochRetiresWSS`, `EpochIsProbed`, `CancelEnds` |
| `corelink` | 3 cores, one thread that stops, restarts and elevates, one that ensures; spawn, start-up and cores fail | `NoRival`, `OneServing`, `StopLeavesNoCore`, and the action properties `DeliberateStopSilent`, `NoSpawnBehindTeardown` |
| `corelink_heartbeat` | violation; two threads that ensure | a core adopted twice gets no heartbeats |
| `relaynet` | 1 relay, 2 hub sessions, 2 hub ports, 1 direct port, a ledger of 2, 2 mishaps, fair | `PortsAccounted`, `RegistryLive`, `ChargedOnce`, `StoppedHoldsNothing`, `FoundationNeverHub`; `RowConverges` |
| `telemetry` | 2 hosts, 3 events (large, refused for good, huge), 2 sessions, 1 at a time, caps of 2, 1 mishap, fair | `FileHoldsCache`, `Accounted`, `OneIdentity`; `Drains` |
| `access` | 2 tickets, 2 handlers, 1 punch, 3 rosters, 2 broker fronts, 2 mishaps, fair | `SlotsAccounted`, `BlamedOnce`, `OutsideTunnel`, `ProbesProven`, `ReliableFirst`, `ListsSound`; `HonouredOnce` (the refinement of `OneShot`), `HalvesKept`, `Settles` |

Bounds. Two connection objects give a switch (the old one torn down while the
new one waits) and, by reuse, any number of them. Two callers give every
overlap of two methods; a third only waits for `connectMu`. One user setting is
enough because the engine copies settings and never compares them. Connections
and callers are symmetric in the safety runs; the liveness runs use no
symmetry. In `supervise`, `MaxEpoch = 2` lets an epoch land on a session that
has already absorbed one, and thresholds of 2 distinguish the first failure,
the one before the limit and the limit; the source's values are 3 and 3. One
relay is enough for TLC because the breaker's entries are independent; the
theorems cover any set. `supervise` does not check deadlock, as the session
ends; the engine runs do. In `corelink`, three process ids allow a core left
behind, one of ours that drains and its successor; the id of a dead core nothing
refers to is reused. Deadlock is not checked there: the app ends with Stop, and
the join under `m_gate` really can block for ever (a hazard in `PROJECT.json`).
Two teardowns at once are outside the run and inside the theorems, but for
`DeliberateStopSilentProved` (section 5).

In `relaynet`, two sessions give a relay that reconnects before its old session
is known dead; the configurations are a volunteer on auto, and two foundation
postures that must not meet a hub. Two mishaps lose an answer and then the retry;
one of them may be that others fill the ledger, so that the relay is charged with
the ledger full.
In `telemetry`, caps of 2 with 3 events reach every cap, and the first two events
are too large for one request. `MaxActive = 1` keeps the run short: a host's
session begins after the other's has ended, its queue and the file of the other
host left as they were; the theorems hold for any number at a time. In `access`, two tickets
give the one retry of a ladder, a journal of one entry fills, `Skew` and `TTL` of
1 and 2 within `MaxTime = 3` let a ticket expire, be pruned and be presented
late; one slot of each kind makes every limit bind. Lists and settings are dealt
with in separate behaviours (`Mixed = FALSE`) and at most two jobs overlap: they
share no state. Deadlock is not checked in the three: a stopped relay, a drained
queue and a connect that is over are allowed to rest.

Fairness. Each goroutine's own steps are weakly fair: every call they make has
a timeout or ends with the context. `Acquire` is strongly fair, because
`sync.Mutex` hands the lock to a waiter that starved for a millisecond.
Nothing is assumed of the user, of the network, of the health timer, of Resume
or of a tunnel dying, and a crash is never required. In `relaynet` and
`telemetry` each goroutine, ticker and request handler is weakly fair, and a
connection whose other end is gone is noticed (yamux keepalive). A unit of the
cap leaves its window by the clock: some unit's expiry is strongly fair, because
the model lets a unit expire only while a request waits for it. In `access` it
is enough that not everything stops for ever while some party can go on: one weak
fairness condition on the union of their steps. The mishaps are bounded by
`Trouble`, so liveness says what happens once failures cease.

## 4. What the violations say

These four runs check a sentence of the source, or of its API contract, against
the code.

1. `IntentNeverFails` (`engine.go:1471`: user intent is "never reported as a
   failure"). `finalizeConn` samples `conn.disconnecting`, releases `s.mu` and
   publishes under a second acquisition. A Disconnect accepted in between
   publishes nothing, and the flow publishes FAILED.
2. `RecoverySnapshotKept` (`engine.go:1447`: "keeping the recovery snapshot for
   the next retry"). The next connection's `cleanupConn` treats "never set" as
   "restored" and clears the file, or its `applyProxy` captures the core's own
   setting and overwrites it.
3. `CrashAfterFailedSet` (`engine.go:1432`: "proxySet=true always implies a
   persisted snapshot"). After a failed Set was undone, the next promote of the
   same connection calls Set first and saves afterwards.
4. `HeartbeatKept` (`API-CONTRACT.md:161`: "UI sends every 5 s while running").
   An adopted core has no process handle, so each EnsureRunning adopts it again.
   `StartHeartbeatLocked` then ends the running heartbeat thread by setting
   `m_stopEvent`, which only the spawn path resets, and the new thread exits at
   once.

## 5. What is proved

TLAPS checks the theorems below for every value of the constants that satisfies
the named assumptions of the modules; TLC evaluates the same assumptions on every
run.

| Assumption | Says |
|---|---|
| `ConstantsAssumption` (`Engine`) | proxy settings and identifiers are distinct, `Ops` and `MayFail` name known operations |
| `SuperviseAssumption` | positive thresholds, `None` is no relay |
| `LinkAssumption` (`CoreLink`) | known method and failure names, `None` is no core and no thread |
| `DirectoryAssumption`, `HubAssumption`, `NodeAssumption` | finitely many callers and sources; the hub's sessions and the relay are callers, their ports endpoints of the directory, none of them both hub's and relay's |
| `OutboxAssumption`, `KindsAssumption`, `IngestAssumption` | caps and limits are numbers, a compaction is not due below the cap, a batch has room for a heartbeat and an event |
| `EnvAssumption`, `ReplayAssumption`, `SidecarAssumption`, `PunchAssumption`, `PanelAssumption` | finitely many handlers and punches, limits are numbers, a page's saves are not its loads, the modes are proxy and TUN |
| `TicketAssumption` | times to live and skew are numbers |
| `OrdersAssumption` (`Ladder`) | filtering, ranking and demoting the relays of a page repeat none of them and lose none |

The last one is about pure functions on sequences. For every input it would take
an induction over the sequence, which the prover cannot do; TLC evaluates it for
every roster, page, measurement and demoted relay of the instance.

*Engine.* `Inductive` proves `TypeOK /\ EngineInv`, and from it follow
`TypeCorrect`, `NoOrphanProved`, `SessionProved`, `TerminalProved`,
`ProxyReturnedProved`, `NeverSetProved`, `CrashRecoverableProved`,
`ModeFixedProved`, `ShutdownProved` and `DisconnectingProved`. None of the properties is inductive
by itself; the invariant adds:

* `LockInv`: a caller is inside a method exactly if it owns `connectMu`, and
  `s.conn` is exactly the connection that runs. This is what makes a method
  about to install find `s.conn` empty, and gives `NoOrphan`.
* `RefInv`: what a caller or a session dereferences is not nil.
* `TunnelInv`: whoever reaches `finalizeConn` with a tunnel has it in
  `conn.active`, so the cleanup finds it.
* `StatusInv`: the published status against the program point.
* `OwedInv` and `SnapshotInv`: where a session may still owe the OS proxy, and
  where the store must hold the user's setting. `SnapshotInv` is conditional on
  `MayFail`: the engine promises the proxy back either when only crashes happen
  or when only Set and store calls fail in a process that is not shut down. The
  second half of that promise is established by `ProxyReturnedProved` alone;
  no run instantiates it.

*Supervise.* `SuperviseInductive` proves `SuperviseInv`, and from it follow
`SuperviseTypeCorrect`, `NoLostEpochProved`, `CircuitHonouredProved` and
`CircuitStaysOpenProved`. `WakeInv` says a candidate under construction already
owes a reaction to every epoch after the one it captured, a debt promotion
hands to the supervisor. `BreakerInv` says that a closed circuit's streak is
below the threshold and that a punched candidate's circuit is closed, which is
why the line of `onDirectPathLost` that closes a circuit never does.
`MaxEpoch` is arbitrary in the proofs, so the bound of the run does not matter
to them.

*CoreLink.* `LinkInductive` proves `LinkInv`, and from it follow
`LinkTypeCorrect`, `NoRivalProved`, `StopLeavesNoCoreProved` and
`NoSpawnBehindTeardownProved`, for any number of threads calling any of the four
methods at once. `LockInv` says that one thread at a time is inside a method.
`MineInv` says that a thread about to spawn, or past Stop's wait, has none of
the app's cores left; without it a spawn could overwrite the handle of a live
core. `StopInv` says that no thread is about to spawn under `m_stopping`, and
that what Stop reaped stays away while it is set. An elevated core that could
not be killed is the exception in each of them.

`OneServingProved` adds `ServeInv`: a core that starts is the app's own, and one
that serves without being so is named by the endpoint file, so that no core of
the app got past its single-instance check. Two of the app's own are excluded by
`NoRival`; the property is stated for a system in which no kill is denied.

`WatchInductive` proves what the two watching threads know, for any overlap of
the methods: a thread that goes to report an exit saw a core that no longer
serves, or is inside a join that replaces what it watched (`NoticeInv`); the wait
thread's handle is `m_process` or that of a dead process (`HandleInv`); no core
that ever served starts again under its name (`NamedInv`).
`DeliberateStopSilentProved` rests on it and on `SilentInv`, and has the
hypothesis `OneStopper`: at most one thread may stop or restart. The hypothesis
is needed. Restart clears `m_stopping` after its Stop has released
`m_ensureLock`; with two restarting threads that store can fall into the other's
Stop, and TLC then finds the exit of the core it asked to exit being reported.

*Relay network.* `RelayInvariant` proves `RelayInv`, and from it follow
`PortsStayAccounted`, `RegistryStaysLive`, `IdentitiesChargedOnce`,
`StopHoldsNothing` and `FoundationStaysDirect`, for any number of sessions,
ports, sources and mishaps. `HubInv` says that a tunnel keeps its port and its
place in the registry as long as its goroutines run, under the identity of its
HELLO; `NodeInv` that the tunnel client and xray belong to a session of the
supervisor, and that a foundation posture has no tunnel session. `CallInv` says
that a unit of the cap is held only while the store is asked, and that nobody
sends a request while an earlier one may hold a unit; with it `CapInv` shows that
the units that requests hold are reserved ones, which makes a release safe, and
that a unit which is kept stands for an identity of the ledger, as long as the
ledger has had room for it.

*Telemetry.* `TelemetryInvariant` proves `TelemetryInv`, and from it follow
`FileFollowsQueue` (`FileHoldsCache`), `NoEventMissing` (`Accounted`) and
`RequestsSpeakForOne` (`OneIdentity`), for any number of hosts, sessions and
events and any caps. `OwnerInv` says that whoever uses the file has its lock, so
that a rewrite never meets another host's append. `StaleInv` is what makes
`Accounted` inductive: a line of the file that its owner no longer queues is of
an event that has reached the broker or was given up, so a rewrite, a torn append
or a crash may take it away. `MemoryInv` says that what waits in memory is of the
session that is on, which is what a heartbeat's request relies on. `CountInv`
says that Postgres counts no number twice, recorded or not, because late copies
of a request may arrive after the event is settled. The queue's selections
(`Selected`: the events left after a removal, the lines that decode) are defined
by the order of positions, not by recursion: that makes their elements provable,
from the library's facts about finite sets.

*Access.* `AccessInvariant` proves `AccessInv`, and from it follow
`SlotsStayAccounted`, `ListsStaySound`, `SocketsStayOutside` and
`HalvesStayKept`. `TicketInv` says that a ticket that was honoured and can still
be presented is in the journal, and in the index while the store is up, across
pruning, compaction, failed writes and restarts; with it every step of `Access`
is a step of `OneShot` or leaves it alone, which is the refinement
`TicketsHonouredOnce`. `SlotInv` and `PunchInv` tie the counters to the handlers,
streams and directives that hold a unit. `PanelInv` says whose list and whose
half of the settings file a job has in hand, and under which lock: the file as it
is, or nothing if it could not be read. `TunnelInv`
says that a front is tried in the course of a ladder only, and never with a
tunnel device.

`RelaysBlamedOnce` has an invariant of its own, `BlameInv`: a relay's own path
comes before its fronts, a WSS session exists only on a front's path, a race for
a page runs only while no rung is tried, and no relay stands on two rungs. So
each way to leave a rung finds its relay without a record or with one, as the
path says. It is where `OrdersAssumption` is used.

Only model-checked:

* the liveness properties (`DisconnectingEnds`, `CallersReturn`,
  `EpochRetiresWSS`, `EpochIsProbed`, `CancelEnds`, `RowConverges`, `Drains`,
  `Settles`): fairness is beyond the prover;
* `ProbesProven` and `ReliableFirst`: both compare what a function computes over
  rule lists, or over a sorted page, with what it is for, and would need
  induction over that data;
* the four violations.

## 6. Where the source says more than is shown

Some comments of the source promise more than the code keeps, or more than a
property here states. No run is spent on these; the models contain the behaviour.

* `engine.go:591`: a connect "can't slip a new connection in behind the teardown".
  A Connect that already waits for `connectMu` is installed after `Stop` has
  returned, and the process then exits under it. `ShutdownReleases` speaks of the
  moment of the return, and `ProxyReturned` counts what follows as a crash;
  `CrashRecoverable` shows that the next launch finds the user's setting.
* `directory.go:19`: "one per MinDirectoryRefreshInterval". The cache has a single
  entry. A list of another broker displaces it, and a fetch that failed leaves
  nothing, so a broker may be asked again within the interval. `ListsSound` says
  that a request is made only for what the entry cannot serve.
* `server.go:264`: "one identity can never drain more than one unit". With a full
  ledger `rememberIfNew` cannot record the identity and reports it as new each
  time, which its own comment wants. `ChargedOnce` is about a ledger with room.
* `api.go:373`: `settingsMu` keeps a mode write from dropping the DNS half.
  A failed read of the settings file does drop it: `loadSettings` returns the
  empty settings, and the save writes them. `HalvesKept` names that case.
* `bridge.go:25`: a failed punch "never leaks the socket". A relay whose own
  attempt succeeded and whose peer gave up waits in `ln.Accept` until the relay
  stops. `Settles` leaves that state out.
* `outbox.go:269`: "the next flush sends the head batch alone". While a session
  only sends heartbeats, an event of it that the broker refuses for good holds the
  queue up. `Drains` excludes that queue.

## 7. Not modelled, and limits

* The recent-node list and the event hub (`core/sse.go`), which feeds the
  display.
* The mobile recovery budgets and mobile runs.
* In `Engine` the supervise loop is coarse, and in `Supervise` the proxy and
  the status are absent. The two share the disconnect intent and the loop's
  order, and no refinement between them is claimed.
* `CoreManager`'s destructor, and a heartbeat that times out on a core that
  still serves.
* Cores started by hand next to the app, or by the same user in a second
  Windows session.
* What a Stop owes that overlaps a Restart of another thread: Restart clears
  `m_stopping` outside the locks, so the exit of the core that the Stop asked to
  exit may be reported (section 5).
* Uptime, backoff and jitter values.
* The composition of the six models. Each meets the others at an interface one of
  them leaves open: `Supervise` and `Engine` take a ladder's outcome as a choice,
  `Access` shows what a ladder does; `Access` takes the registered relays as
  given, `RelayNet` shows how they get registered.

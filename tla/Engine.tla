------------------------------- MODULE Engine -------------------------------
(***************************************************************************)
(* The connection engine of libs/connectcore: the goroutine behind each    *)
(* *connection (runConnect, connectFlow, promote, supervise, finalizeConn) *)
(* interleaved with the public methods the core's HTTP handlers call       *)
(* (ConnectTarget, Disconnect, SetMode, Shutdown), with the Windows proxy  *)
(* setting the session borrows, and with the death and relaunch of the     *)
(* process.                                                                *)
(*                                                                         *)
(* A step is a critical section of s.mu, or one call that reaches outside  *)
(* the process (a registry write, a store write, a tunnel start or stop).  *)
(* The health monitor and the transports are the business of module        *)
(* Supervise: here a rung only succeeds or fails, and a session trips.     *)
(***************************************************************************)
CONSTANTS Conns,        \* *connection objects; a finished one is reused
          Callers,      \* goroutines inside a public engine method
          UserProxies,  \* settings of the OS proxy that are not ours
          Cleared,      \* the setting Controller.Clear leaves: proxy off
          Ours,         \* the OS proxy pointed at 127.0.0.1:<port>
          Ops,          \* the requests the host makes of the engine
          MayFail,      \* what can fail: OS and store calls, the process
          None          \* nil

Methods == {"connect", "disconnect", "setmode", "shutdown"}
Faults  == {"set", "restore", "store", "crash"}

ASSUME ConstantsAssumption ==
    /\ Ops \subseteq Methods \cup {"clearproxy"}
    /\ MayFail \subseteq Faults
    /\ Cleared \in UserProxies
    /\ Ours \notin UserProxies
    /\ None \notin Conns \cup Callers \cup UserProxies \cup {Ours}

VARIABLES
    life,           \* the core process: down, forgetting (in Start), up
    connectMu,      \* the caller holding connectMu, or None
    conn,           \* s.conn
    session,        \* the connection whose telemetry id is s.sessionID
    mode,           \* s.mode
    status,         \* s.core.status
    cpc, op, held,  \* per caller: program point, method, its local conn
    pc,             \* per connection: program point of runConnect
    disconnecting, cancelled, finalized,  \* connections with the flag set
    active, tunnel, recovering,           \* ... with conn.active, with a live
                                          \* tunnel, in a recovery pass
    outcome,        \* per connection: how connectFlow returned
    proxySet, snapshotTaken,              \* ... with the flag set
    snap,           \* per connection: the captured OS proxy setting
    osProxy,        \* the Windows Internet Settings value
    persisted       \* clientstate's proxy snapshot file, None when absent

callerVars == <<cpc, op, held>>
flagVars   == <<disconnecting, cancelled, finalized>>
runVars    == <<active, tunnel, recovering>>
proxyVars  == <<proxySet, snapshotTaken, snap>>
osVars     == <<osProxy, persisted>>
vars == <<life, connectMu, conn, session, mode, status, callerVars, pc,
          flagVars, runVars, outcome, proxyVars, osVars>>

Settings == UserProxies \cup {Ours}
Modes    == {"proxy", "tun"}
Statuses == {"disconnected", "preparing", "connecting", "connected",
             "disconnecting", "failed"}

\* Program points of runConnect before finalizeConn, and inside it.
FlowPoints  == {"prepare", "begin", "fetch", "ladder", "probing", "won",
                "bail", "apply", "save", "set", "persist", "undo", "unsave",
                "watch", "tripped", "announce", "drop", "inactive", "release",
                "refetch"}
FinalPoints == {"finalize", "detach", "reap", "restore", "forget", "sample",
                "stopped", "broken", "flush", "clear"}
Points      == {"dead", "new", "exit"} \cup FlowPoints \cup FinalPoints
CallerPoints == {"idle", "lock", "locked", "mark", "cancel", "wait",
                 "install", "launch", "exit"}

\* A connection that still owns resources or may still publish: from its
\* installation in s.conn to clearConn.
Running(c) == pc[c] \in {"new"} \cup FlowPoints \cup FinalPoints

Goto(c, l)  == pc' = [pc EXCEPT ![c] = l]
CGoto(k, l) == cpc' = [cpc EXCEPT ![k] = l]

-----------------------------------------------------------------------------
(* The process: launch, crash recovery and death. *)

\* Engine state of a process that has just been created by connectcore.New.
FreshEngine ==
    /\ connectMu = None /\ conn = None /\ session = None
    /\ status = "disconnected"
    /\ cpc = [k \in Callers |-> "idle"]
    /\ op = [k \in Callers |-> "none"]
    /\ held = [k \in Callers |-> None]
    /\ pc = [c \in Conns |-> "dead"]
    /\ disconnecting = {}
    /\ cancelled = {}
    /\ finalized = {}
    /\ active = {}
    /\ tunnel = {}
    /\ recovering = {}
    /\ outcome = [c \in Conns |-> "clean"]
    /\ proxySet = {}
    /\ snapshotTaken = {}
    /\ snap = [c \in Conns |-> None]

Init ==
    /\ FreshEngine
    /\ life = "down"
    /\ mode = "proxy"
    /\ osProxy \in UserProxies
    /\ persisted = None

\* The process is gone: killed, or returned from serve. Its goroutines, its
\* child and its memory vanish; the registry and the store stay.
Die ==
    /\ life' = "down"
    /\ connectMu' = None /\ conn' = None /\ session' = None
    /\ status' = "disconnected"
    /\ cpc' = [k \in Callers |-> "idle"]
    /\ op' = [k \in Callers |-> "none"]
    /\ held' = [k \in Callers |-> None]
    /\ pc' = [c \in Conns |-> "dead"]
    /\ disconnecting' = {}
    /\ cancelled' = {}
    /\ finalized' = {}
    /\ active' = {}
    /\ tunnel' = {}
    /\ recovering' = {}
    /\ outcome' = [c \in Conns |-> "clean"]
    /\ proxySet' = {}
    /\ snapshotTaken' = {}
    /\ snap' = [c \in Conns |-> None]
    /\ UNCHANGED <<mode, osVars>>

Crash == "crash" \in MayFail /\ life # "down" /\ Die

\* proxymode's Windows controller. Set and Restore write the registry and then
\* notify WinINet, so a failed call may or may not have changed the setting.
SetOK           == osProxy' = Ours /\ UNCHANGED persisted
SetFails        == /\ "set" \in MayFail /\ osProxy' \in {osProxy, Ours}
                   /\ UNCHANGED persisted
RestoreOK(s)    == osProxy' = s /\ UNCHANGED persisted
RestoreFails(s) == /\ "restore" \in MayFail /\ osProxy' \in {osProxy, s}
                   /\ UNCHANGED persisted

\* clientstate's snapshot file. The engine drops the error of either call.
SaveProxySnapshot(s) ==
    /\ persisted' \in {s} \cup (IF "store" \in MayFail THEN {persisted} ELSE {})
    /\ UNCHANGED osProxy
ClearProxySnapshot ==
    /\ persisted' \in {None} \cup (IF "store" \in MayFail THEN {persisted} ELSE {})
    /\ UNCHANGED osProxy

\* Mutant of Start: a leftover snapshot is not restored.
StartNoRestore ==
    /\ life = "down" /\ life' = "up"
    /\ mode' \in Modes
    /\ UNCHANGED <<connectMu, conn, session, status, callerVars, pc, flagVars,
                   runVars, outcome, proxyVars, osVars>>

\* serve up to Engine.Start: restoreMode, then a leftover snapshot is restored.
Start ==
    /\ life = "down"
    /\ mode' \in Modes
    /\ \/ persisted = None /\ life' = "up" /\ UNCHANGED osVars
       \/ persisted # None /\ life' = "forgetting" /\ RestoreOK(persisted)
       \/ persisted # None /\ life' = "up" /\ RestoreFails(persisted)
    /\ UNCHANGED <<connectMu, conn, session, status, callerVars, pc, flagVars,
                   runVars, outcome, proxyVars>>

\* Start drops the snapshot it has just restored.
StartForget ==
    /\ life = "forgetting" /\ life' = "up"
    /\ ClearProxySnapshot
    /\ UNCHANGED <<connectMu, conn, session, mode, status, callerVars, pc,
                   flagVars, runVars, outcome, proxyVars>>

\* POST /api/proxy {clear}: the core disables the OS proxy behind the engine.
HandleProxyClear ==
    /\ "clearproxy" \in Ops /\ life = "up"
    /\ osProxy' = Cleared
    /\ UNCHANGED <<life, connectMu, conn, session, mode, status, callerVars,
                   pc, flagVars, runVars, outcome, proxyVars, persisted>>
-----------------------------------------------------------------------------
(* Public methods. All four run under connectMu.                           *)

\* serve stops accepting requests before it calls Engine.Stop.
Call(k, o) ==
    /\ life = "up" /\ cpc[k] = "idle"
    /\ \A j \in Callers : cpc[j] # "idle" => op[j] # "shutdown"
    /\ CGoto(k, "lock") /\ op' = [op EXCEPT ![k] = o]
    /\ UNCHANGED <<life, connectMu, conn, session, mode, status, held, pc,
                   flagVars, runVars, outcome, proxyVars, osVars>>

Acquire(k) ==
    /\ cpc[k] = "lock" /\ connectMu = None
    /\ connectMu' = k
    /\ CGoto(k, IF op[k] = "connect" THEN "mark" ELSE "locked")
    /\ UNCHANGED <<life, conn, session, mode, status, op, held, pc, flagVars,
                   runVars, outcome, proxyVars, osVars>>

\* The deferred connectMu.Unlock and the method's return.
Return(k) ==
    /\ connectMu' = None
    /\ held' = [held EXCEPT ![k] = None]
    /\ IF op[k] = "shutdown" THEN CGoto(k, "exit") /\ UNCHANGED op
       ELSE CGoto(k, "idle") /\ op' = [op EXCEPT ![k] = "none"]

\* The method goes on, still holding connectMu.
Stay(k, l) == CGoto(k, l) /\ UNCHANGED <<connectMu, op>>

\* Mutant of SetMode: the s.conn check is dropped.
SetModeAnytime(k, m) ==
    /\ cpc[k] = "locked" /\ op[k] = "setmode"
    /\ mode' = m
    /\ Return(k)
    /\ UNCHANGED <<life, conn, session, status, pc, flagVars, runVars,
                   outcome, proxyVars, osVars>>

\* SetMode refuses while s.conn is set.
SetMode(k, m) ==
    /\ cpc[k] = "locked" /\ op[k] = "setmode"
    /\ mode' = IF conn = None THEN m ELSE mode
    /\ Return(k)
    /\ UNCHANGED <<life, conn, session, status, pc, flagVars, runVars,
                   outcome, proxyVars, osVars>>

\* Disconnect under s.mu: mark the intent, publish DISCONNECTING unless the
\* flow already claimed the terminal status.
Disconnect(k) ==
    /\ cpc[k] = "locked" /\ op[k] = "disconnect"
    /\ IF conn = None
       THEN Return(k) /\ UNCHANGED <<disconnecting, status>>
       ELSE /\ disconnecting' = disconnecting \cup {conn}
            /\ status' = IF conn \in finalized THEN status ELSE "disconnecting"
            /\ held' = [held EXCEPT ![k] = conn]
            /\ Stay(k, "cancel")
    /\ UNCHANGED <<life, conn, session, mode, pc, cancelled, finalized,
                   runVars, outcome, proxyVars, osVars>>

\* Shutdown under s.mu: nothing to stop, or hand over to teardownExisting.
Shutdown(k) ==
    /\ cpc[k] = "locked" /\ op[k] = "shutdown"
    /\ IF conn = None THEN Return(k)
       ELSE Stay(k, "mark") /\ UNCHANGED held
    /\ UNCHANGED <<life, conn, session, mode, status, pc, flagVars,
                   runVars, outcome, proxyVars, osVars>>

\* teardownExisting under s.mu.
TeardownMark(k) ==
    /\ cpc[k] = "mark"
    /\ IF conn # None
       THEN /\ disconnecting' = disconnecting \cup {conn}
            /\ held' = [held EXCEPT ![k] = conn]
            /\ Stay(k, "cancel")
       ELSE /\ IF op[k] = "connect"
               THEN Stay(k, "install") /\ UNCHANGED held
               ELSE Return(k)
            /\ UNCHANGED disconnecting
    /\ UNCHANGED <<life, conn, session, mode, status, pc, cancelled,
                   finalized, runVars, outcome, proxyVars, osVars>>

\* Mutants of Cancel: the context is not cancelled; Shutdown does not wait.
CancelForgotten(k) ==
    /\ cpc[k] = "cancel"
    /\ IF op[k] = "disconnect" THEN Return(k)
       ELSE Stay(k, "wait") /\ UNCHANGED held
    /\ UNCHANGED <<life, conn, session, mode, status, pc, flagVars, runVars,
                   outcome, proxyVars, osVars>>
CancelNoWait(k) ==
    /\ cpc[k] = "cancel"
    /\ cancelled' = cancelled \cup {held[k]}
    /\ IF op[k] # "connect" THEN Return(k)
       ELSE Stay(k, "wait") /\ UNCHANGED held
    /\ UNCHANGED <<life, conn, session, mode, status, pc, disconnecting,
                   finalized, runVars, outcome, proxyVars, osVars>>

\* conn.cancel(); Disconnect returns here, the others wait for conn.done.
Cancel(k) ==
    /\ cpc[k] = "cancel"
    /\ cancelled' = cancelled \cup {held[k]}
    /\ IF op[k] = "disconnect" THEN Return(k)
       ELSE Stay(k, "wait") /\ UNCHANGED held
    /\ UNCHANGED <<life, conn, session, mode, status, pc, disconnecting,
                   finalized, runVars, outcome, proxyVars, osVars>>

\* Mutant of AwaitDone: the method goes on while the old connection still runs.
AwaitDoneEarly(k) ==
    /\ cpc[k] = "wait"
    /\ IF op[k] = "connect"
       THEN Stay(k, "install") /\ held' = [held EXCEPT ![k] = None]
       ELSE Return(k)
    /\ UNCHANGED <<life, conn, session, mode, status, pc, flagVars,
                   runVars, outcome, proxyVars, osVars>>

\* <-conn.done
AwaitDone(k) ==
    /\ cpc[k] = "wait" /\ pc[held[k]] = "dead"
    /\ IF op[k] = "connect"
       THEN Stay(k, "install") /\ held' = [held EXCEPT ![k] = None]
       ELSE Return(k)
    /\ UNCHANGED <<life, conn, session, mode, status, pc, flagVars,
                   runVars, outcome, proxyVars, osVars>>

\* ConnectTarget allocates the connection and installs it as s.conn.
Install(k, c) ==
    /\ cpc[k] = "install"
    /\ pc[c] = "dead"
    /\ conn' = c /\ Goto(c, "new")
    /\ held' = [held EXCEPT ![k] = c] /\ Stay(k, "launch")
    /\ cancelled' = cancelled \ {c}
    /\ UNCHANGED <<life, session, mode, status, disconnecting, finalized,
                   runVars, outcome, proxyVars, osVars>>

\* ConnectTarget publishes PREPARING, starts runConnect and returns.
Launch(k) ==
    /\ cpc[k] = "launch"
    /\ status' = "preparing" /\ Goto(held[k], "prepare")
    /\ Return(k)
    /\ UNCHANGED <<life, conn, session, mode, flagVars, runVars, outcome,
                   proxyVars, osVars>>

\* serve returns after Engine.Stop, whatever other handlers still do.
Exit(k) == cpc[k] = "exit" /\ Die
-----------------------------------------------------------------------------
(* runConnect: connectFlow, the ladder and promote.                        *)

\* connectFlow returned: finalizeConn is next.
End(c, o) == Goto(c, "finalize") /\ outcome' = [outcome EXCEPT ![c] = o]

\* prepare, then CONNECTING. Only TUN mode can be refused.
Prepare(c) ==
    /\ pc[c] = "prepare"
    /\ \/ Goto(c, "begin") /\ status' = "connecting" /\ UNCHANGED outcome
       \/ mode = "tun" /\ End(c, "error") /\ UNCHANGED status
    /\ UNCHANGED <<life, connectMu, conn, session, mode, callerVars, flagVars,
                   runVars, proxyVars, osVars>>

\* BeginSession; its failure leaves the session id empty.
BeginSession(c) ==
    /\ pc[c] = "begin" /\ Goto(c, "fetch")
    /\ session' \in {session, c}
    /\ UNCHANGED <<life, connectMu, conn, mode, status, callerVars, flagVars,
                   runVars, outcome, proxyVars, osVars>>

\* Port checks, broker fetch, target filter and ranking.
FetchCandidates(c) ==
    /\ pc[c] = "fetch"
    /\ \/ c \notin cancelled /\ Goto(c, "ladder") /\ UNCHANGED outcome
       \/ c \in cancelled /\ End(c, "clean")
       \/ End(c, "error")
    /\ UNCHANGED <<life, connectMu, conn, session, mode, status, callerVars,
                   flagVars, runVars, proxyVars, osVars>>

\* A rung of runLadder starts a tunnel; a cancelled context never yields one.
StartCandidate(c) ==
    /\ pc[c] = "ladder" /\ c \notin cancelled /\ Goto(c, "probing")
    /\ tunnel' = tunnel \cup {c}
    /\ UNCHANGED <<life, connectMu, conn, session, mode, status, callerVars,
                   flagVars, active, recovering, outcome, proxyVars, osVars>>

\* probeCandidate proves the tunnel, or the rung is torn down.
ProbeCandidate(c) ==
    /\ pc[c] = "probing"
    /\ \/ Goto(c, "won") /\ UNCHANGED tunnel
       \/ Goto(c, "ladder") /\ tunnel' = tunnel \ {c}
    /\ UNCHANGED <<life, connectMu, conn, session, mode, status, callerVars,
                   flagVars, active, recovering, outcome, proxyVars, osVars>>

\* runLadder returns without a winner. A recovery pass may be retried when
\* the network itself went down.
LadderEnds(c) ==
    /\ pc[c] = "ladder"
    /\ \/ c \in cancelled /\ End(c, "clean")
       \/ c \notin cancelled /\ End(c, "error")
       \/ c \notin cancelled /\ c \in recovering /\ Goto(c, "refetch")
                                        /\ UNCHANGED outcome
    /\ UNCHANGED <<life, connectMu, conn, session, mode, status, callerVars,
                   flagVars, runVars, proxyVars, osVars>>

\* Mutant of Promote: the disconnect guard is dropped.
PromoteUnguarded(c) ==
    /\ pc[c] = "won" /\ Goto(c, "apply")
    /\ active' = active \cup {c} /\ status' = "connected"
    /\ UNCHANGED <<life, connectMu, conn, session, mode, callerVars, flagVars,
                   tunnel, recovering, outcome, proxyVars, osVars>>

\* promote under s.mu: the disconnect guard and the CONNECTED publish.
Promote(c) ==
    /\ pc[c] = "won"
    /\ IF c \in disconnecting \/ c \in cancelled
       THEN Goto(c, "bail") /\ UNCHANGED <<active, status>>
       ELSE /\ active' = active \cup {c}
            /\ status' = "connected" /\ Goto(c, "apply")
    /\ UNCHANGED <<life, connectMu, conn, session, mode, callerVars, flagVars,
                   tunnel, recovering, outcome, proxyVars, osVars>>

\* promote's refused winner is torn down.
Bail(c) ==
    /\ pc[c] = "bail" /\ End(c, "clean")
    /\ tunnel' = tunnel \ {c}
    /\ UNCHANGED <<life, connectMu, conn, session, mode, status, callerVars,
                   flagVars, active, recovering, proxyVars, osVars>>

-----------------------------------------------------------------------------
(* applyProxy, one external call per step.                                 *)

\* Mutant: the captured setting is not saved before Set.
ApplyProxyUnsaved(c) ==
    /\ pc[c] = "apply" /\ mode = "proxy" /\ Goto(c, "set")
    /\ snap' = [snap EXCEPT ![c] = osProxy]
    /\ snapshotTaken' = snapshotTaken \cup {c}
    /\ UNCHANGED <<life, connectMu, conn, session, mode, status, callerVars,
                   flagVars, runVars, outcome, proxySet, osVars>>

\* The TUN return, the once-per-connection Snapshot and its failure.
ApplyProxy(c) ==
    /\ pc[c] = "apply"
    /\ \/ mode = "tun" /\ Goto(c, "watch") /\ UNCHANGED <<snap, snapshotTaken>>
       \/ /\ mode = "proxy" /\ c \in snapshotTaken /\ Goto(c, "set")
          /\ UNCHANGED <<snap, snapshotTaken>>
       \/ /\ mode = "proxy" /\ c \notin snapshotTaken /\ Goto(c, "watch")
          /\ UNCHANGED <<snap, snapshotTaken>>
       \/ /\ mode = "proxy" /\ c \notin snapshotTaken /\ Goto(c, "save")
          /\ snap' = [snap EXCEPT ![c] = osProxy]
          /\ snapshotTaken' = snapshotTaken \cup {c}
    /\ UNCHANGED <<life, connectMu, conn, session, mode, status, callerVars,
                   flagVars, runVars, outcome, proxySet, osVars>>

\* SaveProxySnapshot, before Set and again after it succeeded.
ApplySave(c) ==
    /\ \/ pc[c] = "save" /\ Goto(c, "set")
       \/ pc[c] = "persist" /\ Goto(c, "watch")
    /\ SaveProxySnapshot(snap[c])
    /\ UNCHANGED <<life, connectMu, conn, session, mode, status, callerVars,
                   flagVars, runVars, outcome, proxyVars>>

\* proxySet is raised before Set.
ApplySet(c) ==
    /\ pc[c] = "set"
    /\ proxySet' = proxySet \cup {c}
    /\ \/ SetOK /\ Goto(c, "persist")
       \/ SetFails /\ Goto(c, "undo")
    /\ UNCHANGED <<life, connectMu, conn, session, mode, status, callerVars,
                   flagVars, runVars, outcome, snapshotTaken, snap>>

\* Restore after a failed Set.
ApplyUndo(c) ==
    /\ pc[c] = "undo"
    /\ \/ /\ RestoreOK(snap[c]) /\ Goto(c, "unsave")
          /\ proxySet' = proxySet \ {c}
       \/ RestoreFails(snap[c]) /\ Goto(c, "watch") /\ UNCHANGED proxySet
    /\ UNCHANGED <<life, connectMu, conn, session, mode, status, callerVars,
                   flagVars, runVars, outcome, snapshotTaken, snap>>

\* The undone Set's snapshot file is removed; snapshotTaken stays.
ApplyUnsave(c) ==
    /\ pc[c] = "unsave" /\ Goto(c, "watch")
    /\ ClearProxySnapshot
    /\ UNCHANGED <<life, connectMu, conn, session, mode, status, callerVars,
                   flagVars, runVars, outcome, proxyVars>>

-----------------------------------------------------------------------------
(* supervise.                                                              *)

\* <-ctx.Done()
WatchCancelled(c) ==
    /\ pc[c] = "watch" /\ c \in cancelled /\ End(c, "clean")
    /\ UNCHANGED <<life, connectMu, conn, session, mode, status, callerVars,
                   flagVars, runVars, proxyVars, osVars>>

\* The tunnel died, its transport stopped, or a health sweep gave up. A local
\* fault ends the session, everything else starts a recovery.
Trigger(c) ==
    /\ pc[c] = "watch"
    /\ \/ (c \in disconnecting \/ c \in cancelled) /\ End(c, "clean")
       \/ c \notin disconnecting /\ c \notin cancelled /\ End(c, "error")
       \/ c \notin disconnecting /\ c \notin cancelled /\ Goto(c, "tripped")
                                         /\ UNCHANGED outcome
    /\ UNCHANGED <<life, connectMu, conn, session, mode, status, callerVars,
                   flagVars, runVars, proxyVars, osVars>>

\* awaitResumed, then the second look at the user's intent.
Tripped(c) ==
    /\ pc[c] = "tripped"
    /\ IF c \in disconnecting THEN End(c, "clean")
       ELSE Goto(c, "announce") /\ UNCHANGED outcome
    /\ UNCHANGED <<life, connectMu, conn, session, mode, status, callerVars,
                   flagVars, runVars, proxyVars, osVars>>

\* CONNECTING for the recovery, written whatever happened since Tripped.
Announce(c) ==
    /\ pc[c] = "announce" /\ Goto(c, "drop") /\ status' = "connecting"
    /\ UNCHANGED <<life, connectMu, conn, session, mode, callerVars, flagVars,
                   runVars, outcome, proxyVars, osVars>>

\* cur.teardown()
Drop(c) ==
    /\ pc[c] = "drop" /\ Goto(c, "inactive")
    /\ tunnel' = tunnel \ {c}
    /\ UNCHANGED <<life, connectMu, conn, session, mode, status, callerVars,
                   flagVars, active, recovering, outcome, proxyVars, osVars>>

\* conn.active = nil
Deactivate(c) ==
    /\ pc[c] = "inactive" /\ Goto(c, "release")
    /\ active' = active \ {c}
    /\ UNCHANGED <<life, connectMu, conn, session, mode, status, callerVars,
                   flagVars, tunnel, recovering, outcome, proxyVars, osVars>>

\* releaseProxy: put the captured setting back if it is ours to put back.
ReleaseProxy(c, done, failed) ==
    \/ /\ c \in proxySet /\ RestoreOK(snap[c]) /\ Goto(c, done)
       /\ proxySet' = proxySet \ {c}
    \/ c \in proxySet /\ RestoreFails(snap[c]) /\ Goto(c, failed)
                   /\ UNCHANGED proxySet
    \/ c \notin proxySet /\ Goto(c, done) /\ UNCHANGED <<proxySet, osVars>>

Release(c) ==
    /\ pc[c] = "release"
    /\ ReleaseProxy(c, "refetch", "refetch")
    /\ recovering' = recovering \cup {c}
    /\ UNCHANGED <<life, connectMu, conn, session, mode, status, callerVars,
                   flagVars, active, tunnel, outcome, snapshotTaken, snap>>

\* Backoffs and network waits, then reladder's fetch, filter, rank and demote.
Reladder(c) ==
    /\ pc[c] = "refetch"
    /\ \/ c \in cancelled /\ End(c, "clean")
       \/ c \notin cancelled /\ End(c, "error")
       \/ Goto(c, "ladder") /\ UNCHANGED outcome
    /\ UNCHANGED <<life, connectMu, conn, session, mode, status, callerVars,
                   flagVars, runVars, proxyVars, osVars>>
-----------------------------------------------------------------------------
(* finalizeConn, the single exit path.                                     *)

\* Claim the terminal status.
Finalize(c) ==
    /\ pc[c] = "finalize" /\ Goto(c, "detach")
    /\ finalized' = finalized \cup {c}
    /\ UNCHANGED <<life, connectMu, conn, session, mode, status, callerVars,
                   disconnecting, cancelled, runVars, outcome, proxyVars,
                   osVars>>

\* Mutant of CleanupDetach: the active candidate is not torn down.
CleanupDetachNoReap(c) ==
    /\ pc[c] = "detach" /\ Goto(c, "restore")
    /\ active' = active \ {c}
    /\ UNCHANGED <<life, connectMu, conn, session, mode, status, callerVars,
                   flagVars, tunnel, recovering, outcome, proxyVars, osVars>>

\* cleanupConn takes conn.active; only an active candidate is torn down.
CleanupDetach(c) ==
    /\ pc[c] = "detach"
    /\ Goto(c, IF c \in active THEN "reap" ELSE "restore")
    /\ active' = active \ {c}
    /\ UNCHANGED <<life, connectMu, conn, session, mode, status, callerVars,
                   flagVars, tunnel, recovering, outcome, proxyVars, osVars>>

CleanupReap(c) ==
    /\ pc[c] = "reap" /\ Goto(c, "restore")
    /\ tunnel' = tunnel \ {c}
    /\ UNCHANGED <<life, connectMu, conn, session, mode, status, callerVars,
                   flagVars, active, recovering, outcome, proxyVars, osVars>>

CleanupRestore(c) ==
    /\ pc[c] = "restore"
    /\ ReleaseProxy(c, "forget", "sample")
    /\ UNCHANGED <<life, connectMu, conn, session, mode, status, callerVars,
                   flagVars, runVars, outcome, snapshotTaken, snap>>

CleanupForget(c) ==
    /\ pc[c] = "forget" /\ Goto(c, "sample")
    /\ ClearProxySnapshot
    /\ UNCHANGED <<life, connectMu, conn, session, mode, status, callerVars,
                   flagVars, runVars, outcome, proxyVars>>

\* Intent is sampled under s.mu, then the lock is released.
SampleIntent(c) ==
    /\ pc[c] = "sample"
    /\ Goto(c, IF c \in disconnecting \/ outcome[c] = "clean"
               THEN "stopped" ELSE "broken")
    /\ UNCHANGED <<life, connectMu, conn, session, mode, status, callerVars,
                   flagVars, runVars, outcome, proxyVars, osVars>>

\* The terminal status, decided on the sampled intent.
EmitTerminal(c) ==
    /\ pc[c] \in {"stopped", "broken"} /\ Goto(c, "flush")
    /\ status' = IF pc[c] = "stopped" THEN "disconnected" ELSE "failed"
    /\ UNCHANGED <<life, connectMu, conn, session, mode, callerVars, flagVars,
                   runVars, outcome, proxyVars, osVars>>

\* EndSession and the bounded terminalFlush.
TerminalFlush(c) ==
    /\ pc[c] = "flush" /\ Goto(c, "clear")
    /\ UNCHANGED <<life, connectMu, conn, session, mode, status, callerVars,
                   flagVars, runVars, outcome, proxyVars, osVars>>

\* Mutant of ClearConn: the telemetry session id is not dropped.
ClearConnKeepsSession(c) ==
    /\ pc[c] = "clear" /\ Goto(c, "exit")
    /\ conn' = IF conn = c THEN None ELSE conn
    /\ UNCHANGED <<life, connectMu, session, mode, status, callerVars,
                   flagVars, runVars, outcome, proxyVars, osVars>>

ClearConn(c) ==
    /\ pc[c] = "clear" /\ Goto(c, "exit")
    /\ conn' = IF conn = c THEN None ELSE conn
    /\ session' = None
    /\ UNCHANGED <<life, connectMu, mode, status, callerVars, flagVars,
                   runVars, outcome, proxyVars, osVars>>

\* The deferred cancel and close(conn.done). Nothing reads the other fields of
\* the object again: they return to the zero value of the next allocation.
CloseDone(c) ==
    /\ pc[c] = "exit" /\ Goto(c, "dead")
    /\ disconnecting' = disconnecting \ {c}
    /\ cancelled' = cancelled \cup {c}
    /\ finalized' = finalized \ {c}
    /\ recovering' = recovering \ {c}
    /\ outcome' = [outcome EXCEPT ![c] = "clean"]
    /\ proxySet' = proxySet \ {c}
    /\ snapshotTaken' = snapshotTaken \ {c}
    /\ snap' = [snap EXCEPT ![c] = None]
    /\ UNCHANGED <<life, connectMu, conn, session, mode, status, callerVars,
                   active, tunnel, osVars>>

-----------------------------------------------------------------------------
\* Steps of the connection's goroutine that happen by themselves: every call
\* they make is bounded by a timeout or returns when the context ends.
ConnectFlow(c) ==
    \/ Prepare(c) \/ BeginSession(c) \/ FetchCandidates(c)
    \/ StartCandidate(c) \/ ProbeCandidate(c) \/ LadderEnds(c)
    \/ Promote(c) \/ Bail(c)
    \/ ApplyProxy(c) \/ ApplySave(c) \/ ApplySet(c) \/ ApplyUndo(c)
    \/ ApplyUnsave(c)
Supervise(c) ==
    \/ WatchCancelled(c) \/ Tripped(c) \/ Announce(c) \/ Drop(c)
    \/ Deactivate(c) \/ Release(c) \/ Reladder(c)
FinalizeConn(c) ==
    \/ Finalize(c) \/ CleanupDetach(c) \/ CleanupReap(c) \/ CleanupRestore(c)
    \/ CleanupForget(c) \/ SampleIntent(c) \/ EmitTerminal(c)
    \/ TerminalFlush(c) \/ ClearConn(c) \/ CloseDone(c)
RunConnect(c) == ConnectFlow(c) \/ Supervise(c) \/ FinalizeConn(c)

\* The rest of a public method once it holds connectMu.
Method(k) ==
    \/ \E m \in Modes : SetMode(k, m)
    \/ Disconnect(k) \/ Shutdown(k) \/ TeardownMark(k) \/ Cancel(k)
    \/ AwaitDone(k) \/ (\E c \in Conns : Install(k, c)) \/ Launch(k)
    \/ Exit(k)

Process == Start \/ StartForget \/ Crash \/ HandleProxyClear

Next ==
    \/ Process
    \/ \E k \in Callers : (\E o \in Ops \cap Methods : Call(k, o)) \/ Acquire(k) \/ Method(k)
    \/ \E c \in Conns : RunConnect(c) \/ Trigger(c)

Spec == Init /\ [][Next]_vars

\* Goroutines run; sync.Mutex hands connectMu to a waiter it has starved.
Fairness ==
    /\ \A c \in Conns : WF_vars(RunConnect(c))
    /\ \A k \in Callers : WF_vars(Method(k)) /\ SF_vars(Acquire(k))

FairSpec == Spec /\ Fairness
=============================================================================

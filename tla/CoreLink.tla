------------------------------ MODULE CoreLink ------------------------------
(***************************************************************************)
(* The app's CoreManager (CoreManager.cpp) and the core processes it       *)
(* adopts, spawns, keeps alive and stops (core/server.go): worker threads  *)
(* inside EnsureRunning, Stop, Restart and RestartElevated, the heartbeat  *)
(* and the wait thread, the endpoint file, the single-instance check and   *)
(* the heartbeat watchdog.                                                 *)
(*                                                                         *)
(* m_api and m_endpoint are set and reset together and are one variable.   *)
(* A section of m_gate is one step, except where EnsureRunning joins the   *)
(* old threads while it holds the gate.                                    *)
(***************************************************************************)
CONSTANTS Cores,     \* core processes; the id of a dead one is reused
          Threads,   \* the app's worker threads
          MayCall,   \* which methods each of them calls
          MayFail,   \* what can fail: spawn, slow start-up, kill, crash
          None

Methods == {"ensure", "stop", "restart", "elevate"}

ASSUME LinkAssumption ==
    /\ MayCall \in [Threads -> SUBSET Methods]
    /\ MayFail \subseteq {"spawn", "slow", "kill", "crash"}
    /\ None \notin Cores \cup Threads

VARIABLES
    core,        \* per core: none, check, publish, serving, draining, removing
    elevated,    \* cores that run elevated
    asked,       \* processes that accepted a shutdown request from Stop
    mine,        \* live cores this app launched
    file,        \* the core the endpoint file describes
    ensureLock, gate,       \* holders of m_ensureLock and m_gate
    m_process, m_endpoint,  \* the process handle; endpoint and API client
    flags,       \* which of m_stopping, the two events, m_exitedSignaled is set
    hb,          \* the heartbeat thread; none when it is not joinable
    wt, wtProc,  \* the wait thread and its copy of the handle
    pc, op, found           \* per worker thread: point, method, local endpoint

coreVars   == <<core, elevated, asked, mine, file>>
mgrVars    == <<ensureLock, gate, m_process, m_endpoint, flags>>
watchVars  == <<hb, wt, wtProc>>
threadVars == <<pc, op, found>>
vars == <<coreVars, mgrVars, watchVars, threadVars>>

CorePoints == {"none", "check", "publish", "serving", "draining", "removing"}
Flags    == {"stopping", "stopEvent", "exitEvent", "exitedSignaled"}
HbPoints == {"none", "wait", "due", "beat", "failed", "raise", "signal", "exited"}
WtPoints == {"none", "begin", "watch", "raise", "signal", "exited"}
Points   == {"idle", "elock", "egate", "spawn", "poll", "adopt", "join",
             "joining", "start", "slock", "ask", "reap", "clear", "unstop"}

Alive(p)  == p \in Cores /\ core[p] # "none"
Serves(p) == p \in Cores /\ core[p] = "serving"
Stopping  == "stopping" \in flags
Goto(k, l) == pc' = [pc EXCEPT ![k] = l]

\* An app that starts: nothing runs, or an earlier app left a core or a stale
\* endpoint file behind.
Init ==
    /\ \/ file = None /\ core = [p \in Cores |-> "none"]
       \/ file \in Cores
          /\ \E s \in {"none", "serving"} :
                core = [p \in Cores |-> IF p = file THEN s ELSE "none"]
    /\ elevated \in {{}, {p \in Cores : core[p] = "serving"}}
    /\ asked = {} /\ mine = {}
    /\ ensureLock = None /\ gate = None
    /\ m_process = None /\ m_endpoint = None /\ flags = {}
    /\ hb = "none" /\ wt = "none" /\ wtProc = None
    /\ pc = [k \in Threads |-> "idle"] /\ op = [k \in Threads |-> "ensure"]
    /\ found = [k \in Threads |-> None]

-----------------------------------------------------------------------------
(* The core process. *)

\* The process is gone; a file it left stays.
Gone(p) ==
    /\ core' = [core EXCEPT ![p] = "none"]
    /\ elevated' = elevated \ {p} /\ mine' = mine \ {p} /\ UNCHANGED asked

Becomes(p, s) ==
    core' = [core EXCEPT ![p] = s] /\ UNCHANGED <<elevated, asked, mine>>

\* Mutant: the endpoint file is not looked at.
CoreCheckSkipped(p) ==
    /\ core[p] = "check" /\ Becomes(p, "publish")
    /\ UNCHANGED <<file, mgrVars, watchVars, threadVars>>

\* checkExistingEndpoint: a core that answers for the file's token wins.
CoreCheck(p) ==
    /\ core[p] = "check"
    /\ IF file # p /\ Serves(file) THEN Gone(p) ELSE Becomes(p, "publish")
    /\ UNCHANGED <<file, mgrVars, watchVars, threadVars>>

\* Engine.Start, writeEndpointFile, Serve.
CorePublish(p) ==
    /\ core[p] = "publish" /\ Becomes(p, "serving") /\ file' = p
    /\ UNCHANGED <<mgrVars, watchVars, threadVars>>

\* A beat arrives well within the timeout while the heartbeat thread runs for
\* this core and nobody makes it wait for the gate.
Attended(p) == m_endpoint = p /\ hb \notin {"none", "exited"} /\ gate = None

\* POST /api/shutdown, or the watchdog: srv.Shutdown, then Engine.Stop.
CoreDrains(p) ==
    /\ core[p] = "serving" /\ (p \in asked \/ ~Attended(p))
    /\ Becomes(p, "draining")
    /\ UNCHANGED <<file, mgrVars, watchVars, threadVars>>

CoreStopped(p) ==
    /\ core[p] = "draining" /\ Becomes(p, "removing")
    /\ UNCHANGED <<file, mgrVars, watchVars, threadVars>>

\* removeEndpointFile removes whatever file is there; the process exits.
CoreExits(p) ==
    /\ core[p] = "removing" /\ Gone(p) /\ file' = None
    /\ UNCHANGED <<mgrVars, watchVars, threadVars>>

CoreCrashes(p) ==
    /\ "crash" \in MayFail /\ Alive(p) /\ Gone(p)
    /\ UNCHANGED <<file, mgrVars, watchVars, threadVars>>

-----------------------------------------------------------------------------
(* EnsureRunning. *)

Call(k, o) ==
    /\ pc[k] = "idle" /\ o \in MayCall[k]
    /\ Goto(k, IF o = "ensure" THEN "elock" ELSE "slock")
    /\ op' = [op EXCEPT ![k] = o]
    /\ UNCHANGED <<coreVars, mgrVars, watchVars, found>>

\* Return or throw: the lock guards release what is held.
Leave(k) ==
    /\ Goto(k, "idle") /\ op' = [op EXCEPT ![k] = "ensure"]
    /\ ensureLock' = None /\ gate' = None
    /\ found' = [found EXCEPT ![k] = None]

\* Mutant: callers are not serialised.
EnsureLockShared(k) ==
    /\ pc[k] = "elock" /\ ensureLock' = k /\ Goto(k, "egate")
    /\ UNCHANGED <<coreVars, gate, m_process, m_endpoint, flags, watchVars, op,
                   found>>

EnsureLock(k) ==
    /\ pc[k] = "elock" /\ ensureLock = None /\ ensureLock' = k
    /\ Goto(k, "egate")
    /\ UNCHANGED <<coreVars, gate, m_process, m_endpoint, flags, watchVars, op,
                   found>>

\* TerminateProcess. An app that is not elevated may be denied.
Kill(p) ==
    \/ Gone(p)
    \/ /\ "kill" \in MayFail /\ p \in elevated
       /\ UNCHANGED <<core, elevated, asked, mine>>

\* TryAdopt: the file's core answers and is elevated if it has to be.
Adoptable(k) == Serves(file) /\ (op[k] = "elevate" => file \in elevated)

\* A core of ours runs, and we have its API client.
EnsureFound(k) ==
    /\ pc[k] = "egate" /\ gate = None
    /\ Stopping \/ (Alive(m_process) /\ m_endpoint # None)
    /\ Leave(k)
    /\ UNCHANGED <<coreVars, m_process, m_endpoint, flags, watchVars>>

\* One of ours was never adopted: kill the orphan of a failed spawn.
EnsureKillOrphan(k) ==
    /\ pc[k] = "egate" /\ gate = None /\ ~Stopping
    /\ Alive(m_process) /\ m_endpoint = None
    /\ Kill(m_process) /\ m_process' = None /\ Goto(k, "spawn")
    /\ UNCHANGED <<file, ensureLock, gate, m_endpoint, flags, watchVars, op,
                   found>>

\* Adopt the core of the endpoint file, keeping the gate, or go on to spawn.
EnsureAdopt(k) ==
    /\ pc[k] = "egate" /\ gate = None /\ ~Stopping /\ ~Alive(m_process)
    /\ IF Adoptable(k)
         THEN m_endpoint' = file /\ gate' = k /\ Goto(k, "join")
         ELSE Goto(k, "spawn") /\ UNCHANGED <<m_endpoint, gate>>
    /\ UNCHANGED <<coreVars, ensureLock, m_process, flags, watchVars, op, found>>

\* A process id nothing of the app still refers to.
Fresh(p) ==
    core[p] = "none" /\ p \notin {m_endpoint, wtProc}

\* m_stopping and the stop event are reset, then CreateProcess or runas.
Spawn(k) ==
    /\ pc[k] = "spawn" /\ gate = None
    /\ flags' = flags \ {"stopping", "stopEvent"}
    /\ \/ \E p \in Cores :
             /\ Fresh(p)
             /\ core' = [core EXCEPT ![p] = "check"]
             /\ elevated' = IF op[k] = "elevate" THEN elevated \cup {p} ELSE elevated
             /\ mine' = mine \cup {p} /\ asked' = asked \ {p}
             /\ m_process' = p
             /\ Goto(k, "poll")
             /\ UNCHANGED <<ensureLock, gate, op, found>>
       \/ /\ "spawn" \in MayFail /\ Leave(k)
          /\ UNCHANGED <<core, elevated, asked, mine, m_process>>
    /\ UNCHANGED <<file, m_endpoint, watchVars>>

\* WaitForEndpoint: whichever core the file names and that answers.
Poll(k) ==
    /\ pc[k] = "poll" /\ gate = None
    /\ \/ /\ ~Stopping /\ Serves(file) /\ found' = [found EXCEPT ![k] = file]
          /\ Goto(k, "adopt") /\ UNCHANGED <<ensureLock, gate, op>>
       \/ (Stopping \/ ~Alive(m_process) \/ "slow" \in MayFail) /\ Leave(k)
    /\ UNCHANGED <<coreVars, m_process, m_endpoint, flags, watchVars>>

Adopt(k) ==
    /\ pc[k] = "adopt" /\ gate = None /\ gate' = k
    /\ m_endpoint' = found[k] /\ found' = [found EXCEPT ![k] = None]
    /\ Goto(k, "join")
    /\ UNCHANGED <<coreVars, ensureLock, m_process, flags, watchVars, op>>

\* StartHeartbeatLocked, holding the gate: signal the old heartbeat thread ...
JoinBegins(k) ==
    /\ pc[k] = "join"
    /\ IF hb = "none" THEN Goto(k, "start") /\ UNCHANGED flags
       ELSE Goto(k, "joining") /\ flags' = flags \cup {"stopEvent"}
    /\ UNCHANGED <<coreVars, ensureLock, gate, m_process, m_endpoint,
                   watchVars, op, found>>

\* ... and wait for it.
JoinEnds(k) ==
    /\ pc[k] = "joining" /\ hb = "exited" /\ hb' = "none"
    /\ Goto(k, "start")
    /\ UNCHANGED <<coreVars, mgrVars, wt, wtProc, op, found>>

\* Join the wait thread, reset what reports an exit, start both anew. The stop
\* event stays as it is.
StartHeartbeat(k) ==
    /\ pc[k] = "start" /\ wt \in {"none", "exited"}
    /\ flags' = flags \ {"exitEvent", "exitedSignaled"}
    /\ hb' = "wait" /\ wt' = "begin"
    /\ Leave(k)
    /\ UNCHANGED <<coreVars, m_process, m_endpoint, wtProc>>

-----------------------------------------------------------------------------
(* Stop and Restart. *)

\* Of the requests of an earlier Stop only those not yet acted on still count.
StopLock(k) ==
    /\ pc[k] = "slock" /\ ensureLock = None /\ ensureLock' = k
    /\ flags' = flags \cup {"stopping", "stopEvent"} /\ Goto(k, "ask")
    /\ asked' = {p \in asked : Serves(p)}
    /\ UNCHANGED <<core, elevated, mine, file, gate, m_process, m_endpoint,
                   watchVars, op, found>>

\* POST /api/shutdown, lost on a core that no longer answers.
StopAsk(k) ==
    /\ pc[k] = "ask" /\ Goto(k, "reap")
    /\ asked' = IF Serves(m_endpoint) THEN asked \cup {m_endpoint} ELSE asked
    /\ UNCHANGED <<core, elevated, mine, file, mgrVars, watchVars, op, found>>

\* The process to wait for: ours, or the adopted one when we have no handle.
Target == IF m_process # None THEN m_process ELSE m_endpoint

\* Mutant: a core that does not exit in time is left alone.
StopReapNoKill(k) ==
    /\ pc[k] = "reap" /\ gate = None /\ Goto(k, "clear")
    /\ UNCHANGED <<coreVars, mgrVars, watchVars, op, found>>

\* It exits in time, or is killed; an accepted request is acted on in time.
StopReap(k) ==
    /\ pc[k] = "reap" /\ gate = None /\ Goto(k, "clear")
    /\ IF Alive(Target)
         THEN ~(Serves(Target) /\ Target \in asked) /\ Kill(Target)
         ELSE UNCHANGED <<core, elevated, asked, mine>>
    /\ UNCHANGED <<file, mgrVars, watchVars, op, found>>

\* Both threads are joined and the state is dropped; m_stopping stays set.
StopClear(k) ==
    /\ pc[k] = "clear" /\ gate = None
    /\ hb \in {"none", "exited"} /\ wt \in {"none", "exited"}
    /\ hb' = "none" /\ wt' = "none"
    /\ m_process' = None /\ m_endpoint' = None
    /\ flags' = flags \ {"exitedSignaled"}
    /\ ensureLock' = None
    /\ Goto(k, IF op[k] = "stop" THEN "idle" ELSE "unstop")
    /\ UNCHANGED <<coreVars, gate, wtProc, op, found>>

\* Restart clears m_stopping, outside every lock, and ensures.
Unstop(k) ==
    /\ pc[k] = "unstop" /\ Goto(k, "elock")
    /\ flags' = flags \ {"stopping"}
    /\ UNCHANGED <<coreVars, ensureLock, gate, m_process, m_endpoint, watchVars,
                   op, found>>

-----------------------------------------------------------------------------
(* HeartbeatLoop and the wait thread. *)

HbStep(l) ==
    hb' = l /\ UNCHANGED <<coreVars, ensureLock, gate, m_process, m_endpoint,
                           wt, wtProc, threadVars>>

\* The stop event, or time for a beat.
HbWait ==
    /\ hb = "wait" /\ UNCHANGED flags
    /\ HbStep(IF "stopEvent" \in flags THEN "exited" ELSE "due")

\* First section of the gate: is there something to beat.
HbDue ==
    /\ hb = "due" /\ gate = None /\ UNCHANGED flags
    /\ HbStep(IF Stopping THEN "exited"
              ELSE IF m_endpoint = None THEN "wait" ELSE "beat")

\* Second section: the request. Only a core that does not answer counts.
HbBeat ==
    /\ hb = "beat" /\ gate = None /\ UNCHANGED flags
    /\ HbStep(IF m_endpoint = None THEN "exited"
              ELSE IF Serves(m_endpoint) THEN "wait" ELSE "failed")

\* Third section: a stop explains the silence.
HbFailed ==
    /\ hb = "failed" /\ gate = None /\ UNCHANGED flags
    /\ HbStep(IF Stopping THEN "exited" ELSE "raise")

WtStep(l) ==
    wt' = l /\ UNCHANGED <<coreVars, ensureLock, gate, m_process, m_endpoint,
                           hb, threadVars>>

\* An adopted core has no handle to wait on.
WtBegin ==
    /\ wt = "begin" /\ gate = None
    /\ wtProc' = m_process /\ UNCHANGED flags
    /\ WtStep(IF m_process = None THEN "exited" ELSE "watch")

\* The process ends; the heartbeat reported it; a stop; the two-hour deadline.
WtWatch ==
    /\ wt = "watch"
    /\ \/ /\ ~Alive(wtProc) /\ UNCHANGED <<flags, wtProc>>
          /\ WtStep("raise")
       \/ /\ "exitEvent" \in flags /\ flags' = flags \ {"exitEvent"}
          /\ WtStep("raise") /\ UNCHANGED wtProc
       \/ wtProc' = None /\ UNCHANGED flags /\ WtStep("exited")

\* Mutant: the exit of a core that was asked to stop is reported.
RaiseCoreExitedAlways ==
    \/ hb = "raise" /\ UNCHANGED flags /\ HbStep("signal")
    \/ wt = "raise" /\ UNCHANGED <<flags, wtProc>> /\ WtStep("signal")

\* RaiseCoreExited by either thread: not while stopping ...
RaiseCoreExited ==
    \/ /\ hb = "raise" /\ UNCHANGED flags
       /\ HbStep(IF Stopping THEN "exited" ELSE "signal")
    \/ /\ wt = "raise" /\ UNCHANGED flags
       /\ wtProc' = IF Stopping THEN None ELSE wtProc
       /\ WtStep(IF Stopping THEN "exited" ELSE "signal")

\* ... and once per core.
Signal ==
    /\ flags' = IF "exitedSignaled" \in flags THEN flags
                ELSE flags \cup {"exitedSignaled", "exitEvent"}
    /\ \/ hb = "signal" /\ HbStep("exited")
       \/ wt = "signal" /\ WtStep("exited") /\ wtProc' = None

-----------------------------------------------------------------------------
CoreNext(p) ==
    \/ CoreCheck(p) \/ CorePublish(p) \/ CoreDrains(p) \/ CoreStopped(p)
    \/ CoreExits(p) \/ CoreCrashes(p)

Method(k) ==
    \/ EnsureLock(k) \/ EnsureFound(k) \/ EnsureKillOrphan(k) \/ EnsureAdopt(k)
    \/ Spawn(k) \/ Poll(k) \/ Adopt(k) \/ JoinBegins(k) \/ JoinEnds(k)
    \/ StartHeartbeat(k)
    \/ StopLock(k) \/ StopAsk(k) \/ StopReap(k) \/ StopClear(k) \/ Unstop(k)

Watchers ==
    \/ HbWait \/ HbDue \/ HbBeat \/ HbFailed
    \/ WtBegin \/ WtWatch \/ RaiseCoreExited \/ Signal

Next ==
    \/ \E p \in Cores : CoreNext(p)
    \/ \E k \in Threads : Method(k) \/ \E o \in Methods : Call(k, o)
    \/ Watchers

Spec == Init /\ [][Next]_vars
=============================================================================

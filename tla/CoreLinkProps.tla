--------------------------- MODULE CoreLinkProps ---------------------------
(* What CoreManager and the core promise each other. *)
EXTENDS CoreLink

\* Type correctness; a wait thread that watches has a handle to watch.
TypeOK ==
    /\ core \in [Cores -> CorePoints]
    /\ elevated \subseteq Cores
    /\ asked \subseteq Cores
    /\ mine \subseteq Cores
    /\ file \in Cores \cup {None}
    /\ ensureLock \in Threads \cup {None}
    /\ gate \in Threads \cup {None}
    /\ m_process \in Cores \cup {None}
    /\ m_endpoint \in Cores \cup {None}
    /\ flags \subseteq Flags
    /\ hb \in HbPoints
    /\ wt \in WtPoints
    /\ wtProc \in Cores \cup {None}
    /\ wt = "watch" => wtProc \in Cores
    /\ pc \in [Threads -> Points]
    /\ op \in [Threads -> Methods]
    /\ found \in [Threads -> Cores \cup {None}]

\* A core that TerminateProcess is sure to end.
Killable(p) == "kill" \in MayFail => p \notin elevated

\* However start-up, page loads and restarts overlap, the app has at most one
\* core of its own, the one it holds the handle of ("a second caller must never
\* spawn a rival core", m_ensureLock).
NoRival == \A p \in mine : Killable(p) => m_process = p

\* Two cores never serve together, whatever an earlier app left behind ("a
\* second instance, which refuses rather than fighting over the engine").
OneServing ==
    "kill" \notin MayFail =>
        \A p, q \in Cores : Serves(p) /\ Serves(q) => p = q

\* A stop that has finished leaves no core of the app running, also one whose
\* start-up it interrupted (Stop).
StopLeavesNoCore ==
    Stopping /\ ensureLock = None => \A p \in mine : ~Killable(p)

\* The core a raising thread speaks of.
Reported == IF hb = "signal" /\ hb' = "exited" THEN m_endpoint ELSE wtProc

\* While Stop is at work, the exit of the core it asked to exit is never
\* reported as unexpected, in whatever order the heartbeat and the wait thread
\* notice it (RaiseCoreExited).
DeliberateStopSilent ==
    [][(\E k \in Threads : pc[k] \in {"reap", "clear"}) /\ Reported \in asked
          => "exitedSignaled" \notin flags' \ flags]_vars

\* "no stray EnsureRunning can spawn a core behind a teardown": while
\* m_stopping is set nothing is spawned (Stop, EnsureRunning).
NoSpawnBehindTeardown == [][mine' \subseteq mine \/ ~Stopping]_vars

\* "UI sends every 5 s while running" (API-CONTRACT.md): when no method is at
\* work and the app's core serves, the heartbeat thread runs.
HeartbeatKept ==
    (ensureLock = None /\ ~Stopping /\ Serves(m_endpoint))
        => hb \notin {"none", "exited"}

-----------------------------------------------------------------------------
\* The inductive invariant of the app's side of CoreLink.

\* Where a thread holds m_ensureLock.
Inside == {"egate", "spawn", "poll", "adopt", "join", "joining", "start",
           "ask", "reap", "clear"}

\* m_ensureLock is held by the one thread that is inside a method.
LockInv == \A k \in Threads : pc[k] \in Inside <=> ensureLock = k

\* No core of ours runs that a kill would have ended.
NoneLeft == \A p \in mine : ~Killable(p)

\* Ours are alive; a thread about to spawn, and one that has reaped, left none.
MineInv ==
    /\ \A p \in mine : core[p] # "none"
    /\ NoRival
    /\ \A k \in Threads : pc[k] \in {"spawn", "clear"} => NoneLeft

\* m_stopping is set only from Stop on, and what Stop reaped stays away until
\* it is cleared; a spawn does not begin under it.
StopInv ==
    /\ \A k \in Threads : pc[k] = "spawn" => ~Stopping
    /\ Stopping => NoneLeft \/ \E k \in Threads : pc[k] \in {"ask", "reap"}

LinkInv == TypeOK /\ LockInv /\ MineInv /\ StopInv

\* A core that starts is ours. One that serves and is not ours, left by an
\* earlier app, is named by the endpoint file, and none of ours has got past
\* the single-instance check (checkExistingEndpoint).
ServeInv ==
    /\ \A p \in Cores : core[p] \in {"check", "publish"} => p \in mine
    /\ \A p \in Cores \ mine :
          Serves(p) => /\ file = p
                       /\ \A q \in Cores \ {p} : core[q] \in {"none", "check"}

-----------------------------------------------------------------------------
\* The invariant behind the silence of a deliberate stop.

\* A thread inside StartHeartbeatLocked: the threads that still run watch an
\* endpoint, or a process, that has been replaced.
Joining == \E k \in Threads : pc[k] \in {"join", "joining", "start"}
Unserved == Joining \/ ~Serves(m_endpoint)

\* A core that once answered does not start again under its name.
NamedInv ==
    /\ \A p \in asked : core[p] \notin {"check", "publish"}
    /\ m_endpoint # None => core[m_endpoint] \notin {"check", "publish"}
    /\ \A k \in Threads :
          /\ found[k] # None => core[found[k]] \notin {"check", "publish"}
          /\ found[k] # None <=> pc[k] = "adopt"

\* A thread that goes to report an exit has seen a core that is gone: the one
\* that served us, or the one whose handle it holds.
NoticeInv ==
    /\ hb \in {"failed", "raise", "signal"} => Unserved
    /\ "exitEvent" \in flags => Unserved \/ wt \in {"none", "exited"}
    /\ wt \in {"raise", "signal"} => Unserved \/ ~Alive(wtProc)

\* The handle of the wait thread is m_process, or that of a dead process.
HandleInv ==
    /\ wt \notin {"watch", "raise", "signal"} => wtProc = None
    /\ Joining => m_endpoint # None
    /\ m_endpoint = None => wt = "none"
    /\ Alive(wtProc) => wtProc = m_process
    /\ \A k \in Threads : pc[k] = "spawn" => ~Alive(m_process)
    /\ Serves(m_process) /\ m_process \in asked
          => \E k \in Threads : pc[k] = "reap"

WatchInv == NamedInv /\ NoticeInv /\ HandleInv

\* At most one thread tears the core down (Stop, Restart, RestartElevated).
Stops(k)   == MayCall[k] \ {"ensure"} # {}
OneStopper == \A j, k \in Threads : Stops(j) /\ Stops(k) => j = k

\* A Stop at work has m_stopping set, and what a thread was about to report
\* when it began is not the core it asked to exit.
AtWork == \E k \in Threads : pc[k] \in {"ask", "reap", "clear"}
SilentInv ==
    /\ \A k \in Threads :
          pc[k] \in {"slock", "ask", "reap", "clear", "unstop"} => Stops(k)
    /\ AtWork => Stopping
    /\ AtWork /\ hb = "signal" => m_endpoint \notin asked
    /\ AtWork /\ wt = "signal" => wtProc \notin asked
=============================================================================

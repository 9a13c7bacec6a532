---------------------------- MODULE EngineProps ----------------------------
(* What the engine of module Engine promises its host. *)
EXTENDS Engine

Terminal == {"disconnected", "failed"}

\* The failures the engine promises to survive with the user's OS proxy
\* setting intact: the death of the process alone, or failing Set and store
\* calls in a process that does not die. Stop's return is a death: a Connect it
\* overtook may be live by then.
OnlyCrashes == MayFail \subseteq {"crash"}
Survivable  ==
    \/ OnlyCrashes
    \/ MayFail \subseteq {"set", "store"} /\ "shutdown" \notin Ops

\* Type correctness of the engine's state.
TypeOK ==
    /\ life \in {"down", "forgetting", "up"}
    /\ connectMu \in Callers \cup {None}
    /\ conn \in Conns \cup {None}
    /\ session \in Conns \cup {None}
    /\ mode \in Modes
    /\ status \in Statuses
    /\ cpc \in [Callers -> CallerPoints]
    /\ op \in [Callers -> (Ops \cap Methods) \cup {"none"}]
    /\ held \in [Callers -> Conns \cup {None}]
    /\ pc \in [Conns -> Points]
    /\ disconnecting \subseteq Conns
    /\ cancelled \subseteq Conns
    /\ finalized \subseteq Conns
    /\ active \subseteq Conns
    /\ tunnel \subseteq Conns
    /\ recovering \subseteq Conns
    /\ outcome \in [Conns -> {"clean", "error"}]
    /\ proxySet \subseteq Conns
    /\ snapshotTaken \subseteq Conns
    /\ snap \in [Conns -> Settings \cup {None}]
    /\ osProxy \in Settings
    /\ persisted \in Settings \cup {None}

\* However Connect, Disconnect, SetMode and Shutdown overlap, a connection that
\* still runs, holds a tunnel or is published as active is the one in s.conn:
\* there is never a second live tunnel on the shared loopback port and never
\* an orphan that nothing can cancel (ConnectTarget, teardownExisting).
NoOrphan ==
    \A c \in Conns : Running(c) \/ c \in tunnel \/ c \in active => conn = c

\* The telemetry session id the engine reports is the current connection's,
\* never one left over from the connection it replaced (clearConn).
SessionBelongsToConn == session # None => session = conn

\* Once DISCONNECTED or FAILED is published no tunnel is held, and the OS proxy
\* is no longer owed to the user unless Restore can fail (finalizeConn).
TerminalHoldsNothing ==
    status \in Terminal =>
        \A c \in Conns : /\ c \notin tunnel /\ c \notin active
                         /\ c \in proxySet => "restore" \in MayFail

\* An engine at rest has given the OS proxy back, whatever survivable failures,
\* crashes and relaunches came before (applyProxy, cleanupConn, Start).
ProxyReturned ==
    (life = "up" /\ status \in Terminal /\ Survivable) => osProxy \in UserProxies

\* An engine that shows DISCONNECTED or FAILED never turns the OS proxy to its own
\* port, whatever Set, Restore and store calls fail and however a Connect overtakes
\* the end of the connection before it: that is for a connection that has not
\* published its end (promote's guard, teardownExisting's wait, finalizeConn).
NeverSetAtRest ==
    [][life = "up" /\ osProxy # Ours /\ osProxy' = Ours => status \notin Terminal]_vars

\* Without OS or store failures, whenever the OS proxy points at the core the
\* store holds the user's own setting, so a crash at any instant is undone by
\* the next launch (the two SaveProxySnapshot calls of applyProxy).
CrashRecoverable ==
    (osProxy = Ours /\ OnlyCrashes) => persisted \in UserProxies

\* A session keeps the mode it started with: SetMode never lands while a
\* connection runs nor inside ConnectTarget's teardown-then-install window.
ModeFixedInSession ==
    [][mode' # mode /\ life = "up" =>
          /\ \A c \in Conns : ~Running(c)
          /\ \A k \in Callers : cpc[k] \notin {"cancel", "wait", "install",
                                               "launch"}]_vars

\* When Shutdown returns, no tunnel is up, a terminal status is published and,
\* unless an OS or store call failed, the OS proxy is the user's again (the
\* ordering Shutdown's comment guarantees).
ShutdownReleases ==
    [][\A k \in Callers :
          cpc[k] # "exit" /\ cpc'[k] = "exit" =>
              /\ \A c \in Conns : c \notin tunnel' /\ c \notin active'
              /\ status' \in Terminal
              /\ OnlyCrashes => osProxy' \in UserProxies]_vars

\* A published DISCONNECTING is followed only by a recovery's late CONNECTING
\* or by DISCONNECTED: never by CONNECTED, PREPARING or FAILED.
DisconnectingPath ==
    [][status = "disconnecting" /\ status' # status =>
          status' \in {"connecting", "disconnected"}]_vars

\* The UI is never left on DISCONNECTING: the stop it shows ends in
\* DISCONNECTED (Disconnect, finalizeConn).
DisconnectingEnds == status = "disconnecting" ~> status = "disconnected"

\* Every public method returns, whoever else holds connectMu (connectMu,
\* teardownExisting's wait on conn.done).
CallersReturn == \A k \in Callers : cpc[k] # "idle" ~> cpc[k] = "idle"

\* "user intent, whatever phase it raced -- never reported as a failure"
\* (finalizeConn): a connection whose Disconnect was accepted does not publish
\* FAILED.
IntentNeverFails ==
    [][\A c \in Conns : conn = c /\ c \in disconnecting /\ status' # status
          => status' # "failed"]_vars

\* "keeping the recovery snapshot for the next retry" (releaseProxy): while the
\* OS proxy still points at the core because a Restore failed, the store keeps
\* the user's setting.
RecoverySnapshotKept ==
    osProxy = Ours => persisted \in UserProxies

\* "Ensure proxySet=true always implies a persisted snapshot for crash
\* recovery, even if an earlier Set failure cleared it" (applyProxy): a process
\* that dies while the OS proxy points at it leaves a snapshot behind.
CrashAfterFailedSet ==
    life = "down" /\ osProxy = Ours => persisted # None
=============================================================================

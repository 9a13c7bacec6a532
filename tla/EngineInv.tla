----------------------------- MODULE EngineInv -----------------------------
(* The inductive strengthening behind the properties of EngineProps. *)
EXTENDS EngineProps

\* A caller past connectMu.Lock and before its deferred Unlock.
InMethod == {"locked", "mark", "cancel", "wait", "install", "launch"}

\* No nil is dereferenced and no nil snapshot is restored: a caller that cancels
\* or waits holds a connection, and a session that may restore has captured,
\* which a new one has not.
RefInv ==
    /\ \A k \in Callers : cpc[k] \in {"cancel", "wait", "launch"} => held[k] # None
    /\ \A c \in Conns :
          /\ pc[c] \in {"dead", "new"} => c \notin snapshotTaken
          /\ c \in snapshotTaken => snap[c] # None
          /\ c \in proxySet \/ pc[c] \in {"save", "set", "persist", "undo"}
                => c \in snapshotTaken

\* connectMu serialises the methods, and s.conn is exactly the connection that
\* runs: a method that waits on conn.done waits for that one, and a method
\* about to install finds s.conn empty.
LockInv ==
    /\ \A k \in Callers : cpc[k] \in InMethod <=> connectMu = k
    /\ \A k \in Callers : cpc[k] = "install" => conn = None
    /\ \A k \in Callers : cpc[k] \in {"install", "launch"} => op[k] = "connect"
    /\ \A k \in Callers : cpc[k] = "exit" => op[k] = "shutdown"
    /\ \A k \in Callers : cpc[k] = "launch" =>
          conn = held[k] /\ pc[conn] = "new"
    /\ \A k \in Callers : cpc[k] \in {"cancel", "wait"} =>
          conn \in {held[k], None}
    /\ \A c \in Conns : pc[c] = "new" => \E k \in Callers : cpc[k] = "launch"
    /\ \A c \in Conns : Running(c) <=> conn = c
    /\ session # None => session = conn
    /\ life # "up" => \A c \in Conns : pc[c] = "dead"
    /\ life # "up" => \A k \in Callers : cpc[k] = "idle"

\* The points between promote's publish and its teardown.
ActivePoints == {"apply", "save", "set", "persist", "undo", "unsave", "watch",
                 "tripped", "announce", "drop"}

\* A tunnel outlives neither its rung nor the connection: whoever reaches
\* finalizeConn with a tunnel reaches it with conn.active set.
TunnelInv ==
    \A c \in Conns :
        /\ c \in tunnel => pc[c] \in ActivePoints \cup
              {"probing", "won", "bail", "finalize", "detach", "reap"}
        /\ c \in tunnel /\ pc[c] \in {"finalize", "detach"} => c \in active
        /\ pc[c] \in ActivePoints => c \in active
        /\ c \in active => pc[c] \in ActivePoints \cup
              {"inactive", "finalize", "detach"}

\* Points at which the connection has not been announced, or has been buried.
QuietPoints == {"dead", "new", "flush", "clear", "exit"}

\* The published status against the running connection's program point.
StatusInv ==
    /\ \A c \in Conns : pc[c] \notin QuietPoints => status \notin Terminal
    /\ (conn = None \/ pc[conn] \in QuietPoints) => status \in Terminal
    /\ \A c \in Conns : c \in finalized <=>
          pc[c] \in (FinalPoints \ {"finalize"}) \cup {"exit"}
    /\ status = "disconnecting" =>
          conn # None /\ conn \in disconnecting /\ pc[conn] # "broken"

\* Points at which a session may still owe the user the OS proxy.
OwingPoints == {"persist", "undo", "watch", "tripped", "announce", "drop",
                "inactive", "release", "finalize", "detach", "reap",
                "restore"}

\* A Restore that cannot fail is never still owed past cleanupConn.
OwedInv ==
    "restore" \notin MayFail =>
        \A c \in Conns : c \in proxySet => pc[c] \in OwingPoints

\* Points at which the persisted snapshot is not (or no longer) required.
UnsavedPoints == {"save", "sample", "stopped", "broken",
                  "flush", "clear", "exit"}

\* Every captured setting is the user's, the store never holds ours, and the OS
\* proxy is ours only while a live session owes it back or, with the process
\* dead, while the store can undo it.
BorrowSafe ==
    /\ osProxy = Ours /\ life # "down" => \E c \in Conns : c \in proxySet
    /\ osProxy = Ours /\ life = "down" => persisted \in UserProxies
    /\ persisted # Ours
    /\ \A c \in Conns : c \in snapshotTaken => snap[c] \in UserProxies

\* The store holds the user's setting for as long as the session may need it.
CrashSafe ==
    /\ osProxy = Ours => persisted \in UserProxies
    /\ \A c \in Conns :
          /\ pc[c] \notin {"undo", "unsave"}
          /\ c \in snapshotTaken /\ pc[c] \notin UnsavedPoints
                => persisted \in UserProxies

SnapshotInv == (Survivable => BorrowSafe) /\ (OnlyCrashes => CrashSafe)

EngineInv == RefInv /\ LockInv /\ TunnelInv /\ StatusInv /\ OwedInv /\ SnapshotInv
=============================================================================

--------------------------- MODULE SuperviseProps ---------------------------
(* What the supervise loop of module Supervise promises. *)
EXTENDS Supervise

Epochs   == 0..MaxEpoch
Failures == 0..Threshold

\* Type correctness of the supervisor, its health loop and its breaker.
TypeOK ==
    /\ mode \in {"proxy", "tun"}
    /\ netBaselined \in {"yes", "no"}
    /\ netEpoch \in Epochs
    /\ reporting \subseteq Hosts
    /\ netNotify \in {0, 1}
    /\ paused \in {"yes", "no"}
    /\ intent \in {"none", "marked", "cancelled"}
    /\ pc \in Points
    /\ outcome \in {"none", "clean", "error"}
    /\ relay \in Relays \cup {None}
    /\ via \in Transports
    /\ epoch \in Epochs
    /\ handledNetEpoch \in Epochs
    /\ trigger \in {"none", "run", "transport", "health"}
    /\ ended \subseteq {"run", "transport"}
    /\ hpc \in HealthPoints
    /\ failures \in Failures
    /\ healthKick \in {0, 1}
    /\ healthFail \in {"none", "remote", "local"}
    /\ sweptAt \in Epochs
    /\ rapidFailures \in [Relays -> Nat]
    /\ open \subseteq Relays
    /\ stamped \subseteq Relays

\* A wake is on its way to the supervisor.
WakePending == netNotify = 1 \/ reporting # {}

\* The path rides sockets that a changed network may have killed, and nothing
\* has looked: a WSS session dialed in an older epoch, or a direct or punched
\* one whose supervisor has not handled the newest epoch.
Unexamined ==
    IF via = "wss" THEN epoch # netEpoch ELSE handledNetEpoch # netEpoch

\* No epoch is lost, wherever it lands between a candidate's first dial, its
\* promotion and the recovery gate that also drains the channel: a session
\* that still owes a reaction has a wake pending (UpdateNetworkState, promote,
\* waitForNetworkRecovery).
NoLostEpoch == pc = "watch" /\ Unexamined => WakePending

\* A relay whose punched path keeps collapsing is punched at most MaxRapid
\* times in a row: the streak never passes the threshold, and no path is
\* punched through an open circuit (maybePunch, onDirectPathLost).
CircuitHonoured ==
    /\ \A r \in Relays : rapidFailures[r] <= MaxRapid
    /\ pc \in {"start", "won", "watch", "held"} /\ via = "punch"
         => relay \notin open

\* Once open, a circuit stays open to the end of the connection: the stable
\* path that would close it cannot exist (onDirectPathLost sets open = false).
CircuitStaysOpen == [][open \subseteq open']_vars

\* A WSS session outlives the network epoch it was dialed in only until the
\* supervisor gets to run: it is retired, whatever else happens.
EpochRetiresWSS ==
    (pc = "watch" /\ via = "wss" /\ epoch # netEpoch) ~> pc # "watch"

\* A direct or punched session is probed in the new epoch without waiting for
\* the health interval, unless the engine is paused or the session ends first.
EpochIsProbed ==
    (pc = "watch" /\ via # "wss" /\ sweptAt # netEpoch)
        ~> (pc # "watch" \/ sweptAt = netEpoch \/ paused = "yes")

\* A cancelled session ends, paused or not and wherever it is in a watch, a
\* backoff, a network wait or a ladder ("Pause never blocks Disconnect").
CancelEnds == Cancelled ~> pc = "done"

-----------------------------------------------------------------------------
\* The inductive invariant of the supervise loop.

Attempting == {"dial", "start", "won"}

\* The wake of an epoch is drained only where the epoch is then examined: a
\* candidate under construction owes a reaction to every epoch after the one it
\* captured, and promotion hands that debt to the supervisor.
WakeInv ==
    /\ pc \in Attempting /\ epoch # netEpoch => WakePending
    /\ NoLostEpoch
    /\ pc = "watch" /\ via = "wss" => handledNetEpoch = epoch

\* A closed circuit is short of the threshold, and a punched candidate's
\* circuit is closed until its loss is classified.
BreakerInv ==
    /\ pc \in Attempting \cup {"watch", "held", "classify"} => relay \in Relays
    /\ pc = "classify" => via = "punch"
    /\ pc = "classify" => relay \notin open
    /\ \A r \in Relays : rapidFailures[r] = MaxRapid => r \in open
    /\ CircuitHonoured

SuperviseInv == TypeOK /\ WakeInv /\ BreakerInv
=============================================================================

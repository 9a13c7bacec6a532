----------------------------- MODULE Supervise -----------------------------
(***************************************************************************)
(* One connection's supervise loop (libs/connectcore/monitor.go) from its  *)
(* first ladder to its end, interleaved with the health loop of the live   *)
(* candidate, the platform's network signals (network.go), Pause and       *)
(* Resume (lifecycle.go), a user disconnect, and the per-relay punch       *)
(* circuit breaker (punchbreaker.go). Desktop hosts only: Mobile is nil,   *)
(* so no recovery budget exists.                                           *)
(*                                                                         *)
(* netNotify, healthKick and healthFail are one-slot channels; a candidate *)
(* is the triple <<relay, via, epoch>>. Module Engine has the same loop    *)
(* seen from s.mu, the OS proxy and the process.                           *)
(***************************************************************************)
EXTENDS Naturals

CONSTANTS Relays,      \* relay ids
          Hosts,       \* goroutines that report network observations
          None,        \* no relay
          MaxRapid,    \* punchMaxRapidFailures
          Threshold,   \* HealthFailureThreshold
          MaxEpoch     \* bound on the network epochs of a behaviour

ASSUME SuperviseAssumption ==
    /\ MaxRapid \in Nat \ {0}
    /\ Threshold \in Nat \ {0}
    /\ MaxEpoch \in Nat
    /\ None \notin Relays

VARIABLES
    mode,                        \* s.mode, fixed while a session lives
    netBaselined, netEpoch,      \* the tracker under netMu
    reporting,                   \* hosts between the epoch bump and the wake
    netNotify,                   \* conn.netNotify: tokens in the channel
    paused,                      \* is resumedCh non-nil
    intent,                      \* none, marked (disconnecting), cancelled
    pc, outcome,                 \* the supervisor, and how it returned
    relay, via, epoch,           \* the candidate being tried or supervised
    handledNetEpoch, trigger,    \* of the supervisor
    ended,                       \* the candidate's runDone and transportErr
    hpc, failures,               \* the candidate's health loop
    healthKick, healthFail,
    sweptAt,                     \* history: the epoch the last sweep began in
    rapidFailures, open, stamped \* the punch circuit breaker, per relay

netVars    == <<netBaselined, netEpoch, reporting>>
candVars   == <<relay, via, epoch>>
healthVars == <<hpc, failures, healthKick, healthFail, sweptAt>>
breakVars  == <<rapidFailures, open, stamped>>
hostVars   == <<mode, netVars, paused, intent>>
vars == <<hostVars, netNotify, pc, outcome, candVars, handledNetEpoch,
          trigger, ended, healthVars, breakVars>>

Transports == {"direct", "punch", "wss"}
Points == {"ladder", "dial", "start", "won", "watch", "held", "classify",
           "exempt", "exemptwait", "backoff", "recover", "gate", "gatewait",
           "done"}
HealthPoints == {"off", "wait", "ready", "probe", "alive"}

Cancelled == intent = "cancelled"
Stopping  == intent # "none"

\* networkAlive: the fronts may be unreachable at any time, and a cancelled
\* context always reads as down.
ProbeResults == IF Cancelled THEN {"down"} ELSE {"down", "alive"}

Init ==
    /\ mode \in {"proxy", "tun"}
    /\ netBaselined = "no" /\ netEpoch = 0 /\ reporting = {}
    /\ netNotify = 0
    /\ paused = "no" /\ intent = "none"
    /\ pc = "ladder" /\ outcome = "none"
    /\ relay = None /\ via = "direct" /\ epoch = 0
    /\ handledNetEpoch = 0 /\ trigger = "none"
    /\ ended = {}
    /\ hpc = "off" /\ failures = 0
    /\ healthKick = 0 /\ healthFail = "none" /\ sweptAt = 0
    /\ rapidFailures = [r \in Relays |-> 0] /\ open = {} /\ stamped = {}

-----------------------------------------------------------------------------
(* The host, while the session lives: network observations, Pause and      *)
(* Resume, Disconnect. Once it ended the next session starts from Init.    *)

\* UpdateNetworkState up to the netMu unlock: the first observation is the
\* baseline, an unchanged one is dropped, any other starts a new epoch.
UpdateNetworkState(h) ==
    /\ pc # "done" /\ h \notin reporting
    /\ \/ /\ netBaselined = "no"
          /\ netBaselined' = "yes"
          /\ UNCHANGED <<netEpoch, reporting>>
       \/ /\ netBaselined = "yes"
          /\ netEpoch < MaxEpoch
          /\ netEpoch' = netEpoch + 1
          /\ reporting' = reporting \cup {h}
          /\ UNCHANGED netBaselined
    /\ UNCHANGED <<mode, paused, intent, netNotify, pc, outcome, candVars,
                   handledNetEpoch, trigger, ended, healthVars, breakVars>>

\* Mutant: the wake is dropped while a recovery is in flight.
NotifyOnlyWatching(h) ==
    /\ pc # "done" /\ h \in reporting
    /\ reporting' = reporting \ {h}
    /\ netNotify' = IF pc = "watch" THEN 1 ELSE netNotify
    /\ UNCHANGED <<mode, netBaselined, netEpoch, paused, intent, pc, outcome,
                   candVars, handledNetEpoch, trigger, ended, healthVars,
                   breakVars>>

\* ... and its non-blocking send to the live session's netNotify.
Notify(h) ==
    /\ pc # "done" /\ h \in reporting
    /\ reporting' = reporting \ {h}
    /\ netNotify' = 1
    /\ UNCHANGED <<mode, netBaselined, netEpoch, paused, intent, pc, outcome,
                   candVars, handledNetEpoch, trigger, ended, healthVars,
                   breakVars>>

Pause ==
    /\ pc # "done" /\ paused = "no" /\ paused' = "yes"
    /\ UNCHANGED <<mode, netVars, intent, netNotify, pc, outcome, candVars,
                   handledNetEpoch, trigger, ended, healthVars, breakVars>>

Resume ==
    /\ pc # "done" /\ paused = "yes" /\ paused' = "no"
    /\ UNCHANGED <<mode, netVars, intent, netNotify, pc, outcome, candVars,
                   handledNetEpoch, trigger, ended, healthVars, breakVars>>

\* Disconnect marks the connection under s.mu, then cancels its context.
Disconnect ==
    /\ pc # "done"
    /\ \/ intent = "none" /\ intent' = "marked"
       \/ intent = "marked" /\ intent' = "cancelled"
    /\ UNCHANGED <<mode, netVars, paused, netNotify, pc, outcome, candVars,
                   handledNetEpoch, trigger, ended, healthVars, breakVars>>

\* External: the tunnel process exits, or the WSS session ends under it.
TunnelEnds ==
    /\ pc \in {"won", "watch"}
    /\ \/ ended' = ended \cup {"run"}
       \/ via = "wss" /\ ended' = ended \cup {"transport"}
    /\ UNCHANGED <<hostVars, netNotify, pc, outcome, candVars,
                   handledNetEpoch, trigger, healthVars, breakVars>>

-----------------------------------------------------------------------------
(* The supervisor. *)

\* supervise (or the first connect) returns.
Return(how) == pc' = "done" /\ outcome' = how

\* awaitResumed: past the gate, or interrupted by a cancelled context (a wait
\* that a Resume and a cancel both end may report either).
Resumed == paused = "no"

\* Mutant: the wait listens to the resume channel only.
NeverInterrupted == FALSE

Interrupted == Cancelled

\* A trigger ends the watch, unless the user is already disconnecting.
Tripped(t) ==
    IF Stopping THEN Return("clean") /\ UNCHANGED trigger
    ELSE pc' = "held" /\ trigger' = t /\ UNCHANGED outcome

WatchCancelled ==
    /\ pc = "watch" /\ Cancelled
    /\ Return("clean")
    /\ UNCHANGED <<hostVars, netNotify, candVars, handledNetEpoch, trigger,
                   ended, healthVars, breakVars>>

\* <-cur.runDone. Under WSS a dead local process is terminal.
WatchRunDone ==
    /\ pc = "watch" /\ "run" \in ended
    /\ IF via = "wss" /\ ~Stopping
         THEN Return("error") /\ UNCHANGED trigger
         ELSE Tripped("run")
    /\ ended' = ended \ {"run"}
    /\ UNCHANGED <<hostVars, netNotify, candVars, handledNetEpoch,
                   healthVars, breakVars>>

\* <-cur.transportErr.
WatchTransport ==
    /\ pc = "watch" /\ "transport" \in ended
    /\ Tripped("transport")
    /\ ended' = ended \ {"transport"}
    /\ UNCHANGED <<hostVars, netNotify, candVars, handledNetEpoch,
                   healthVars, breakVars>>

\* <-healthFail. A local failure is terminal; under WSS the trigger is the
\* transport's.
WatchHealth ==
    /\ pc = "watch" /\ healthFail # "none"
    /\ IF healthFail = "local" /\ ~Stopping
         THEN Return("error") /\ UNCHANGED trigger
         ELSE Tripped(IF via = "wss" THEN "transport" ELSE "health")
    /\ healthFail' = "none"
    /\ UNCHANGED <<hostVars, netNotify, candVars, handledNetEpoch, ended, hpc,
                   failures, healthKick, sweptAt, breakVars>>

\* Mutant: the epoch is recorded as handled and nothing is checked.
WatchNetworkNoKick ==
    /\ pc = "watch" /\ netNotify = 1
    /\ netNotify' = 0
    /\ handledNetEpoch' = netEpoch
    /\ IF via = "wss" /\ netEpoch # handledNetEpoch
         THEN Tripped("transport")
         ELSE UNCHANGED <<pc, outcome, trigger>>
    /\ UNCHANGED <<hostVars, candVars, ended, healthVars, breakVars>>

\* <-conn.netNotify: an epoch this candidate does not cover retires a WSS
\* session and kicks a health sweep of any other.
WatchNetwork ==
    /\ pc = "watch" /\ netNotify = 1
    /\ netNotify' = 0
    /\ \/ /\ Stopping
          /\ Return("clean")
          /\ UNCHANGED <<handledNetEpoch, trigger, healthKick>>
       \/ /\ ~Stopping /\ netEpoch = handledNetEpoch
          /\ UNCHANGED <<pc, outcome, handledNetEpoch, trigger, healthKick>>
       \/ /\ ~Stopping /\ netEpoch # handledNetEpoch
          /\ handledNetEpoch' = netEpoch
          /\ IF via = "wss"
               THEN Tripped("transport") /\ UNCHANGED healthKick
               ELSE healthKick' = 1 /\ UNCHANGED <<pc, outcome, trigger>>
    /\ UNCHANGED <<hostVars, candVars, ended, hpc, failures, healthFail,
                   sweptAt, breakVars>>

\* After the trigger: hold while paused, then announce the recovery and tear
\* the candidate down; its health loop and its channels die with it.
Held ==
    /\ pc = "held"
    /\ \/ /\ Interrupted \/ (Resumed /\ Stopping)
          /\ Return("clean")
          /\ UNCHANGED <<ended, healthVars>>
       \/ /\ Resumed /\ ~Stopping
          /\ pc' = IF via = "punch" THEN "classify" ELSE "recover"
          /\ ended' = {}
          /\ hpc' = "off" /\ failures' = 0 /\ sweptAt' = 0
          /\ healthKick' = 0 /\ healthFail' = "none"
          /\ UNCHANGED outcome
    /\ UNCHANGED <<hostVars, netNotify, candVars, handledNetEpoch, trigger,
                   breakVars>>

\* onDirectPathLost's new streak: a path that lived punchStablePath clears the
\* old one, then a counted loss adds one.
Streak(stable, counted) ==
    (IF stable THEN 0 ELSE rapidFailures[relay]) + (IF counted THEN 1 ELSE 0)

\* Mutant: the circuit opens one loss too late.
OpensLate(stable, counted) ==
    IF counted /\ Streak(stable, counted) > MaxRapid THEN {relay} ELSE {}

\* onDirectPathLost opens the circuit at the rapid-failure threshold.
Opens(stable, counted) ==
    IF counted /\ Streak(stable, counted) >= MaxRapid THEN {relay} ELSE {}

\* A punched path was lost: is the loss counted, and was the path stable. A
\* health trigger in proxy mode always counts; any other needs a live network.
Classify ==
    /\ pc = "classify"
    /\ \E counted \in BOOLEAN, stable \in BOOLEAN :
          /\ stable => relay \in stamped
          /\ trigger = "health" /\ mode = "proxy" => counted
          /\ counted /\ ~(trigger = "health" /\ mode = "proxy")
               => "alive" \in ProbeResults
          /\ rapidFailures' =
                [rapidFailures EXCEPT ![relay] = Streak(stable, counted)]
          /\ open' = (IF stable THEN open \ {relay} ELSE open)
                        \cup Opens(stable, counted)
          /\ pc' = IF counted THEN "backoff" ELSE "exempt"
    /\ stamped' = stamped \ {relay}
    /\ UNCHANGED <<hostVars, netNotify, outcome, candVars, handledNetEpoch,
                   trigger, ended, healthVars>>

\* sleepFor the breaker's delay.
Backoff ==
    /\ pc = "backoff"
    /\ \/ pc' = "recover" /\ UNCHANGED outcome
       \/ Cancelled /\ Return("clean")
    /\ UNCHANGED <<hostVars, netNotify, candVars, handledNetEpoch, trigger,
                   ended, healthVars, breakVars>>

\* The candidate is torn down and dropped.
NoCandidate == relay' = None /\ via' = "direct" /\ epoch' = 0

\* Head of the recovery loop: only a transport failure waits for the network.
Recover ==
    /\ pc = "recover"
    /\ \/ Interrupted /\ Return("clean") /\ UNCHANGED candVars
       \/ /\ Resumed
          /\ pc' = IF trigger = "transport" THEN "gate" ELSE "ladder"
          /\ NoCandidate
          /\ UNCHANGED outcome
    /\ UNCHANGED <<hostVars, netNotify, handledNetEpoch, trigger, ended,
                   healthVars, breakVars>>

\* waitForNetworkRecovery probes the fronts once past the pause gate; an
\* exempt punch loss returns to the loop head, a transport failure proceeds.
\* A context cancelled by then ends the wait, here or at the select.
Gate ==
    /\ pc \in {"exempt", "gate"}
    /\ \/ Interrupted /\ Return("clean")
       \/ /\ Resumed /\ ~Cancelled
          /\ \/ pc' = IF pc = "gate" THEN "ladder" ELSE "recover"
             \/ pc' = IF pc = "gate" THEN "gatewait" ELSE "exemptwait"
          /\ UNCHANGED outcome
    /\ UNCHANGED <<hostVars, netNotify, candVars, handledNetEpoch, trigger,
                   ended, healthVars, breakVars>>

\* ... and between probes sleeps until its timer, a wake or a cancel.
GateWait ==
    /\ pc \in {"exemptwait", "gatewait"}
    /\ \/ /\ Cancelled /\ Return("clean")
          /\ UNCHANGED netNotify
       \/ /\ pc' = IF pc = "gatewait" THEN "gate" ELSE "exempt"
          /\ netNotify' \in {0, netNotify}
          /\ UNCHANGED outcome
    /\ UNCHANGED <<hostVars, candVars, handledNetEpoch, trigger, ended,
                   healthVars, breakVars>>

-----------------------------------------------------------------------------
(* The ladder, as far as epochs, punching and WSS are concerned. *)

\* attemptDirectCandidate captures the epoch before its first dial.
Attempt(r) ==
    /\ pc = "ladder" /\ ~Cancelled
    /\ relay' = r /\ via' = "direct" /\ epoch' = netEpoch
    /\ pc' = "dial"
    /\ UNCHANGED <<hostVars, netNotify, outcome, handledNetEpoch, trigger,
                   ended, healthVars, breakVars>>

\* maybePunch: a closed circuit may yield a punched path.
MaybePunch ==
    /\ pc = "dial"
    /\ \/ via' = "punch" /\ relay \notin open
       \/ via' = "direct"
    /\ pc' = "start"
    /\ UNCHANGED <<hostVars, netNotify, outcome, relay, epoch,
                   handledNetEpoch, trigger, ended, healthVars, breakVars>>

\* The direct path failed: attemptWSSCandidate for one of the relay's fronts,
\* which desktop TUN mode never uses.
AttemptWSS ==
    /\ pc \in {"dial", "start"} /\ ~Cancelled /\ mode = "proxy"
    /\ via' = "wss" /\ epoch' = netEpoch
    /\ pc' = "start"
    /\ UNCHANGED <<hostVars, netNotify, outcome, relay, handledNetEpoch,
                   trigger, ended, healthVars, breakVars>>

\* The rung fails and the ladder goes on, or its candidate comes up.
RungEnds ==
    /\ \/ /\ pc \in {"dial", "start"} /\ pc' = "ladder"
          /\ NoCandidate
       \/ pc = "start" /\ pc' = "won" /\ UNCHANGED candVars
    /\ UNCHANGED <<hostVars, netNotify, outcome, handledNetEpoch, trigger,
                   ended, healthVars, breakVars>>

\* The fetch or the last rung failed. A recovery from a transport failure goes
\* back to waiting when the network is down; any other ends the session.
LadderFails ==
    /\ pc = "ladder"
    /\ \/ Cancelled /\ Return("clean")
       \/ /\ ~Cancelled /\ trigger = "transport"
          /\ pc' = "recover" /\ UNCHANGED outcome
       \/ ~Cancelled /\ Return("error")
    /\ UNCHANGED <<hostVars, netNotify, candVars, handledNetEpoch, trigger,
                   ended, healthVars, breakVars>>

\* promote bails on a disconnect; otherwise it takes the candidate's epoch as
\* the session's baseline, stamps a punched path, and supervise starts a
\* fresh health loop with fresh channels.
PromoteWith(baseline) ==
    /\ pc = "won"
    /\ trigger' = "none"
    /\ \/ /\ Stopping
          /\ Return("clean")
          /\ ended' = {}
          /\ UNCHANGED <<handledNetEpoch, healthVars, stamped>>
       \/ /\ ~Stopping
          /\ pc' = "watch"
          /\ handledNetEpoch' = baseline
          /\ stamped' = IF via = "punch" THEN stamped \cup {relay} ELSE stamped
          /\ hpc' = "wait" /\ failures' = 0
          /\ healthKick' = 0 /\ healthFail' = "none" /\ sweptAt' = epoch
          /\ UNCHANGED <<outcome, ended>>
    /\ UNCHANGED <<hostVars, netNotify, candVars, rapidFailures, open>>

\* Mutant: the baseline is read at promotion, after the dials.
PromoteCurrentEpoch == PromoteWith(netEpoch)

Promote == PromoteWith(epoch)

-----------------------------------------------------------------------------
(* The health loop of the supervised candidate. *)

\* finalizeConn ends the loop with the session.
HealthStep ==
    /\ pc # "done"
    /\ UNCHANGED <<hostVars, netNotify, pc, outcome, candVars, handledNetEpoch,
                   trigger, ended, breakVars>>

\* The interval elapses, or the supervisor kicks; then the pause gate.
SweepDue ==
    /\ hpc = "wait" /\ hpc' = "ready"
    /\ UNCHANGED <<failures, healthKick, healthFail, sweptAt>>
    /\ HealthStep

KickSweep ==
    /\ hpc = "wait" /\ healthKick = 1
    /\ hpc' = "ready" /\ healthKick' = 0
    /\ UNCHANGED <<failures, healthFail, sweptAt>>
    /\ HealthStep

SweepBegins ==
    /\ hpc = "ready" /\ Resumed
    /\ hpc' = "probe" /\ sweptAt' = netEpoch
    /\ UNCHANGED <<failures, healthKick, healthFail>>
    /\ HealthStep

\* The probe succeeds; fails short of the threshold; fails at it, to be
\* judged by the network gate or, in TUN mode, at once; or fails locally.
SweepEnds ==
    /\ hpc = "probe"
    /\ \/ /\ failures' = 0
          /\ hpc' = "wait" /\ UNCHANGED healthFail
       \/ /\ failures' = failures
          /\ hpc' = "off" /\ healthFail' = "local"
       \/ /\ failures + 1 < Threshold
          /\ failures' = failures + 1
          /\ hpc' = "wait" /\ UNCHANGED healthFail
       \/ /\ failures + 1 >= Threshold
          /\ failures' = Threshold  \* it grows on; only >= Threshold is read
          /\ IF mode = "tun" THEN hpc' = "off" /\ healthFail' = "remote"
                             ELSE hpc' = "alive" /\ UNCHANGED healthFail
    /\ UNCHANGED <<healthKick, sweptAt>>
    /\ HealthStep

\* networkAlive decides between a dead tunnel and a local outage.
HealthGate ==
    /\ hpc = "alive"
    /\ \E net \in ProbeResults :
          IF net = "alive" THEN hpc' = "off" /\ healthFail' = "remote"
                           ELSE hpc' = "wait" /\ UNCHANGED healthFail
    /\ UNCHANGED <<failures, healthKick, sweptAt>>
    /\ HealthStep

\* The loop dies with the candidate's context.
HealthStops ==
    /\ hpc # "off" /\ Cancelled
    /\ hpc' = "off"
    /\ UNCHANGED <<failures, healthKick, healthFail, sweptAt>>
    /\ HealthStep

-----------------------------------------------------------------------------
Supervisor ==
    \/ WatchCancelled \/ WatchRunDone \/ WatchTransport \/ WatchHealth
    \/ WatchNetwork \/ Held \/ Classify \/ Backoff \/ Recover \/ Gate
    \/ GateWait \/ MaybePunch \/ AttemptWSS \/ RungEnds \/ LadderFails
    \/ Promote
    \/ \E r \in Relays : Attempt(r)

Health == KickSweep \/ SweepBegins \/ SweepEnds \/ HealthGate \/ HealthStops

Host ==
    \/ \E h \in Hosts : UpdateNetworkState(h) \/ Notify(h)
    \/ Pause \/ Resume \/ Disconnect \/ TunnelEnds

Next == Supervisor \/ Health \/ SweepDue \/ Host

Spec == Init /\ [][Next]_vars

\* The goroutines run; an UpdateNetworkState call finishes. Nothing is assumed
\* of the health timer, of a Resume, or of the network.
FairSpec ==
    /\ Spec
    /\ WF_vars(Supervisor)
    /\ WF_vars(Health)
    /\ \A h \in Hosts : WF_vars(Notify(h))
=============================================================================

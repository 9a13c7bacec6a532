-------------------------- MODULE SuperviseProofs --------------------------
(* Proofs about the supervise loop, for every number of relays, reporting  *)
(* hosts and epochs, and every threshold.                                  *)
EXTENDS SuperviseProps, TLAPS

\* Every step of the loop, grouped by what it can disturb.
HostSteps ==
    \/ Pause \/ Resume \/ Disconnect \/ TunnelEnds
    \/ KickSweep \/ SweepBegins \/ SweepEnds \/ HealthGate \/ HealthStops
    \/ SweepDue

WatchSteps ==
    WatchCancelled \/ WatchRunDone \/ WatchTransport \/ WatchHealth \/ Held

WaitSteps == Backoff \/ Recover \/ Gate \/ GateWait \/ LadderFails

\* Next is the disjunction of the groups and the steps handled one by one.
LEMMA NextCases ==
    ASSUME [Next]_vars
    PROVE  \/ HostSteps \/ WatchSteps \/ WaitSteps
           \/ WatchNetwork \/ Classify \/ MaybePunch \/ AttemptWSS
           \/ RungEnds \/ Promote \/ UNCHANGED vars
           \/ \E h \in Hosts : UpdateNetworkState(h)
           \/ \E h \in Hosts : Notify(h)
           \/ \E r \in Relays : Attempt(r)
  BY DEF Next, Supervisor, Health, Host, HostSteps, WatchSteps, WaitSteps

\* What one step leaves alone, by group (frame conditions).
LEMMA HostFrame ==
    ASSUME HostSteps
    PROVE  UNCHANGED <<mode, netVars, netNotify, pc, candVars,
                       handledNetEpoch, breakVars>>
  BY DEF HostSteps, Pause, Resume, Disconnect, TunnelEnds, KickSweep,
         SweepBegins, SweepEnds, HealthGate, HealthStops, SweepDue,
         HealthStep, hostVars, netVars, candVars, breakVars

LEMMA WatchFrame ==
    ASSUME WatchSteps
    PROVE  /\ UNCHANGED <<mode, netVars, netNotify, candVars,
                          handledNetEpoch, breakVars>>
           /\ \/ pc' = "done"
              \/ pc = "watch" /\ pc' = "held"
              \/ pc = "held" /\ via = "punch" /\ pc' = "classify"
              \/ pc = "held" /\ pc' = "recover"
  BY DEF WatchSteps, WatchCancelled, WatchRunDone, WatchTransport,
         WatchHealth, Held, Tripped, Return, hostVars, netVars, candVars,
         breakVars

LEMMA WaitFrame ==
    ASSUME WaitSteps
    PROVE  /\ UNCHANGED <<mode, netVars, handledNetEpoch, breakVars>>
           /\ pc' \in {"done", "recover", "gate", "ladder", "gatewait",
                       "exempt", "exemptwait"}
  BY DEF WaitSteps, Backoff, Recover, Gate, GateWait, LadderFails, Return,
         NoCandidate, hostVars, netVars, breakVars

\* Every step keeps the types: a handler stores only values of its own kind.
LEMMA TypeStep ==
    ASSUME TypeOK, BreakerInv, [Next]_vars
    PROVE  TypeOK'
  <1>a. 0 \in Epochs /\ 0 \in Failures /\ Threshold \in Failures
    BY SuperviseAssumption DEF Epochs, Failures
  <1>b. ASSUME NEW n \in Epochs, n < MaxEpoch PROVE n + 1 \in Epochs
    BY <1>b, SuperviseAssumption DEF Epochs
  <1>c. ASSUME NEW n \in Failures, n + 1 < Threshold PROVE n + 1 \in Failures
    BY <1>c, SuperviseAssumption DEF Failures
  <1> USE DEF TypeOK, Points, HealthPoints, Transports, hostVars, netVars,
              candVars, healthVars, breakVars
  <1>1. CASE HostSteps
    <2>1. CASE Pause \/ Resume \/ Disconnect \/ TunnelEnds
      <3>1. CASE Pause
        BY <3>1 DEF Pause
      <3>2. CASE Resume
        BY <3>2 DEF Resume
      <3>3. CASE Disconnect
        BY <3>3 DEF Disconnect
      <3>4. CASE TunnelEnds
        <4>1. ended' \subseteq {"run", "transport"}
          BY <3>4, ZenonT(40) DEF TunnelEnds
        <4> QED BY <3>4, <4>1 DEF TunnelEnds
      <3> QED BY <2>1, <3>1, <3>2, <3>3, <3>4
    <2>2. CASE KickSweep \/ SweepBegins \/ SweepDue \/ HealthGate
               \/ HealthStops
      <3>1. CASE KickSweep
        BY <3>1 DEF KickSweep, HealthStep
      <3>2. CASE SweepBegins
        BY <3>2 DEF SweepBegins, HealthStep
      <3>3. CASE SweepDue
        BY <3>3 DEF SweepDue, HealthStep
      <3>4. CASE HealthGate
        BY <3>4 DEF HealthGate, HealthStep
      <3>5. CASE HealthStops
        BY <3>5 DEF HealthStops, HealthStep
      <3> QED BY <2>2, <3>1, <3>2, <3>3, <3>4, <3>5
    <2>3. CASE SweepEnds
      BY <2>3, <1>a, <1>c DEF SweepEnds, HealthStep
    <2> QED BY <1>1, <2>1, <2>2, <2>3 DEF HostSteps
  <1>2. CASE WatchSteps
    <2>1. CASE WatchCancelled
      BY <2>1 DEF WatchCancelled, Return
    <2>2. CASE WatchRunDone \/ WatchTransport
      <3>1. /\ pc' \in {"done", "held"}
            /\ outcome' \in {"none", "clean", "error"}
            /\ trigger' \in {"none", "run", "transport", "health"}
        BY <2>2 DEF WatchRunDone, WatchTransport, Tripped, Return
      <3>2. /\ ended' \subseteq {"run", "transport"}
            /\ UNCHANGED <<hostVars, netNotify, candVars, handledNetEpoch,
                           healthVars, breakVars>>
        BY <2>2 DEF WatchRunDone, WatchTransport
      <3> QED BY <3>1, <3>2
    <2>3. CASE WatchHealth
      BY <2>3 DEF WatchHealth, Tripped, Return
    <2>4. CASE Held
      <3>1. pc' \in Points /\ outcome' \in {"none", "clean", "error"}
        BY <2>4 DEF Held, Return
      <3>2. /\ hpc' \in HealthPoints /\ failures' \in Failures
            /\ healthKick' \in {0, 1} /\ sweptAt' \in Epochs
            /\ healthFail' \in {"none", "remote", "local"}
            /\ ended' \subseteq {"run", "transport"}
        BY <2>4, <1>a DEF Held
      <3>3. UNCHANGED <<hostVars, netNotify, candVars, handledNetEpoch,
                        trigger, breakVars>>
        BY <2>4 DEF Held
      <3> QED BY <3>1, <3>2, <3>3
    <2> QED BY <1>2, <2>1, <2>2, <2>3, <2>4 DEF WatchSteps
  <1>3. CASE WaitSteps
    <2>1. CASE Backoff \/ Gate \/ LadderFails
      <3>1. pc' \in Points /\ outcome' \in {"none", "clean", "error"}
        BY <2>1 DEF Backoff, Gate, LadderFails, Return
      <3>2. UNCHANGED <<hostVars, netNotify, candVars, handledNetEpoch,
                        trigger, ended, healthVars, breakVars>>
        BY <2>1 DEF Backoff, Gate, LadderFails
      <3> QED BY <3>1, <3>2
    <2>2. CASE Recover
      BY <2>2, <1>a DEF Recover, Return, NoCandidate
    <2>3. CASE GateWait
      BY <2>3 DEF GateWait, Return
    <2> QED BY <1>3, <2>1, <2>2, <2>3 DEF WaitSteps
  <1>4. CASE WatchNetwork
    BY <1>4 DEF WatchNetwork, Tripped, Return
  <1>5. CASE Classify
    <2>1. PICK counted \in BOOLEAN, stable \in BOOLEAN :
            /\ rapidFailures' =
                 [rapidFailures EXCEPT ![relay] = Streak(stable, counted)]
            /\ open' = (IF stable THEN open \ {relay} ELSE open)
                          \cup Opens(stable, counted)
            /\ pc' = IF counted THEN "backoff" ELSE "exempt"
      BY <1>5 DEF Classify
    <2>2. relay \in Relays
      BY <1>5 DEF Classify, BreakerInv
    <2>3. Streak(stable, counted) \in Nat
      BY <2>2 DEF Streak
    <2>4. rapidFailures' \in [Relays -> Nat] /\ open' \subseteq Relays
      BY <2>1, <2>2, <2>3 DEF Opens
    <2> QED BY <1>5, <2>1, <2>4 DEF Classify
  <1>6. CASE MaybePunch \/ AttemptWSS
    BY <1>6 DEF MaybePunch, AttemptWSS
  <1>7. CASE RungEnds
    BY <1>7, <1>a DEF RungEnds, NoCandidate
  <1>8. CASE Promote
    <2>1. relay \in Relays
      BY <1>8 DEF Promote, PromoteWith, BreakerInv, Attempting
    <2>2. stamped' \subseteq Relays /\ handledNetEpoch' \in Epochs
      BY <1>8, <2>1 DEF Promote, PromoteWith
    <2>3. /\ hpc' \in HealthPoints /\ failures' \in Failures
          /\ healthKick' \in {0, 1} /\ healthFail' \in {"none", "remote", "local"}
          /\ sweptAt' \in Epochs
      BY <1>8, <1>a DEF Promote, PromoteWith
    <2>4. /\ pc' \in Points /\ outcome' \in {"none", "clean", "error"}
          /\ trigger' = "none" /\ ended' \subseteq {"run", "transport"}
      BY <1>8 DEF Promote, PromoteWith, Return
    <2>5. UNCHANGED <<hostVars, netNotify, candVars, rapidFailures, open>>
      BY <1>8 DEF Promote, PromoteWith
    <2> QED BY <2>2, <2>3, <2>4, <2>5
  <1>9. CASE UNCHANGED vars
    BY <1>9 DEF vars
  <1>10. ASSUME NEW h \in Hosts, UpdateNetworkState(h) \/ Notify(h)
         PROVE  TypeOK'
    <2>1. netEpoch' \in Epochs /\ netBaselined' \in {"yes", "no"}
      BY <1>10, <1>b DEF UpdateNetworkState, Notify
    <2>2. reporting' \subseteq Hosts /\ netNotify' \in {0, 1}
      BY <1>10 DEF UpdateNetworkState, Notify
    <2>3. UNCHANGED <<mode, paused, intent, pc, outcome, candVars,
                      handledNetEpoch, trigger, ended, healthVars, breakVars>>
      BY <1>10 DEF UpdateNetworkState, Notify
    <2> QED BY <2>1, <2>2, <2>3
  <1>11. ASSUME NEW r \in Relays, Attempt(r)
         PROVE  TypeOK'
    BY <1>11 DEF Attempt
  <1> QED BY <1>1, <1>2, <1>3, <1>4, <1>5, <1>6, <1>7, <1>8, <1>9, <1>10,
             <1>11, NextCases

\* Every step keeps the debt of an unexamined epoch payable.
LEMMA WakeStep ==
    ASSUME TypeOK, WakeInv, [Next]_vars
    PROVE  WakeInv'
  <1> USE DEF WakeInv, NoLostEpoch, Unexamined, WakePending, Attempting
  <1>1. CASE HostSteps
    BY <1>1, HostFrame DEF netVars, candVars
  <1>2. CASE WatchSteps
    BY <1>2, WatchFrame DEF netVars, candVars
  <1>3. CASE WaitSteps
    BY <1>3, WaitFrame
  <1>4. CASE WatchNetwork
    BY <1>4 DEF WatchNetwork, Tripped, Return, hostVars, netVars, candVars
  <1>5. CASE Classify
    BY <1>5 DEF Classify
  <1>6. CASE MaybePunch \/ AttemptWSS
    BY <1>6 DEF MaybePunch, AttemptWSS, hostVars, netVars
  <1>7. CASE RungEnds
    BY <1>7 DEF RungEnds, NoCandidate, hostVars, netVars, candVars
  <1>8. CASE Promote
    BY <1>8 DEF Promote, PromoteWith, Return, hostVars, netVars, candVars
  <1>9. CASE UNCHANGED vars
    BY <1>9 DEF vars, hostVars, netVars, candVars
  <1>10. ASSUME NEW h \in Hosts, UpdateNetworkState(h) \/ Notify(h)
         PROVE  WakeInv'
    BY <1>10 DEF UpdateNetworkState, Notify, candVars, TypeOK
  <1>11. ASSUME NEW r \in Relays, Attempt(r)
         PROVE  WakeInv'
    BY <1>11 DEF Attempt, hostVars, netVars
  <1> QED BY <1>1, <1>2, <1>3, <1>4, <1>5, <1>6, <1>7, <1>8, <1>9, <1>10,
             <1>11, NextCases

\* Classifying a loss is the only step that moves a streak: from a closed
\* circuit it reaches at most the threshold, and opens exactly there.
LEMMA ClassifyStep ==
    ASSUME TypeOK, BreakerInv, Classify
    PROVE  /\ BreakerInv'
           /\ open \subseteq open'
  <1> USE SuperviseAssumption
  <1>1. PICK counted \in BOOLEAN, stable \in BOOLEAN :
          /\ rapidFailures' =
               [rapidFailures EXCEPT ![relay] = Streak(stable, counted)]
          /\ open' = (IF stable THEN open \ {relay} ELSE open)
                        \cup Opens(stable, counted)
          /\ pc' = IF counted THEN "backoff" ELSE "exempt"
    BY DEF Classify
  <1>2. /\ relay \in Relays
        /\ relay \notin open
        /\ \A r \in Relays : /\ rapidFailures[r] \in Nat
                             /\ rapidFailures[r] <= MaxRapid
                             /\ rapidFailures[r] = MaxRapid => r \in open
        /\ rapidFailures \in [Relays -> Nat]
    BY DEF Classify, BreakerInv, CircuitHonoured, TypeOK
  <1>3. /\ Streak(stable, counted) \in Nat
        /\ Streak(stable, counted) <= MaxRapid
        /\ Streak(stable, counted) = MaxRapid
             => Opens(stable, counted) = {relay}
    BY <1>2 DEF Streak, Opens
  <1>4. open \subseteq open'
    BY <1>1, <1>2
  <1>5. \A r \in Relays : /\ rapidFailures'[r] <= MaxRapid
                          /\ rapidFailures'[r] = MaxRapid => r \in open'
    BY <1>1, <1>2, <1>3, <1>4
  <1> QED BY <1>1, <1>4, <1>5 DEF BreakerInv, CircuitHonoured, Attempting

\* Every step keeps the breaker's invariant.
LEMMA BreakerStep ==
    ASSUME TypeOK, BreakerInv, [Next]_vars
    PROVE  BreakerInv'
  <1> USE DEF BreakerInv, CircuitHonoured, Attempting
  <1>1. CASE HostSteps
    BY <1>1, HostFrame DEF candVars, breakVars
  <1>2. CASE WatchSteps
    BY <1>2, WatchFrame DEF candVars, breakVars
  <1>3. CASE WaitSteps
    BY <1>3, WaitFrame DEF breakVars
  <1>4. CASE WatchNetwork
    BY <1>4 DEF WatchNetwork, Tripped, Return, candVars, breakVars
  <1>5. CASE Classify
    BY <1>5, ClassifyStep
  <1>6. CASE MaybePunch \/ AttemptWSS
    BY <1>6 DEF MaybePunch, AttemptWSS, breakVars
  <1>7. CASE RungEnds
    BY <1>7 DEF RungEnds, NoCandidate, candVars, breakVars
  <1>8. CASE Promote
    BY <1>8 DEF Promote, PromoteWith, Return, candVars
  <1>9. CASE UNCHANGED vars
    BY <1>9 DEF vars, candVars, breakVars
  <1>10. ASSUME NEW h \in Hosts, UpdateNetworkState(h) \/ Notify(h)
         PROVE  BreakerInv'
    BY <1>10 DEF UpdateNetworkState, Notify, candVars, breakVars
  <1>11. ASSUME NEW r \in Relays, Attempt(r)
         PROVE  BreakerInv'
    BY <1>11 DEF Attempt, breakVars
  <1> QED BY <1>1, <1>2, <1>3, <1>4, <1>5, <1>6, <1>7, <1>8, <1>9, <1>10,
             <1>11, NextCases

\* The invariant holds initially and is kept by every step.
THEOREM SuperviseInductive == Spec => []SuperviseInv
  <1>1. Init => SuperviseInv
    BY SuperviseAssumption
       DEF Init, SuperviseInv, TypeOK, Epochs, Failures, WakeInv, BreakerInv, NoLostEpoch,
           CircuitHonoured, Attempting, Points, HealthPoints, Transports
  <1>2. SuperviseInv /\ [Next]_vars => SuperviseInv'
    BY TypeStep, WakeStep, BreakerStep DEF SuperviseInv
  <1> QED BY <1>1, <1>2, PTL DEF Spec

\* The supervisor's state keeps its types.
THEOREM SuperviseTypeCorrect == Spec => []TypeOK
  <1>1. SuperviseInv => TypeOK
    BY DEF SuperviseInv
  <1> QED BY <1>1, SuperviseInductive, PTL

\* No network epoch is lost between UpdateNetworkState, a candidate's dial,
\* its promotion, and the recovery gate that drains the same channel.
THEOREM NoLostEpochProved == Spec => []NoLostEpoch
  <1>1. SuperviseInv => NoLostEpoch
    BY DEF SuperviseInv, WakeInv
  <1> QED BY <1>1, SuperviseInductive, PTL

\* maybePunch never punches through an open circuit, and no relay's streak of
\* rapid losses passes the threshold.
THEOREM CircuitHonouredProved == Spec => []CircuitHonoured
  <1>1. SuperviseInv => CircuitHonoured
    BY DEF SuperviseInv, BreakerInv
  <1> QED BY <1>1, SuperviseInductive, PTL

\* A circuit, once open, stays open for the connection: onDirectPathLost's
\* reset of open is never reached with the circuit open.
THEOREM CircuitStaysOpenProved == Spec => CircuitStaysOpen
  <1>1. SuperviseInv /\ [Next]_vars => [open \subseteq open']_vars
    <2> SUFFICES ASSUME SuperviseInv, [Next]_vars
                 PROVE  open \subseteq open'
      OBVIOUS
    <2>1. CASE HostSteps \/ WatchSteps \/ WaitSteps
      BY <2>1, HostFrame, WatchFrame, WaitFrame DEF breakVars
    <2>2. CASE Classify
      BY <2>2, ClassifyStep DEF SuperviseInv
    <2>3. CASE ~(HostSteps \/ WatchSteps \/ WaitSteps \/ Classify)
      BY <2>3, NextCases
         DEF WatchNetwork, MaybePunch, AttemptWSS, RungEnds, Promote,
             PromoteWith, UpdateNetworkState, Notify, Attempt, vars,
             breakVars
    <2> QED BY <2>1, <2>2, <2>3
  <1> QED BY <1>1, SuperviseInductive, PTL DEF Spec, CircuitStaysOpen
=============================================================================

------------------------------ MODULE RelayNet ------------------------------
(***************************************************************************)
(* Relay, hub and broker together.  A relay reaches the directory through  *)
(* a hub session or, when it is reachable, by registering itself, both     *)
(* under the id derived from its identity key: a relay that changes mode,  *)
(* or reconnects before its old session is known dead, competes with its   *)
(* own past for the row.                                                   *)
(***************************************************************************)
EXTENDS RelayNode

Supervisor ==
    \/ runSession \/ Resolved \/ StartFails \/ Backoff \/ Join
    \/ Enrolled \/ DirectTick \/ DirectBeaten \/ Renewed
SessionEnds == DirectStopped \/ DirectBroken \/ HostedEnds
Client ==
    \/ Dial \/ DialFails \/ OnRegistered \/ ConnectionLost \/ Reconnect

\* The hub notices that the relay's end is gone: a write fails, the connection
\* closes or yamux's keepalive runs out.
HubNotices(s) ==
    /\ IF conn # s THEN UNCHANGED luck ELSE GoesWrong
    /\ SessionCloses(s) \/ AckFails(s)

\* What the steps of hub and broker leave alone.
AtHub    == UNCHANGED nodeVars
AtBroker == UNCHANGED <<hubVars, nodeVars>>

Next ==
    \/ Start \/ Stop \/ UpdateConfig \/ XrayDies \/ watchForModeChange
    \/ Supervisor \/ SessionEnds \/ Client
    \/ AtHub /\ \E s \in Sess : HubStep(s) \/ HubNotices(s)
    \/ AtBroker /\ DirectoryNext

\* Goroutines are scheduled, tickers tick, requests are served or time out, and
\* a connection whose other end is gone is noticed.  A kept unit leaves its window
\* by the clock, whether or not a request waits for it then.  Nobody has to come,
\* go or fail.
Fairness ==
    /\ WF_vars(Supervisor) /\ WF_vars(SessionEnds) /\ WF_vars(Client)
    /\ \A s \in Sess : WF_vars(AtHub /\ HubStep(s)) /\ WF_vars(AtHub /\ HubNotices(s))
    /\ WF_vars(AtBroker /\ PruneUnattended)
    /\ SF_vars(AtBroker /\ \E a \in Sources : UnitExpires(a))
    /\ \A c \in Callers : WF_vars(AtBroker /\ Handler(c))

Spec == Init /\ [][Next]_vars /\ Fairness
=============================================================================

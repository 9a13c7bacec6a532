------------------------------- MODULE Access -------------------------------
(***************************************************************************)
(* The access path as a whole: a connecting client, the broker that issues *)
(* tickets, the relay's WSS sidecar with its replay journal, and the hub   *)
(* that coordinates punches.                                               *)
(***************************************************************************)
EXTENDS Ladder

vars == <<now, luck, claims, replayVars, sidecarVars, cli, punchVars, ladderVars>>

Init ==
    /\ EnvInit /\ TicketInit /\ ReplayInit /\ SidecarInit /\ ClientInit
    /\ PunchInit /\ LadderInit

\* What the steps of each party leave alone.
AtRelay  == UNCHANGED <<now, claims, cli, punchVars, ladderVars>>
AtWatch  == UNCHANGED <<now, claims, punchVars, ladderVars>>
AtHub    == UNCHANGED <<now, claims, replayVars, sidecarVars, cli, ladderVars>>
AtClient == UNCHANGED <<now, replayVars, hs, slots, grants>>

\* The sidecar process and the front before it.
Serving == AtRelay /\ ((\E h \in Handlers : Handshake(h) \/ Session(h)) \/ Restart)
Relayed == Serving \/ (AtRelay /\ (Crash \/ \E t \in Tickets : Repeat(t)))

\* The client's end of a WSS session.
Watched == AtWatch /\ (SessionEnds \/ PathBreaks)

\* Punches, their coordinator and the relay's connection to it.
Punched ==
    /\ AtHub
    /\ \/ Smooth /\ (PunchStep \/ HubBack)
       \/ GoesWrong /\ (HubLost \/ RelayStops)

\* Only tickets tell the time, so it starts with the first of them.
Passing ==
    /\ Tick /\ Issued # {}
    /\ UNCHANGED <<luck, claims, replayVars, sidecarVars, cli, punchVars, ladderVars>>

Connecting == AtClient /\ (fetchCandidates \/ LadderStep \/ Cancelled)

\* The pages of the app, before a connect: what they do in its course is refused or
\* changes nothing of it.
Idling ==
    /\ lad.at = "idle" /\ PanelStep
    /\ UNCHANGED <<now, luck, claims, replayVars, sidecarVars, cli, punchVars>>
    /\ UNCHANGED <<roster, race, lad, asking, held, retryUsed, blamed>>

Next == Idling \/ Relayed \/ Watched \/ Punched \/ Passing \/ Connecting

\* What goes on by itself: the sidecar's handlers and timers and the service manager
\* that restarts it, the client's watcher, punches by their deadlines, the ladder.
Progress ==
    \/ Serving \/ (AtWatch /\ SessionEnds)
    \/ (AtHub /\ Smooth /\ PunchStep) \/ (AtClient /\ LadderStep)

\* Not everything stops for ever while some of it can go on.
Fairness == WF_vars(Progress)

Spec == Init /\ [][Next]_vars /\ Fairness
=============================================================================

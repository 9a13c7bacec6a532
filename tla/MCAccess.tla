------------------------------ MODULE MCAccess ------------------------------
(* Access for TLC: a volunteer relay that can be punched, a foundation relay behind
   a front, which only gets onto a page by reservation, and one that is not usable. *)
EXTENDS AccessProps

CONSTANTS vol, fdn, plain, stale, f1, t1, t2, h1, h2, p1, s1, s2, cf, df

Volunteer(rank) ==
    [class |-> "volunteer", transport |-> "tunnel", exit |-> "direct", port |-> 8443,
     fronts |-> <<>>, canonical |-> TRUE, beat |-> 0, v6 |-> FALSE, rank |-> rank,
     leased |-> TRUE, identity |-> TRUE, vision |-> TRUE, complete |-> TRUE, punch |-> FALSE,
     maxSessions |-> 1, maxMbps |-> 10, host |-> [literal |-> TRUE, addr |-> <<"relay", rank>>]]

MCDesc ==
    (vol :> [Volunteer(1) EXCEPT !.punch = TRUE, !.beat = 1]) @@
    (plain :> [Volunteer(2) EXCEPT !.maxMbps = 5]) @@
    (fdn :> [Volunteer(3) EXCEPT !.class = "foundation", !.transport = "direct",
                                 !.port = 443, !.fronts = <<f1>>]) @@
    (stale :> [Volunteer(4) EXCEPT !.exit = "dedicated"])

\* What may be known of a relay: nothing; failures, two of them lately; more sessions
\* than it has room for, and that they went well; sessions that ended or fell silent;
\* a slow path and a speed test; speed tests that score alike on relays of 10 and of 5
\* Mbit/s, of one that fails and of one that works.
Report(kind, at, sess) == [kind |-> kind, at |-> at, sess |-> sess]
Attempt(kind, at, ms) ==
    [kind |-> kind, at |-> at, sess |-> 0, tcp |-> ms, probe |-> ms]
SpeedTest(at, ms, rate) ==
    [kind |-> "speed", at |-> at, sess |-> 0, ttfb |-> ms, mbps |-> rate]
MCHistories ==
    {<<>>,
     <<Attempt("failed", 4, 0), Attempt("failed", 8, 0), Attempt("failed", 9, 0)>>,
     <<Attempt("succeeded", 7, 0), Attempt("succeeded", 8, 0)>>
        \o [i \in 1..3 |-> Report("heartbeat", 9, i)],
     <<Report("heartbeat", 6, 1), Report("heartbeat", 8, 2), Report("ended", 8, 2),
       Report("heartbeat", 8, 2), Report("heartbeat", 9, 3), Attempt("succeeded", 9, 900)>>,
     <<SpeedTest(9, 300, 8), Attempt("failed", 9, 0)>>}
    \cup {<<SpeedTest(8, 300, rate)>> \o [i \in 1..2 |-> Attempt(kind, 9, 0)] :
            rate \in {4, 8}, kind \in {"succeeded", "failed"}}

MCRosters == {{vol, plain}, {fdn, plain, stale}, {stale}}
MCServerLists == {<<"google">>, <<"google", "name">>}
MCDefaults == <<cf, df>>
=============================================================================

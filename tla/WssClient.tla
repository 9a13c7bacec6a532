----------------------------- MODULE WssClient -----------------------------
(***************************************************************************)
(* The client end of a WSS session (wsscore/client.go, sessionend.go): the *)
(* handshake with a ticket, and why the session ended.                     *)
(***************************************************************************)
EXTENDS Sidecar

VARIABLE cli   \* the client object: "none", "open" or "ended", its peer and end

NoClient == [at |-> "none", h |-> None, end |-> "none"]

ClientInit == cli = NoClient

\* The listener is bound and the handshake is under way through front f.
DialClient(t, f) ==
    /\ post' = [post EXCEPT ![t] = [n |-> @.n + 1, via |-> f]]
    /\ dial' = [tk |-> t, answer |-> None]
    /\ UNCHANGED <<hs, slots, link, grants, cli, replayVars>>

\* The upgrade arrived: multiplexer, lifetime and watcher are set up.
Dialed ==
    /\ dial.answer \in Handlers
    /\ cli' = [at |-> "open", h |-> dial.answer, end |-> "none"]
    /\ dial' = NoDial /\ UNCHANGED <<hs, slots, link, post, grants, replayVars>>

Underway == \/ post[dial.tk].n > 0
            \/ \E h \in Handlers : hs[h].tk = dial.tk /\ hs[h].at \in {"check", "sync"}

\* The client's end of its connection is closed.
Unheard == [h \in Handlers |-> IF cli.h = h \/ dial.answer = h
                               THEN IF link[h] = "open" THEN "gone" ELSE "none"
                               ELSE link[h]]

\* Mutant: a handshake that gets no answer is waited for without end.
DialFailsUntimed ==
    /\ dial.tk # None
    /\ \/ dial.answer = "refused" /\ Smooth
       \/ dial.answer # "refused" /\ GoesWrong
    /\ dial' = NoDial /\ link' = Unheard
    /\ UNCHANGED <<hs, slots, post, grants, cli, replayVars>>

\* The handshake is refused, breaks, or takes too long.
DialFails ==
    /\ dial.tk # None
    /\ \/ dial.answer = "refused" /\ Smooth
       \/ dial.answer = None /\ ~Underway /\ Smooth
       \/ dial.answer # "refused" /\ GoesWrong
    /\ dial' = NoDial /\ link' = Unheard
    /\ UNCHANGED <<hs, slots, post, grants, cli, replayVars>>

\* The first reason recorded is the one that stays.
markEnd(reason) == IF cli.end = "none" THEN reason ELSE cli.end

\* What Read saw of the peer's close frame: 1000, or nothing (0) if none was sent or
\* a failing write closed the connection before.
RemoteCloseCode(l) == IF l = "closed" THEN {0, 1000} ELSE {0}

sessionEndForCloseCode(code) ==
    IF code \in {1000, 1001, 1005, 1012, 1013} THEN "remote" ELSE "transport"

Graceful(end) == end \in {"local", "idle", "lifetime", "remote"}

\* closeWith: the reason is recorded, then everything is closed.
closeWith(reason) ==
    /\ cli' = [at |-> "ended", h |-> None, end |-> markEnd(reason)]
    /\ link' = Unheard /\ UNCHANGED <<hs, slots, post, dial, grants, replayVars>>

\* The watcher: the lifetime is over, or the multiplexer stopped.
SessionEnds ==
    /\ cli.at = "open" /\ Smooth
    /\ IF link[cli.h] = "open" THEN closeWith("lifetime")
       ELSE \E code \in RemoteCloseCode(link[cli.h]) : closeWith(sessionEndForCloseCode(code))

\* The path breaks without a word to either end.
PathBreaks ==
    /\ cli.at = "open" /\ link[cli.h] = "open" /\ GoesWrong
    /\ closeWith(sessionEndForCloseCode(0))

\* Close by the engine.  A handshake still under way is abandoned.
Close ==
    /\ cli' = NoClient /\ dial' = NoDial /\ link' = Unheard
    /\ UNCHANGED <<hs, slots, post, grants, replayVars>>

\* Serve has returned and the engine did not close the session itself.
transportErr == cli.at = "ended"
=============================================================================

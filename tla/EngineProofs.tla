---------------------------- MODULE EngineProofs ----------------------------
(* The properties of EngineProps, for every set of connections and callers
   and every choice of host requests and failures. *)
EXTENDS EngineInv, TLAPS

-----------------------------------------------------------------------------
(* Types, references and connectMu: the part of EngineInv that stands alone *)

\* Every step of the engine keeps its state well typed.
LEMMA TypeStep == TypeOK /\ RefInv /\ [Next]_vars => TypeOK'
  <1> SUFFICES ASSUME TypeOK, RefInv, [Next]_vars PROVE TypeOK'
    OBVIOUS
  <1>. USE ConstantsAssumption
       DEF TypeOK, RefInv, callerVars, flagVars, runVars, proxyVars, osVars,
           Settings, Modes, Statuses, Methods, Points, FlowPoints,
           FinalPoints, CallerPoints
  <1>1. CASE Start
    BY <1>1 DEF Start, RestoreOK, RestoreFails
  <1>2. CASE StartForget
    BY <1>2 DEF StartForget, ClearProxySnapshot
  <1>3. CASE Crash
    BY <1>3 DEF Crash, Die
  <1>4. CASE HandleProxyClear
    BY <1>4 DEF HandleProxyClear
  <1>5. ASSUME NEW k \in Callers, NEW o \in Ops \cap Methods, Call(k, o)
       PROVE  TypeOK'
    BY <1>5 DEF Call, CGoto
  <1>6. ASSUME NEW k \in Callers, NEW m \in Modes, SetMode(k, m)
       PROVE  TypeOK'
    BY <1>6 DEF SetMode, Return, CGoto
  <1>7. ASSUME NEW k \in Callers, NEW c \in Conns, Install(k, c)
       PROVE  TypeOK'
    BY <1>7 DEF Install, Stay, CGoto, Goto
  <1>8. ASSUME NEW k \in Callers, Acquire(k) PROVE TypeOK'
    BY <1>8 DEF Acquire, CGoto
  <1>9. ASSUME NEW k \in Callers, Disconnect(k) PROVE TypeOK'
    BY <1>9 DEF Disconnect, Return, Stay, CGoto
  <1>10. ASSUME NEW k \in Callers, Shutdown(k) PROVE TypeOK'
    BY <1>10 DEF Shutdown, Return, Stay, CGoto
  <1>11. ASSUME NEW k \in Callers, TeardownMark(k) PROVE TypeOK'
    BY <1>11 DEF TeardownMark, Return, Stay, CGoto
  <1>12. ASSUME NEW k \in Callers, Cancel(k) PROVE TypeOK'
    BY <1>12 DEF Cancel, Return, Stay, CGoto
  <1>13. ASSUME NEW k \in Callers, AwaitDone(k) PROVE TypeOK'
    BY <1>13 DEF AwaitDone, Return, Stay, CGoto
  <1>14. ASSUME NEW k \in Callers, Launch(k) PROVE TypeOK'
    BY <1>14 DEF Launch, Return, CGoto, Goto
  <1>15. ASSUME NEW k \in Callers, Exit(k) PROVE TypeOK'
    BY <1>15 DEF Exit, Die
  <1>16. ASSUME NEW c \in Conns, Prepare(c) PROVE TypeOK'
    BY <1>16 DEF Prepare, End, Goto
  <1>17. ASSUME NEW c \in Conns, BeginSession(c) PROVE TypeOK'
    BY <1>17 DEF BeginSession, Goto
  <1>18. ASSUME NEW c \in Conns, FetchCandidates(c) PROVE TypeOK'
    BY <1>18 DEF FetchCandidates, End, Goto
  <1>19. ASSUME NEW c \in Conns, StartCandidate(c) PROVE TypeOK'
    BY <1>19 DEF StartCandidate, Goto
  <1>20. ASSUME NEW c \in Conns, ProbeCandidate(c) PROVE TypeOK'
    BY <1>20 DEF ProbeCandidate, Goto
  <1>21. ASSUME NEW c \in Conns, LadderEnds(c) PROVE TypeOK'
    BY <1>21 DEF LadderEnds, End, Goto
  <1>22. ASSUME NEW c \in Conns, Promote(c) PROVE TypeOK'
    BY <1>22 DEF Promote, Goto
  <1>23. ASSUME NEW c \in Conns, Bail(c) PROVE TypeOK'
    BY <1>23 DEF Bail, End, Goto
  <1>24. ASSUME NEW c \in Conns, ApplyProxy(c) PROVE TypeOK'
    BY <1>24 DEF ApplyProxy, Goto
  <1>25. ASSUME NEW c \in Conns, ApplySave(c) PROVE TypeOK'
    BY <1>25 DEF ApplySave, SaveProxySnapshot, Goto
  <1>26. ASSUME NEW c \in Conns, ApplySet(c) PROVE TypeOK'
    BY <1>26 DEF ApplySet, SetOK, SetFails, Goto
  <1>27. ASSUME NEW c \in Conns, ApplyUndo(c) PROVE TypeOK'
    BY <1>27 DEF ApplyUndo, RestoreOK, RestoreFails, Goto
  <1>28. ASSUME NEW c \in Conns, ApplyUnsave(c) PROVE TypeOK'
    BY <1>28 DEF ApplyUnsave, ClearProxySnapshot, Goto
  <1>29. ASSUME NEW c \in Conns, WatchCancelled(c) PROVE TypeOK'
    BY <1>29 DEF WatchCancelled, End, Goto
  <1>30. ASSUME NEW c \in Conns, Trigger(c) PROVE TypeOK'
    BY <1>30 DEF Trigger, End, Goto
  <1>31. ASSUME NEW c \in Conns, Tripped(c) PROVE TypeOK'
    BY <1>31 DEF Tripped, End, Goto
  <1>32. ASSUME NEW c \in Conns, Announce(c) PROVE TypeOK'
    BY <1>32 DEF Announce, Goto
  <1>33. ASSUME NEW c \in Conns, Drop(c) PROVE TypeOK'
    BY <1>33 DEF Drop, Goto
  <1>34. ASSUME NEW c \in Conns, Deactivate(c) PROVE TypeOK'
    BY <1>34 DEF Deactivate, Goto
  <1>35. ASSUME NEW c \in Conns, Release(c) PROVE TypeOK'
    BY <1>35 DEF Release, ReleaseProxy, RestoreOK, RestoreFails, Goto
  <1>36. ASSUME NEW c \in Conns, Reladder(c) PROVE TypeOK'
    BY <1>36 DEF Reladder, End, Goto
  <1>37. ASSUME NEW c \in Conns, Finalize(c) PROVE TypeOK'
    BY <1>37 DEF Finalize, Goto
  <1>38. ASSUME NEW c \in Conns, CleanupDetach(c) PROVE TypeOK'
    BY <1>38 DEF CleanupDetach, Goto
  <1>39. ASSUME NEW c \in Conns, CleanupReap(c) PROVE TypeOK'
    BY <1>39 DEF CleanupReap, Goto
  <1>40. ASSUME NEW c \in Conns, CleanupRestore(c) PROVE TypeOK'
    BY <1>40 DEF CleanupRestore, ReleaseProxy, RestoreOK, RestoreFails, Goto
  <1>41. ASSUME NEW c \in Conns, CleanupForget(c) PROVE TypeOK'
    BY <1>41 DEF CleanupForget, ClearProxySnapshot, Goto
  <1>42. ASSUME NEW c \in Conns, SampleIntent(c) PROVE TypeOK'
    BY <1>42 DEF SampleIntent, Goto
  <1>43. ASSUME NEW c \in Conns, EmitTerminal(c) PROVE TypeOK'
    BY <1>43 DEF EmitTerminal, Goto
  <1>44. ASSUME NEW c \in Conns, TerminalFlush(c) PROVE TypeOK'
    BY <1>44 DEF TerminalFlush, Goto
  <1>45. ASSUME NEW c \in Conns, ClearConn(c) PROVE TypeOK'
    BY <1>45 DEF ClearConn, Goto
  <1>46. ASSUME NEW c \in Conns, CloseDone(c) PROVE TypeOK'
    BY <1>46 DEF CloseDone, Goto
  <1>47. CASE UNCHANGED vars
    BY <1>47 DEF vars
  <1>. HIDE DEF TypeOK, Modes, Methods
  <1>. QED
    BY <1>1, <1>2, <1>3, <1>4, <1>5, <1>6, <1>7, <1>8, <1>9, <1>10, <1>11,
       <1>12, <1>13, <1>14, <1>15, <1>16, <1>17, <1>18, <1>19, <1>20,
       <1>21, <1>22, <1>23, <1>24, <1>25, <1>26, <1>27, <1>28, <1>29,
       <1>30, <1>31, <1>32, <1>33, <1>34, <1>35, <1>36, <1>37, <1>38,
       <1>39, <1>40, <1>41, <1>42, <1>43, <1>44, <1>45, <1>46, <1>47
       DEF Next, Process, Method, RunConnect, ConnectFlow, Supervise,
           FinalizeConn

\* No step leaves a caller or a restore without the object it will use.
LEMMA RefStep == TypeOK /\ RefInv /\ [Next]_vars => RefInv'
  <1> SUFFICES ASSUME TypeOK, RefInv, [Next]_vars PROVE RefInv'
    OBVIOUS
  <1>. USE ConstantsAssumption
       DEF TypeOK, RefInv, callerVars, flagVars, runVars, proxyVars, osVars,
           Settings
  <1>1. CASE Start
    BY <1>1 DEF Start, RestoreOK, RestoreFails
  <1>2. CASE StartForget
    BY <1>2 DEF StartForget, ClearProxySnapshot
  <1>3. CASE Crash
    BY <1>3 DEF Crash, Die
  <1>4. CASE HandleProxyClear
    BY <1>4 DEF HandleProxyClear
  <1>5. ASSUME NEW k \in Callers, NEW o \in Ops \cap Methods, Call(k, o)
       PROVE  RefInv'
    BY <1>5 DEF Call, CGoto
  <1>6. ASSUME NEW k \in Callers, NEW m \in Modes, SetMode(k, m)
       PROVE  RefInv'
    BY <1>6 DEF SetMode, Return, CGoto
  <1>7. ASSUME NEW k \in Callers, NEW c \in Conns, Install(k, c)
       PROVE  RefInv'
    BY <1>7 DEF Install, Stay, CGoto, Goto
  <1>8. ASSUME NEW k \in Callers, Acquire(k) PROVE RefInv'
    BY <1>8 DEF Acquire, CGoto
  <1>9. ASSUME NEW k \in Callers, Disconnect(k) PROVE RefInv'
    BY <1>9 DEF Disconnect, Return, Stay, CGoto
  <1>10. ASSUME NEW k \in Callers, Shutdown(k) PROVE RefInv'
    BY <1>10 DEF Shutdown, Return, Stay, CGoto
  <1>11. ASSUME NEW k \in Callers, TeardownMark(k) PROVE RefInv'
    BY <1>11 DEF TeardownMark, Return, Stay, CGoto
  <1>12. ASSUME NEW k \in Callers, Cancel(k) PROVE RefInv'
    BY <1>12 DEF Cancel, Return, Stay, CGoto
  <1>13. ASSUME NEW k \in Callers, AwaitDone(k) PROVE RefInv'
    BY <1>13 DEF AwaitDone, Return, Stay, CGoto
  <1>14. ASSUME NEW k \in Callers, Launch(k) PROVE RefInv'
    BY <1>14 DEF Launch, Return, CGoto, Goto
  <1>15. ASSUME NEW k \in Callers, Exit(k) PROVE RefInv'
    BY <1>15 DEF Exit, Die
  <1>16. ASSUME NEW c \in Conns, Prepare(c) PROVE RefInv'
    BY <1>16 DEF Prepare, End, Goto
  <1>17. ASSUME NEW c \in Conns, BeginSession(c) PROVE RefInv'
    BY <1>17 DEF BeginSession, Goto
  <1>18. ASSUME NEW c \in Conns, FetchCandidates(c) PROVE RefInv'
    BY <1>18 DEF FetchCandidates, End, Goto
  <1>19. ASSUME NEW c \in Conns, StartCandidate(c) PROVE RefInv'
    BY <1>19 DEF StartCandidate, Goto
  <1>20. ASSUME NEW c \in Conns, ProbeCandidate(c) PROVE RefInv'
    BY <1>20 DEF ProbeCandidate, Goto
  <1>21. ASSUME NEW c \in Conns, LadderEnds(c) PROVE RefInv'
    BY <1>21 DEF LadderEnds, End, Goto
  <1>22. ASSUME NEW c \in Conns, Promote(c) PROVE RefInv'
    BY <1>22 DEF Promote, Goto
  <1>23. ASSUME NEW c \in Conns, Bail(c) PROVE RefInv'
    BY <1>23 DEF Bail, End, Goto
  <1>24. ASSUME NEW c \in Conns, ApplyProxy(c) PROVE RefInv'
    BY <1>24 DEF ApplyProxy, Goto
  <1>25. ASSUME NEW c \in Conns, ApplySave(c) PROVE RefInv'
    BY <1>25 DEF ApplySave, SaveProxySnapshot, Goto
  <1>26. ASSUME NEW c \in Conns, ApplySet(c) PROVE RefInv'
    BY <1>26 DEF ApplySet, SetOK, SetFails, Goto
  <1>27. ASSUME NEW c \in Conns, ApplyUndo(c) PROVE RefInv'
    BY <1>27 DEF ApplyUndo, RestoreOK, RestoreFails, Goto
  <1>28. ASSUME NEW c \in Conns, ApplyUnsave(c) PROVE RefInv'
    BY <1>28 DEF ApplyUnsave, ClearProxySnapshot, Goto
  <1>29. ASSUME NEW c \in Conns, WatchCancelled(c) PROVE RefInv'
    BY <1>29 DEF WatchCancelled, End, Goto
  <1>30. ASSUME NEW c \in Conns, Trigger(c) PROVE RefInv'
    BY <1>30 DEF Trigger, End, Goto
  <1>31. ASSUME NEW c \in Conns, Tripped(c) PROVE RefInv'
    BY <1>31 DEF Tripped, End, Goto
  <1>32. ASSUME NEW c \in Conns, Announce(c) PROVE RefInv'
    BY <1>32 DEF Announce, Goto
  <1>33. ASSUME NEW c \in Conns, Drop(c) PROVE RefInv'
    BY <1>33 DEF Drop, Goto
  <1>34. ASSUME NEW c \in Conns, Deactivate(c) PROVE RefInv'
    BY <1>34 DEF Deactivate, Goto
  <1>35. ASSUME NEW c \in Conns, Release(c) PROVE RefInv'
    BY <1>35 DEF Release, ReleaseProxy, RestoreOK, RestoreFails, Goto
  <1>36. ASSUME NEW c \in Conns, Reladder(c) PROVE RefInv'
    BY <1>36 DEF Reladder, End, Goto
  <1>37. ASSUME NEW c \in Conns, Finalize(c) PROVE RefInv'
    BY <1>37 DEF Finalize, Goto
  <1>38. ASSUME NEW c \in Conns, CleanupDetach(c) PROVE RefInv'
    BY <1>38 DEF CleanupDetach, Goto
  <1>39. ASSUME NEW c \in Conns, CleanupReap(c) PROVE RefInv'
    BY <1>39 DEF CleanupReap, Goto
  <1>40. ASSUME NEW c \in Conns, CleanupRestore(c) PROVE RefInv'
    BY <1>40 DEF CleanupRestore, ReleaseProxy, RestoreOK, RestoreFails, Goto
  <1>41. ASSUME NEW c \in Conns, CleanupForget(c) PROVE RefInv'
    BY <1>41 DEF CleanupForget, ClearProxySnapshot, Goto
  <1>42. ASSUME NEW c \in Conns, SampleIntent(c) PROVE RefInv'
    BY <1>42 DEF SampleIntent, Goto
  <1>43. ASSUME NEW c \in Conns, EmitTerminal(c) PROVE RefInv'
    BY <1>43 DEF EmitTerminal, Goto
  <1>44. ASSUME NEW c \in Conns, TerminalFlush(c) PROVE RefInv'
    BY <1>44 DEF TerminalFlush, Goto
  <1>45. ASSUME NEW c \in Conns, ClearConn(c) PROVE RefInv'
    BY <1>45 DEF ClearConn, Goto
  <1>46. ASSUME NEW c \in Conns, CloseDone(c) PROVE RefInv'
    BY <1>46 DEF CloseDone, Goto
  <1>47. CASE UNCHANGED vars
    BY <1>47 DEF vars
  <1>. HIDE DEF TypeOK, RefInv
  <1>. QED
    BY <1>1, <1>2, <1>3, <1>4, <1>5, <1>6, <1>7, <1>8, <1>9, <1>10, <1>11,
       <1>12, <1>13, <1>14, <1>15, <1>16, <1>17, <1>18, <1>19, <1>20,
       <1>21, <1>22, <1>23, <1>24, <1>25, <1>26, <1>27, <1>28, <1>29,
       <1>30, <1>31, <1>32, <1>33, <1>34, <1>35, <1>36, <1>37, <1>38,
       <1>39, <1>40, <1>41, <1>42, <1>43, <1>44, <1>45, <1>46, <1>47
       DEF Next, Process, Method, RunConnect, ConnectFlow, Supervise,
           FinalizeConn

\* A connection's goroutine goes on, and leaves locks and callers alone.
GoesOn(c) ==
    /\ pc[c] \in FlowPoints \cup FinalPoints
    /\ \E q \in FlowPoints \cup FinalPoints : pc' = [pc EXCEPT ![c] = q]
    /\ session' \in {session, c}
    /\ UNCHANGED <<life, connectMu, conn, callerVars>>

LEMMA GoesOnKeeps ==
    ASSUME TypeOK, LockInv, NEW c \in Conns, GoesOn(c)
    PROVE  LockInv'
  <1>1. PICK q \in FlowPoints \cup FinalPoints : pc' = [pc EXCEPT ![c] = q]
    BY ZenonT(40) DEF GoesOn
  <1>2. /\ pc \in [Conns -> Points] /\ conn = c
        /\ pc[c] \notin {"new", "dead"} /\ q \notin {"new", "dead"}
    BY ZenonT(40) DEF TypeOK, LockInv, GoesOn, Running, FlowPoints, FinalPoints
  <1>3. \A d \in Conns : /\ Running(d)' <=> Running(d)
                         /\ pc'[d] = "new" <=> pc[d] = "new"
    BY <1>1, <1>2 DEF GoesOn, Running
  <1>4. life = "up" /\ ~(\E k \in Callers : cpc[k] = "launch")
    BY <1>2 DEF LockInv
  <1>. QED
    BY <1>2, <1>3, <1>4 DEF LockInv, GoesOn, callerVars, InMethod

\* A caller goes on: it takes, keeps or gives back connectMu, and leaves s.conn
\* and the connections alone.
Moves(k) ==
    /\ life = "up" /\ cpc[k] # "launch" /\ cpc'[k] # "launch"
    /\ \A j \in Callers \ {k} :
          /\ cpc'[j] = cpc[j] /\ op'[j] = op[j] /\ held'[j] = held[j]
          /\ connectMu' = j <=> connectMu = j
    /\ cpc'[k] \in InMethod <=> connectMu' = k
    /\ cpc'[k] = "install" => conn = None /\ op'[k] = "connect"
    /\ cpc'[k] = "exit" => op'[k] = "shutdown"
    /\ cpc'[k] \in {"cancel", "wait"} => conn \in {held'[k], None}
    /\ UNCHANGED <<life, conn, session, pc>>

LEMMA MovesKeeps ==
    ASSUME LockInv, NEW k \in Callers, Moves(k)
    PROVE  LockInv'
  <1>1. \A j \in Callers : /\ cpc'[j] \in InMethod <=> connectMu' = j
                           /\ cpc'[j] = "install" => conn' = None
                           /\ cpc'[j] = "exit" => op'[j] = "shutdown"
    BY DEF LockInv, Moves
  <1>2. \A j \in Callers : /\ cpc'[j] \in {"install", "launch"} => op'[j] = "connect"
                           /\ cpc'[j] \in {"cancel", "wait"} => conn' \in {held'[j], None}
    BY DEF LockInv, Moves
  <1>3. \A j \in Callers : cpc'[j] = "launch" => conn' = held'[j] /\ pc'[conn'] = "new"
    BY DEF LockInv, Moves
  <1>4. \A c \in Conns : pc'[c] = "new" => \E j \in Callers : cpc'[j] = "launch"
    BY DEF LockInv, Moves
  <1>5. /\ \A c \in Conns : Running(c)' <=> conn' = c
        /\ session' # None => session' = conn'
        /\ life' = "up"
    BY ZenonT(40) DEF LockInv, Moves, Running
  <1>. QED
    BY <1>1, <1>2, <1>3, <1>4, <1>5, ZenonT(40) DEF LockInv

\* A process that dies leaves nothing behind.
LEMMA DieKeeps ==
    ASSUME Die
    PROVE  LockInv'
  <1>1. /\ conn' = None /\ session' = None /\ connectMu' = None
        /\ \A k \in Callers : cpc'[k] = "idle"
        /\ \A c \in Conns : pc'[c] = "dead"
    BY DEF Die
  <1>2. /\ \A k \in Callers : cpc'[k] \notin InMethod /\ connectMu' # k
        /\ \A c \in Conns : conn' # c
    BY <1>1, ConstantsAssumption DEF InMethod
  <1>3. \A c \in Conns : ~Running(c)'
    BY <1>1 DEF Running, FlowPoints, FinalPoints
  <1>. QED
    BY <1>1, <1>2, <1>3, ZenonT(40) DEF LockInv

\* connectMu keeps one method at a time in charge of s.conn.
LEMMA LockStep ==
    TypeOK /\ RefInv /\ LockInv /\ [Next]_vars => LockInv'
  <1> SUFFICES ASSUME TypeOK, RefInv, LockInv, [Next]_vars
               PROVE  LockInv'
    OBVIOUS
  <1>1. /\ pc \in [Conns -> Points] /\ cpc \in [Callers -> CallerPoints]
        /\ op \in [Callers -> (Ops \cap Methods) \cup {"none"}]
        /\ held \in [Callers -> Conns \cup {None}] /\ conn \in Conns \cup {None}
        /\ None \notin Conns /\ None \notin Callers
    BY ConstantsAssumption DEF TypeOK
  <1>2. \A k \in Callers :
           /\ cpc[k] \in InMethod <=> connectMu = k
           /\ cpc[k] # "idle" => life = "up"
           /\ cpc[k] \in {"cancel", "wait"} => conn \in {held[k], None} /\ held[k] # None
           /\ cpc[k] = "install" => conn = None /\ op[k] = "connect"
           /\ cpc[k] = "launch" =>
                 conn = held[k] /\ held[k] # None /\ pc[conn] = "new" /\ op[k] = "connect"
    BY ZenonT(40) DEF LockInv, RefInv
  <1>3. \A c \in Conns : pc[c] = "dead" => conn # c
    BY ZenonT(40) DEF LockInv, Running, FlowPoints, FinalPoints
  <1>4. LockInv'
  <2>. USE DEF LockInv, RefInv, InMethod, Running, FlowPoints, FinalPoints,
               callerVars, flagVars, runVars, proxyVars, osVars
  <2>1. CASE Start
    BY <2>1, <1>1 DEF Start, RestoreOK, RestoreFails
  <2>2. CASE StartForget
    BY <2>2, <1>1 DEF StartForget, ClearProxySnapshot
  <2>3. CASE Crash
    BY <2>3, DieKeeps, ZenonT(40) DEF Crash
  <2>4. CASE HandleProxyClear
    BY <2>4, <1>1 DEF HandleProxyClear
  <2>. HIDE DEF LockInv, RefInv, Running, FlowPoints, FinalPoints
  <2>5. ASSUME NEW k \in Callers, NEW o \in Ops \cap Methods, Call(k, o)
       PROVE  LockInv'
    <3>1. Moves(k)
      BY <2>5, <1>1, <1>2 DEF Moves, Call, CGoto
    <3>. QED
      BY <3>1, MovesKeeps
  <2>6. ASSUME NEW k \in Callers, NEW m \in Modes, SetMode(k, m)
       PROVE  LockInv'
    <3>1. Moves(k)
      BY <2>6, <1>1, <1>2 DEF Moves, SetMode, Return, CGoto
    <3>. QED
      BY <3>1, MovesKeeps
  <2>7. ASSUME NEW k \in Callers, NEW c \in Conns, Install(k, c)
       PROVE  LockInv'
    <3>1. /\ conn = None /\ connectMu = k /\ op[k] = "connect" /\ life = "up"
          /\ \A j \in Callers \ {k} : cpc[j] \notin InMethod
      BY <2>7, <1>2, ZenonT(40) DEF Install
    <3>2. /\ conn' = c /\ pc' = [pc EXCEPT ![c] = "new"]
          /\ held' = [held EXCEPT ![k] = c] /\ cpc' = [cpc EXCEPT ![k] = "launch"]
          /\ UNCHANGED <<connectMu, op, life, session>>
      BY <2>7, ZenonT(40) DEF Install, Stay, CGoto, Goto
    <3>3. /\ cpc'[k] = "launch" /\ held'[k] = c /\ pc'[c] = "new"
          /\ \A j \in Callers \ {k} : cpc'[j] = cpc[j]
          /\ \A d \in Conns \ {c} : pc'[d] = pc[d]
      BY <1>1, <3>2
    <3>4. \A d \in Conns : ~Running(d) /\ (Running(d)' <=> d = c)
      BY <1>1, <3>1, <3>3, ZenonT(40) DEF LockInv, Running
    <3>. QED
      BY <1>1, <3>1, <3>2, <3>3, <3>4 DEF LockInv
  <2>8. ASSUME NEW k \in Callers, Acquire(k)
       PROVE  LockInv'
    <3>1. Moves(k)
      BY <2>8, <1>1, <1>2 DEF Moves, Acquire, CGoto
    <3>. QED
      BY <3>1, MovesKeeps
  <2>9. ASSUME NEW k \in Callers, Disconnect(k)
       PROVE  LockInv'
    <3>1. Moves(k)
      BY <2>9, <1>1, <1>2 DEF Moves, Disconnect, Return, Stay, CGoto
    <3>. QED
      BY <3>1, MovesKeeps
  <2>10. ASSUME NEW k \in Callers, Shutdown(k)
       PROVE  LockInv'
    <3>1. Moves(k)
      BY <2>10, <1>1, <1>2 DEF Moves, Shutdown, Return, Stay, CGoto
    <3>. QED
      BY <3>1, MovesKeeps
  <2>11. ASSUME NEW k \in Callers, TeardownMark(k)
       PROVE  LockInv'
    <3>1. Moves(k)
      BY <2>11, <1>1, <1>2 DEF Moves, TeardownMark, Return, Stay, CGoto
    <3>. QED
      BY <3>1, MovesKeeps
  <2>12. ASSUME NEW k \in Callers, Cancel(k)
       PROVE  LockInv'
    <3>1. Moves(k)
      BY <2>12, <1>1, <1>2 DEF Moves, Cancel, Return, Stay, CGoto
    <3>. QED
      BY <3>1, MovesKeeps
  <2>13. ASSUME NEW k \in Callers, AwaitDone(k)
       PROVE  LockInv'
    <3>1. Moves(k)
      BY <2>13, <1>1, <1>2, <1>3 DEF Moves, AwaitDone, Return, Stay, CGoto
    <3>. QED
      BY <3>1, MovesKeeps
  <2>14. ASSUME NEW k \in Callers, Launch(k)
       PROVE  LockInv'
    <3>1. /\ conn \in Conns /\ pc[conn] = "new" /\ connectMu = k /\ life = "up"
          /\ \A j \in Callers \ {k} : cpc[j] \notin InMethod
      BY <2>14, <1>1, <1>2, ZenonT(40) DEF Launch
    <3>2. /\ pc' = [pc EXCEPT ![conn] = "prepare"] /\ connectMu' = None
          /\ cpc' = [cpc EXCEPT ![k] = "idle"] /\ op' = [op EXCEPT ![k] = "none"]
          /\ held' = [held EXCEPT ![k] = None]
          /\ UNCHANGED <<conn, life, session>>
      BY <2>14, <1>2, ZenonT(40) DEF Launch, Return, CGoto, Goto
    <3>3. /\ cpc'[k] = "idle" /\ pc'[conn] = "prepare"
          /\ \A j \in Callers \ {k} : cpc'[j] = cpc[j] /\ op'[j] = op[j]
          /\ \A d \in Conns \ {conn} : pc'[d] = pc[d]
      BY <1>1, <3>1, <3>2
    <3>4. \A d \in Conns : pc'[d] # "new" /\ (Running(d)' <=> conn = d)
      <4>1. \A d \in Conns : Running(d) <=> conn = d
        BY ZenonT(40) DEF LockInv
      <4>2. \A d \in Conns \ {conn} : pc'[d] # "new" /\ ~Running(d)'
        BY <3>3, <4>1, ZenonT(40) DEF Running
      <4>3. \A d \in Conns : d = conn => pc'[d] # "new" /\ Running(d)'
        BY <3>3, ZenonT(40) DEF Running, FlowPoints
      <4>. QED
        BY <4>2, <4>3, ZenonT(40)
    <3>. QED
      BY <1>1, <3>1, <3>2, <3>3, <3>4 DEF LockInv
  <2>15. ASSUME NEW k \in Callers, Exit(k)
       PROVE  LockInv'
    BY <2>15, DieKeeps, ZenonT(40) DEF Exit
  <2>. HIDE DEF InMethod
  <2>. USE DEF GoesOn, FlowPoints, FinalPoints
  <2>16. ASSUME NEW c \in Conns, Prepare(c) PROVE LockInv'
    BY <2>16, GoesOnKeeps, ZenonT(40) DEF Prepare, End, Goto
  <2>17. ASSUME NEW c \in Conns, BeginSession(c) PROVE LockInv'
    BY <2>17, GoesOnKeeps, ZenonT(40) DEF BeginSession, Goto
  <2>18. ASSUME NEW c \in Conns, FetchCandidates(c) PROVE LockInv'
    BY <2>18, GoesOnKeeps, ZenonT(40) DEF FetchCandidates, End, Goto
  <2>19. ASSUME NEW c \in Conns, StartCandidate(c) PROVE LockInv'
    BY <2>19, GoesOnKeeps, ZenonT(40) DEF StartCandidate, Goto
  <2>20. ASSUME NEW c \in Conns, ProbeCandidate(c) PROVE LockInv'
    BY <2>20, GoesOnKeeps, ZenonT(40) DEF ProbeCandidate, Goto
  <2>21. ASSUME NEW c \in Conns, LadderEnds(c) PROVE LockInv'
    BY <2>21, GoesOnKeeps, ZenonT(40) DEF LadderEnds, End, Goto
  <2>22. ASSUME NEW c \in Conns, Promote(c) PROVE LockInv'
    BY <2>22, GoesOnKeeps, ZenonT(40) DEF Promote, Goto
  <2>23. ASSUME NEW c \in Conns, Bail(c) PROVE LockInv'
    BY <2>23, GoesOnKeeps, ZenonT(40) DEF Bail, End, Goto
  <2>24. ASSUME NEW c \in Conns, ApplyProxy(c) PROVE LockInv'
    BY <2>24, GoesOnKeeps, ZenonT(40) DEF ApplyProxy, Goto
  <2>25. ASSUME NEW c \in Conns, ApplySave(c) PROVE LockInv'
    BY <2>25, GoesOnKeeps, ZenonT(40) DEF ApplySave, SaveProxySnapshot, Goto
  <2>26. ASSUME NEW c \in Conns, ApplySet(c) PROVE LockInv'
    BY <2>26, GoesOnKeeps, ZenonT(40) DEF ApplySet, SetOK, SetFails, Goto
  <2>27. ASSUME NEW c \in Conns, ApplyUndo(c) PROVE LockInv'
    BY <2>27, GoesOnKeeps, ZenonT(40) DEF ApplyUndo, RestoreOK, RestoreFails, Goto
  <2>28. ASSUME NEW c \in Conns, ApplyUnsave(c) PROVE LockInv'
    BY <2>28, GoesOnKeeps, ZenonT(40) DEF ApplyUnsave, ClearProxySnapshot, Goto
  <2>29. ASSUME NEW c \in Conns, WatchCancelled(c) PROVE LockInv'
    BY <2>29, GoesOnKeeps, ZenonT(40) DEF WatchCancelled, End, Goto
  <2>30. ASSUME NEW c \in Conns, Trigger(c) PROVE LockInv'
    BY <2>30, GoesOnKeeps, ZenonT(40) DEF Trigger, End, Goto
  <2>31. ASSUME NEW c \in Conns, Tripped(c) PROVE LockInv'
    BY <2>31, GoesOnKeeps, ZenonT(40) DEF Tripped, End, Goto
  <2>32. ASSUME NEW c \in Conns, Announce(c) PROVE LockInv'
    BY <2>32, GoesOnKeeps, ZenonT(40) DEF Announce, Goto
  <2>33. ASSUME NEW c \in Conns, Drop(c) PROVE LockInv'
    BY <2>33, GoesOnKeeps, ZenonT(40) DEF Drop, Goto
  <2>34. ASSUME NEW c \in Conns, Deactivate(c) PROVE LockInv'
    BY <2>34, GoesOnKeeps, ZenonT(40) DEF Deactivate, Goto
  <2>35. ASSUME NEW c \in Conns, Release(c) PROVE LockInv'
    BY <2>35, GoesOnKeeps, ZenonT(40) DEF Release, ReleaseProxy, RestoreOK, RestoreFails, Goto
  <2>36. ASSUME NEW c \in Conns, Reladder(c) PROVE LockInv'
    BY <2>36, GoesOnKeeps, ZenonT(40) DEF Reladder, End, Goto
  <2>37. ASSUME NEW c \in Conns, Finalize(c) PROVE LockInv'
    BY <2>37, GoesOnKeeps, ZenonT(40) DEF Finalize, Goto
  <2>38. ASSUME NEW c \in Conns, CleanupDetach(c) PROVE LockInv'
    BY <2>38, GoesOnKeeps, ZenonT(40) DEF CleanupDetach, Goto
  <2>39. ASSUME NEW c \in Conns, CleanupReap(c) PROVE LockInv'
    BY <2>39, GoesOnKeeps, ZenonT(40) DEF CleanupReap, Goto
  <2>40. ASSUME NEW c \in Conns, CleanupRestore(c) PROVE LockInv'
    BY <2>40, GoesOnKeeps, ZenonT(40)
    DEF CleanupRestore, ReleaseProxy, RestoreOK, RestoreFails, Goto
  <2>41. ASSUME NEW c \in Conns, CleanupForget(c) PROVE LockInv'
    BY <2>41, GoesOnKeeps, ZenonT(40) DEF CleanupForget, ClearProxySnapshot, Goto
  <2>42. ASSUME NEW c \in Conns, SampleIntent(c) PROVE LockInv'
    BY <2>42, GoesOnKeeps, ZenonT(40) DEF SampleIntent, Goto
  <2>43. ASSUME NEW c \in Conns, EmitTerminal(c) PROVE LockInv'
    BY <2>43, GoesOnKeeps, ZenonT(40) DEF EmitTerminal, Goto
  <2>44. ASSUME NEW c \in Conns, TerminalFlush(c) PROVE LockInv'
    BY <2>44, GoesOnKeeps, ZenonT(40) DEF TerminalFlush, Goto
  <2>. HIDE DEF GoesOn
  <2>. USE DEF LockInv, Running
  <2>45. ASSUME NEW c \in Conns, ClearConn(c) PROVE LockInv'
    <3>1. /\ conn = c /\ conn' = None /\ session' = None
          /\ pc[c] = "clear" /\ pc' = [pc EXCEPT ![c] = "exit"]
          /\ UNCHANGED <<life, connectMu, callerVars>>
      BY <2>45 DEF ClearConn, Goto
    <3>2. \A d \in Conns : pc'[d] # "new" /\ ~Running(d)'
      BY <1>1, <3>1
    <3>3. \A k \in Callers : cpc[k] # "launch"
      BY <3>1
    <3>. QED
      BY <1>1, <3>1, <3>2, <3>3
  <2>46. ASSUME NEW c \in Conns, CloseDone(c) PROVE LockInv'
    <3>1. /\ pc[c] = "exit" /\ pc' = [pc EXCEPT ![c] = "dead"]
          /\ UNCHANGED <<life, connectMu, conn, session, callerVars>>
      BY <2>46 DEF CloseDone, Goto
    <3>2. \A d \in Conns : (pc'[d] = "new" <=> pc[d] = "new") /\ (Running(d)' <=> Running(d))
      BY <1>1, <3>1
    <3>. HIDE DEF Running, FlowPoints, FinalPoints
    <3>3. \A k \in Callers : cpc[k] = "launch" => conn \in Conns
      BY <1>1, <1>2, ZenonT(40)
    <3>. QED
      BY <1>1, <3>1, <3>2, <3>3
  <2>47. CASE UNCHANGED vars
    BY <2>47 DEF vars
  <2>. HIDE DEF LockInv
  <2>. QED
    BY <2>1, <2>2, <2>3, <2>4, <2>5, <2>6, <2>7, <2>8, <2>9, <2>10, <2>11,
       <2>12, <2>13, <2>14, <2>15, <2>16, <2>17, <2>18, <2>19, <2>20,
       <2>21, <2>22, <2>23, <2>24, <2>25, <2>26, <2>27, <2>28, <2>29,
       <2>30, <2>31, <2>32, <2>33, <2>34, <2>35, <2>36, <2>37, <2>38,
       <2>39, <2>40, <2>41, <2>42, <2>43, <2>44, <2>45, <2>46, <2>47
       DEF Next, Process, Method, RunConnect, ConnectFlow, Supervise,
           FinalizeConn
  <1>. QED
    BY <1>4

-----------------------------------------------------------------------------
(* Tunnels, status and the OS proxy: the part that rests on LockInv *)

\* No step lets a tunnel outlive its rung or its connection.
LEMMA TunnelStep ==
    TypeOK /\ RefInv /\ LockInv /\ TunnelInv /\ [Next]_vars => TunnelInv'
  <1> SUFFICES ASSUME TypeOK, RefInv, LockInv, TunnelInv, [Next]_vars
               PROVE  TunnelInv'
    OBVIOUS
  <1>1. pc \in [Conns -> Points]
    BY ConstantsAssumption DEF TypeOK
  <1>2. TunnelInv'
  <2>. USE DEF TunnelInv, ActivePoints, callerVars, flagVars, runVars,
               proxyVars, osVars
  <2>1. CASE Start
    BY <2>1, <1>1 DEF Start, RestoreOK, RestoreFails
  <2>2. CASE StartForget
    BY <2>2, <1>1 DEF StartForget, ClearProxySnapshot
  <2>3. CASE Crash
    BY <2>3, <1>1 DEF Crash, Die
  <2>4. CASE HandleProxyClear
    BY <2>4, <1>1 DEF HandleProxyClear
  <2>5. ASSUME NEW k \in Callers, NEW o \in Ops \cap Methods, Call(k, o)
       PROVE  TunnelInv'
    BY <2>5, <1>1 DEF Call, CGoto
  <2>6. ASSUME NEW k \in Callers, NEW m \in Modes, SetMode(k, m)
       PROVE  TunnelInv'
    BY <2>6, <1>1 DEF SetMode, Return, CGoto
  <2>7. ASSUME NEW k \in Callers, NEW c \in Conns, Install(k, c)
       PROVE  TunnelInv'
    BY <2>7, <1>1 DEF Install, Stay, CGoto, Goto
  <2>8. ASSUME NEW k \in Callers, Acquire(k) PROVE TunnelInv'
    BY <2>8, <1>1 DEF Acquire, CGoto
  <2>9. ASSUME NEW k \in Callers, Disconnect(k) PROVE TunnelInv'
    BY <2>9, <1>1 DEF Disconnect, Return, Stay, CGoto
  <2>10. ASSUME NEW k \in Callers, Shutdown(k) PROVE TunnelInv'
    BY <2>10, <1>1 DEF Shutdown, Return, Stay, CGoto
  <2>11. ASSUME NEW k \in Callers, TeardownMark(k) PROVE TunnelInv'
    BY <2>11, <1>1 DEF TeardownMark, Return, Stay, CGoto
  <2>12. ASSUME NEW k \in Callers, Cancel(k) PROVE TunnelInv'
    BY <2>12, <1>1 DEF Cancel, Return, Stay, CGoto
  <2>13. ASSUME NEW k \in Callers, AwaitDone(k) PROVE TunnelInv'
    BY <2>13, <1>1 DEF AwaitDone, Return, Stay, CGoto
  <2>14. ASSUME NEW k \in Callers, Launch(k) PROVE TunnelInv'
    <3>1. held[k] \in Conns /\ pc[held[k]] = "new"
      <4>1. cpc[k] = "launch" /\ held[k] # None
        BY <2>14, ZenonT(40) DEF Launch, RefInv
      <4>2. held[k] \in Conns
        BY <4>1 DEF TypeOK
      <4>3. pc[held[k]] = "new"
        BY <4>1, ZenonT(40) DEF LockInv
      <4>. QED
        BY <4>2, <4>3
    <3>. QED
      BY <2>14, <1>1, <3>1 DEF Launch, Goto
  <2>15. ASSUME NEW k \in Callers, Exit(k) PROVE TunnelInv'
    BY <2>15, <1>1 DEF Exit, Die
  <2>16. ASSUME NEW c \in Conns, Prepare(c) PROVE TunnelInv'
    BY <2>16, <1>1 DEF Prepare, End, Goto
  <2>17. ASSUME NEW c \in Conns, BeginSession(c) PROVE TunnelInv'
    BY <2>17, <1>1 DEF BeginSession, Goto
  <2>18. ASSUME NEW c \in Conns, FetchCandidates(c) PROVE TunnelInv'
    BY <2>18, <1>1 DEF FetchCandidates, End, Goto
  <2>19. ASSUME NEW c \in Conns, StartCandidate(c) PROVE TunnelInv'
    BY <2>19, <1>1 DEF StartCandidate, Goto
  <2>20. ASSUME NEW c \in Conns, ProbeCandidate(c) PROVE TunnelInv'
    BY <2>20, <1>1 DEF ProbeCandidate, Goto
  <2>21. ASSUME NEW c \in Conns, LadderEnds(c) PROVE TunnelInv'
    BY <2>21, <1>1 DEF LadderEnds, End, Goto
  <2>22. ASSUME NEW c \in Conns, Promote(c) PROVE TunnelInv'
    BY <2>22, <1>1 DEF Promote, Goto
  <2>23. ASSUME NEW c \in Conns, Bail(c) PROVE TunnelInv'
    BY <2>23, <1>1 DEF Bail, End, Goto
  <2>24. ASSUME NEW c \in Conns, ApplyProxy(c) PROVE TunnelInv'
    BY <2>24, <1>1 DEF ApplyProxy, Goto
  <2>25. ASSUME NEW c \in Conns, ApplySave(c) PROVE TunnelInv'
    BY <2>25, <1>1 DEF ApplySave, SaveProxySnapshot, Goto
  <2>26. ASSUME NEW c \in Conns, ApplySet(c) PROVE TunnelInv'
    BY <2>26, <1>1 DEF ApplySet, SetOK, SetFails, Goto
  <2>27. ASSUME NEW c \in Conns, ApplyUndo(c) PROVE TunnelInv'
    BY <2>27, <1>1 DEF ApplyUndo, RestoreOK, RestoreFails, Goto
  <2>28. ASSUME NEW c \in Conns, ApplyUnsave(c) PROVE TunnelInv'
    BY <2>28, <1>1 DEF ApplyUnsave, ClearProxySnapshot, Goto
  <2>29. ASSUME NEW c \in Conns, WatchCancelled(c) PROVE TunnelInv'
    BY <2>29, <1>1 DEF WatchCancelled, End, Goto
  <2>30. ASSUME NEW c \in Conns, Trigger(c) PROVE TunnelInv'
    BY <2>30, <1>1 DEF Trigger, End, Goto
  <2>31. ASSUME NEW c \in Conns, Tripped(c) PROVE TunnelInv'
    BY <2>31, <1>1 DEF Tripped, End, Goto
  <2>32. ASSUME NEW c \in Conns, Announce(c) PROVE TunnelInv'
    BY <2>32, <1>1 DEF Announce, Goto
  <2>33. ASSUME NEW c \in Conns, Drop(c) PROVE TunnelInv'
    BY <2>33, <1>1 DEF Drop, Goto
  <2>34. ASSUME NEW c \in Conns, Deactivate(c) PROVE TunnelInv'
    BY <2>34, <1>1 DEF Deactivate, Goto
  <2>35. ASSUME NEW c \in Conns, Release(c) PROVE TunnelInv'
    BY <2>35, <1>1 DEF Release, ReleaseProxy, RestoreOK, RestoreFails, Goto
  <2>36. ASSUME NEW c \in Conns, Reladder(c) PROVE TunnelInv'
    BY <2>36, <1>1 DEF Reladder, End, Goto
  <2>37. ASSUME NEW c \in Conns, Finalize(c) PROVE TunnelInv'
    BY <2>37, <1>1 DEF Finalize, Goto
  <2>38. ASSUME NEW c \in Conns, CleanupDetach(c) PROVE TunnelInv'
    BY <2>38, <1>1 DEF CleanupDetach, Goto
  <2>39. ASSUME NEW c \in Conns, CleanupReap(c) PROVE TunnelInv'
    BY <2>39, <1>1 DEF CleanupReap, Goto
  <2>40. ASSUME NEW c \in Conns, CleanupRestore(c) PROVE TunnelInv'
    BY <2>40, <1>1
    DEF CleanupRestore, ReleaseProxy, RestoreOK, RestoreFails, Goto
  <2>41. ASSUME NEW c \in Conns, CleanupForget(c) PROVE TunnelInv'
    BY <2>41, <1>1 DEF CleanupForget, ClearProxySnapshot, Goto
  <2>42. ASSUME NEW c \in Conns, SampleIntent(c) PROVE TunnelInv'
    BY <2>42, <1>1 DEF SampleIntent, Goto
  <2>43. ASSUME NEW c \in Conns, EmitTerminal(c) PROVE TunnelInv'
    BY <2>43, <1>1 DEF EmitTerminal, Goto
  <2>44. ASSUME NEW c \in Conns, TerminalFlush(c) PROVE TunnelInv'
    BY <2>44, <1>1 DEF TerminalFlush, Goto
  <2>45. ASSUME NEW c \in Conns, ClearConn(c) PROVE TunnelInv'
    BY <2>45, <1>1 DEF ClearConn, Goto
  <2>46. ASSUME NEW c \in Conns, CloseDone(c) PROVE TunnelInv'
    BY <2>46, <1>1 DEF CloseDone, Goto
  <2>47. CASE UNCHANGED vars
    BY <2>47, <1>1 DEF vars
  <2>. HIDE DEF TunnelInv
  <2>. QED
    BY <2>1, <2>2, <2>3, <2>4, <2>5, <2>6, <2>7, <2>8, <2>9, <2>10, <2>11,
       <2>12, <2>13, <2>14, <2>15, <2>16, <2>17, <2>18, <2>19, <2>20,
       <2>21, <2>22, <2>23, <2>24, <2>25, <2>26, <2>27, <2>28, <2>29,
       <2>30, <2>31, <2>32, <2>33, <2>34, <2>35, <2>36, <2>37, <2>38,
       <2>39, <2>40, <2>41, <2>42, <2>43, <2>44, <2>45, <2>46, <2>47
       DEF Next, Process, Method, RunConnect, ConnectFlow, Supervise,
           FinalizeConn
  <1>. QED
    BY <1>2

\* The published status follows the one running connection.
LEMMA StatusStep ==
    TypeOK /\ RefInv /\ LockInv /\ StatusInv /\ [Next]_vars => StatusInv'
  <1> SUFFICES ASSUME TypeOK, RefInv, LockInv, StatusInv, [Next]_vars
               PROVE  StatusInv'
    OBVIOUS
  <1>1. /\ pc \in [Conns -> Points] /\ cpc \in [Callers -> CallerPoints]
        /\ op \in [Callers -> (Ops \cap Methods) \cup {"none"}]
        /\ held \in [Callers -> Conns \cup {None}] /\ conn \in Conns \cup {None}
        /\ None \notin Conns /\ None \notin Callers
    BY ConstantsAssumption DEF TypeOK
  <1>2. pc \in [Conns -> Points] /\ conn \in Conns \cup {None} /\ None \notin Conns
        /\ \A c \in Conns : pc[c] \notin {"dead", "exit"} <=> conn = c
    BY <1>1 DEF LockInv, Running, Points, FlowPoints, FinalPoints
  <1>3. /\ cpc \in [Callers -> CallerPoints] /\ held \in [Callers -> Conns \cup {None}]
        /\ \A k \in Callers :
             /\ cpc[k] = "install" => conn = None
             /\ cpc[k] = "locked" => \A c \in Conns : pc[c] # "new"
             /\ cpc[k] = "launch" => conn = held[k] /\ held[k] # None /\ pc[conn] = "new"
        /\ life # "up" => conn = None /\ \A c \in Conns : pc[c] = "dead"
    <2>1. \A k \in Callers :
             /\ cpc[k] = "install" => conn = None
             /\ cpc[k] = "launch" => conn = held[k] /\ held[k] # None /\ pc[conn] = "new"
      BY ZenonT(40) DEF LockInv, RefInv
    <2>2. ASSUME NEW k \in Callers, cpc[k] = "locked", NEW c \in Conns, pc[c] = "new"
          PROVE  FALSE
      <3>1. PICK j \in Callers : cpc[j] = "launch"
        BY <2>2, ZenonT(40) DEF LockInv
      <3>2. connectMu = k /\ connectMu = j
        BY <2>2, <3>1, ZenonT(40) DEF LockInv, InMethod
      <3>. QED
        BY <2>2, <3>1, <3>2
    <2>3. life # "up" => conn = None /\ \A c \in Conns : pc[c] = "dead"
      <3>1. life # "up" => \A c \in Conns : pc[c] = "dead"
        BY ZenonT(40) DEF LockInv
      <3>. QED
        BY <1>1, <1>2, <3>1
    <2>. QED
      BY <1>1, <2>1, <2>2, <2>3, ZenonT(40)
  <1>4. StatusInv'
  <2>. USE DEF StatusInv, FinalPoints, QuietPoints, Terminal, callerVars,
               flagVars, runVars, proxyVars, osVars
  <2>1. CASE Start
    BY <2>1, <1>2, <1>3 DEF Start, RestoreOK, RestoreFails
  <2>2. CASE StartForget
    BY <2>2, <1>2, <1>3 DEF StartForget, ClearProxySnapshot
  <2>3. CASE Crash
    BY <2>3, <1>2, <1>3 DEF Crash, Die
  <2>4. CASE HandleProxyClear
    BY <2>4, <1>2, <1>3 DEF HandleProxyClear
  <2>5. ASSUME NEW k \in Callers, NEW o \in Ops \cap Methods, Call(k, o)
       PROVE  StatusInv'
    BY <2>5, <1>2, <1>3 DEF Call, CGoto
  <2>6. ASSUME NEW k \in Callers, NEW m \in Modes, SetMode(k, m)
       PROVE  StatusInv'
    BY <2>6, <1>2, <1>3 DEF SetMode, Return, CGoto
  <2>7. ASSUME NEW k \in Callers, NEW c \in Conns, Install(k, c)
       PROVE  StatusInv'
    BY <2>7, <1>2, <1>3 DEF Install, Stay, CGoto, Goto
  <2>8. ASSUME NEW k \in Callers, Acquire(k) PROVE StatusInv'
    BY <2>8, <1>2, <1>3 DEF Acquire, CGoto
  <2>9. ASSUME NEW k \in Callers, Disconnect(k) PROVE StatusInv'
    BY <2>9, <1>2, <1>3 DEF Disconnect, Return, Stay, CGoto
  <2>10. ASSUME NEW k \in Callers, Shutdown(k) PROVE StatusInv'
    BY <2>10, <1>2, <1>3 DEF Shutdown, Return, Stay, CGoto
  <2>11. ASSUME NEW k \in Callers, TeardownMark(k) PROVE StatusInv'
    BY <2>11, <1>2, <1>3 DEF TeardownMark, Return, Stay, CGoto
  <2>12. ASSUME NEW k \in Callers, Cancel(k) PROVE StatusInv'
    BY <2>12, <1>2, <1>3 DEF Cancel, Return, Stay, CGoto
  <2>13. ASSUME NEW k \in Callers, AwaitDone(k) PROVE StatusInv'
    BY <2>13, <1>2, <1>3 DEF AwaitDone, Return, Stay, CGoto
  <2>14. ASSUME NEW k \in Callers, Launch(k) PROVE StatusInv'
    BY <2>14, <1>2, <1>3 DEF Launch, Return, CGoto, Goto
  <2>15. ASSUME NEW k \in Callers, Exit(k) PROVE StatusInv'
    BY <2>15, <1>2, <1>3 DEF Exit, Die
  <2>16. ASSUME NEW c \in Conns, Prepare(c) PROVE StatusInv'
    BY <2>16, <1>2 DEF Prepare, End, Goto
  <2>17. ASSUME NEW c \in Conns, BeginSession(c) PROVE StatusInv'
    BY <2>17, <1>2 DEF BeginSession, Goto
  <2>18. ASSUME NEW c \in Conns, FetchCandidates(c) PROVE StatusInv'
    BY <2>18, <1>2 DEF FetchCandidates, End, Goto
  <2>19. ASSUME NEW c \in Conns, StartCandidate(c) PROVE StatusInv'
    BY <2>19, <1>2 DEF StartCandidate, Goto
  <2>20. ASSUME NEW c \in Conns, ProbeCandidate(c) PROVE StatusInv'
    BY <2>20, <1>2 DEF ProbeCandidate, Goto
  <2>21. ASSUME NEW c \in Conns, LadderEnds(c) PROVE StatusInv'
    BY <2>21, <1>2 DEF LadderEnds, End, Goto
  <2>22. ASSUME NEW c \in Conns, Promote(c) PROVE StatusInv'
    BY <2>22, <1>2 DEF Promote, Goto
  <2>23. ASSUME NEW c \in Conns, Bail(c) PROVE StatusInv'
    BY <2>23, <1>2 DEF Bail, End, Goto
  <2>24. ASSUME NEW c \in Conns, ApplyProxy(c) PROVE StatusInv'
    <3>1. /\ pc[c] = "apply" /\ UNCHANGED <<conn, status, finalized, disconnecting>>
          /\ \E q \in {"watch", "set", "save"} : pc' = [pc EXCEPT ![c] = q]
      BY <2>24, ZenonT(40) DEF ApplyProxy, Goto
    <3>. QED
      BY <3>1, <1>2
  <2>25. ASSUME NEW c \in Conns, ApplySave(c) PROVE StatusInv'
    BY <2>25, <1>2 DEF ApplySave, SaveProxySnapshot, Goto
  <2>26. ASSUME NEW c \in Conns, ApplySet(c) PROVE StatusInv'
    BY <2>26, <1>2 DEF ApplySet, SetOK, SetFails, Goto
  <2>27. ASSUME NEW c \in Conns, ApplyUndo(c) PROVE StatusInv'
    BY <2>27, <1>2 DEF ApplyUndo, RestoreOK, RestoreFails, Goto
  <2>28. ASSUME NEW c \in Conns, ApplyUnsave(c) PROVE StatusInv'
    BY <2>28, <1>2 DEF ApplyUnsave, ClearProxySnapshot, Goto
  <2>29. ASSUME NEW c \in Conns, WatchCancelled(c) PROVE StatusInv'
    BY <2>29, <1>2 DEF WatchCancelled, End, Goto
  <2>30. ASSUME NEW c \in Conns, Trigger(c) PROVE StatusInv'
    BY <2>30, <1>2 DEF Trigger, End, Goto
  <2>31. ASSUME NEW c \in Conns, Tripped(c) PROVE StatusInv'
    BY SMTT(30), <2>31, <1>2 DEF Tripped, End, Goto
  <2>32. ASSUME NEW c \in Conns, Announce(c) PROVE StatusInv'
    BY <2>32, <1>2 DEF Announce, Goto
  <2>33. ASSUME NEW c \in Conns, Drop(c) PROVE StatusInv'
    BY <2>33, <1>2 DEF Drop, Goto
  <2>34. ASSUME NEW c \in Conns, Deactivate(c) PROVE StatusInv'
    BY <2>34, <1>2 DEF Deactivate, Goto
  <2>35. ASSUME NEW c \in Conns, Release(c) PROVE StatusInv'
    BY <2>35, <1>2 DEF Release, ReleaseProxy, RestoreOK, RestoreFails, Goto
  <2>36. ASSUME NEW c \in Conns, Reladder(c) PROVE StatusInv'
    BY <2>36, <1>2 DEF Reladder, End, Goto
  <2>37. ASSUME NEW c \in Conns, Finalize(c) PROVE StatusInv'
    BY <2>37, <1>2 DEF Finalize, Goto
  <2>38. ASSUME NEW c \in Conns, CleanupDetach(c) PROVE StatusInv'
    BY <2>38, <1>2 DEF CleanupDetach, Goto
  <2>39. ASSUME NEW c \in Conns, CleanupReap(c) PROVE StatusInv'
    BY <2>39, <1>2 DEF CleanupReap, Goto
  <2>40. ASSUME NEW c \in Conns, CleanupRestore(c) PROVE StatusInv'
    BY <2>40, <1>2
    DEF CleanupRestore, ReleaseProxy, RestoreOK, RestoreFails, Goto
  <2>41. ASSUME NEW c \in Conns, CleanupForget(c) PROVE StatusInv'
    BY <2>41, <1>2 DEF CleanupForget, ClearProxySnapshot, Goto
  <2>42. ASSUME NEW c \in Conns, SampleIntent(c) PROVE StatusInv'
    BY <2>42, <1>2 DEF SampleIntent, Goto
  <2>43. ASSUME NEW c \in Conns, EmitTerminal(c) PROVE StatusInv'
    <3>1. conn = c /\ pc'[c] = "flush"
      BY <2>43, <1>2 DEF EmitTerminal, Goto
    <3>2. \A d \in Conns : d # c => pc'[d] \in {"dead", "exit"}
      BY <2>43, <1>2, <3>1 DEF EmitTerminal, Goto, Points
    <3>3. status' \in Terminal /\ status' # "disconnecting"
      BY <2>43 DEF EmitTerminal
    <3>. QED
      BY <2>43, <1>2, <3>1, <3>2, <3>3 DEF EmitTerminal, Goto
  <2>44. ASSUME NEW c \in Conns, TerminalFlush(c) PROVE StatusInv'
    BY <2>44, <1>2 DEF TerminalFlush, Goto
  <2>45. ASSUME NEW c \in Conns, ClearConn(c) PROVE StatusInv'
    BY <2>45, <1>2 DEF ClearConn, Goto
  <2>46. ASSUME NEW c \in Conns, CloseDone(c) PROVE StatusInv'
    BY <2>46, <1>2 DEF CloseDone, Goto
  <2>47. CASE UNCHANGED vars
    BY <2>47, <1>1 DEF vars
  <2>. HIDE DEF StatusInv
  <2>. QED
    BY <2>1, <2>2, <2>3, <2>4, <2>5, <2>6, <2>7, <2>8, <2>9, <2>10, <2>11,
       <2>12, <2>13, <2>14, <2>15, <2>16, <2>17, <2>18, <2>19, <2>20,
       <2>21, <2>22, <2>23, <2>24, <2>25, <2>26, <2>27, <2>28, <2>29,
       <2>30, <2>31, <2>32, <2>33, <2>34, <2>35, <2>36, <2>37, <2>38,
       <2>39, <2>40, <2>41, <2>42, <2>43, <2>44, <2>45, <2>46, <2>47
       DEF Next, Process, Method, RunConnect, ConnectFlow, Supervise,
           FinalizeConn
  <1>. QED
    BY <1>4

\* A Restore that cannot fail settles the debt.
LEMMA OwedStep ==
    TypeOK /\ RefInv /\ LockInv /\ OwedInv /\ [Next]_vars => OwedInv'
  <1> SUFFICES ASSUME TypeOK, RefInv, LockInv, OwedInv, [Next]_vars
               PROVE  OwedInv'
    OBVIOUS
  <1>1. pc \in [Conns -> Points]
    BY ConstantsAssumption DEF TypeOK
  <1>2. OwedInv'
  <2>. USE DEF OwedInv, OwingPoints, callerVars, flagVars, runVars,
               proxyVars, osVars
  <2>1. CASE Start
    BY <2>1, <1>1 DEF Start, RestoreOK, RestoreFails
  <2>2. CASE StartForget
    BY <2>2, <1>1 DEF StartForget, ClearProxySnapshot
  <2>3. CASE Crash
    BY <2>3, <1>1 DEF Crash, Die
  <2>4. CASE HandleProxyClear
    BY <2>4, <1>1 DEF HandleProxyClear
  <2>5. ASSUME NEW k \in Callers, NEW o \in Ops \cap Methods, Call(k, o)
       PROVE  OwedInv'
    BY <2>5, <1>1 DEF Call, CGoto
  <2>6. ASSUME NEW k \in Callers, NEW m \in Modes, SetMode(k, m)
       PROVE  OwedInv'
    BY <2>6, <1>1 DEF SetMode, Return, CGoto
  <2>7. ASSUME NEW k \in Callers, NEW c \in Conns, Install(k, c)
       PROVE  OwedInv'
    BY <2>7, <1>1 DEF Install, Stay, CGoto, Goto
  <2>8. ASSUME NEW k \in Callers, Acquire(k) PROVE OwedInv'
    BY <2>8, <1>1 DEF Acquire, CGoto
  <2>9. ASSUME NEW k \in Callers, Disconnect(k) PROVE OwedInv'
    BY <2>9, <1>1 DEF Disconnect, Return, Stay, CGoto
  <2>10. ASSUME NEW k \in Callers, Shutdown(k) PROVE OwedInv'
    BY <2>10, <1>1 DEF Shutdown, Return, Stay, CGoto
  <2>11. ASSUME NEW k \in Callers, TeardownMark(k) PROVE OwedInv'
    BY <2>11, <1>1 DEF TeardownMark, Return, Stay, CGoto
  <2>12. ASSUME NEW k \in Callers, Cancel(k) PROVE OwedInv'
    BY <2>12, <1>1 DEF Cancel, Return, Stay, CGoto
  <2>13. ASSUME NEW k \in Callers, AwaitDone(k) PROVE OwedInv'
    BY <2>13, <1>1 DEF AwaitDone, Return, Stay, CGoto
  <2>14. ASSUME NEW k \in Callers, Launch(k) PROVE OwedInv'
    BY <2>14, <1>1, TypeOK DEF Launch, Return, CGoto, Goto, RefInv, LockInv
  <2>15. ASSUME NEW k \in Callers, Exit(k) PROVE OwedInv'
    BY <2>15, <1>1 DEF Exit, Die
  <2>16. ASSUME NEW c \in Conns, Prepare(c) PROVE OwedInv'
    BY <2>16, <1>1 DEF Prepare, End, Goto
  <2>17. ASSUME NEW c \in Conns, BeginSession(c) PROVE OwedInv'
    BY <2>17, <1>1 DEF BeginSession, Goto
  <2>18. ASSUME NEW c \in Conns, FetchCandidates(c) PROVE OwedInv'
    BY <2>18, <1>1 DEF FetchCandidates, End, Goto
  <2>19. ASSUME NEW c \in Conns, StartCandidate(c) PROVE OwedInv'
    BY <2>19, <1>1 DEF StartCandidate, Goto
  <2>20. ASSUME NEW c \in Conns, ProbeCandidate(c) PROVE OwedInv'
    BY <2>20, <1>1 DEF ProbeCandidate, Goto
  <2>21. ASSUME NEW c \in Conns, LadderEnds(c) PROVE OwedInv'
    BY <2>21, <1>1 DEF LadderEnds, End, Goto
  <2>22. ASSUME NEW c \in Conns, Promote(c) PROVE OwedInv'
    BY <2>22, <1>1 DEF Promote, Goto
  <2>23. ASSUME NEW c \in Conns, Bail(c) PROVE OwedInv'
    BY <2>23, <1>1 DEF Bail, End, Goto
  <2>24. ASSUME NEW c \in Conns, ApplyProxy(c) PROVE OwedInv'
    BY <2>24, <1>1 DEF ApplyProxy, Goto
  <2>25. ASSUME NEW c \in Conns, ApplySave(c) PROVE OwedInv'
    BY <2>25, <1>1 DEF ApplySave, SaveProxySnapshot, Goto
  <2>26. ASSUME NEW c \in Conns, ApplySet(c) PROVE OwedInv'
    BY <2>26, <1>1 DEF ApplySet, SetOK, SetFails, Goto
  <2>27. ASSUME NEW c \in Conns, ApplyUndo(c) PROVE OwedInv'
    BY <2>27, <1>1 DEF ApplyUndo, RestoreOK, RestoreFails, Goto
  <2>28. ASSUME NEW c \in Conns, ApplyUnsave(c) PROVE OwedInv'
    BY <2>28, <1>1 DEF ApplyUnsave, ClearProxySnapshot, Goto
  <2>29. ASSUME NEW c \in Conns, WatchCancelled(c) PROVE OwedInv'
    BY <2>29, <1>1 DEF WatchCancelled, End, Goto
  <2>30. ASSUME NEW c \in Conns, Trigger(c) PROVE OwedInv'
    BY <2>30, <1>1 DEF Trigger, End, Goto
  <2>31. ASSUME NEW c \in Conns, Tripped(c) PROVE OwedInv'
    BY <2>31, <1>1 DEF Tripped, End, Goto
  <2>32. ASSUME NEW c \in Conns, Announce(c) PROVE OwedInv'
    BY <2>32, <1>1 DEF Announce, Goto
  <2>33. ASSUME NEW c \in Conns, Drop(c) PROVE OwedInv'
    BY <2>33, <1>1 DEF Drop, Goto
  <2>34. ASSUME NEW c \in Conns, Deactivate(c) PROVE OwedInv'
    BY <2>34, <1>1 DEF Deactivate, Goto
  <2>35. ASSUME NEW c \in Conns, Release(c) PROVE OwedInv'
    BY <2>35, <1>1 DEF Release, ReleaseProxy, RestoreOK, RestoreFails, Goto
  <2>36. ASSUME NEW c \in Conns, Reladder(c) PROVE OwedInv'
    BY <2>36, <1>1 DEF Reladder, End, Goto
  <2>37. ASSUME NEW c \in Conns, Finalize(c) PROVE OwedInv'
    BY <2>37, <1>1 DEF Finalize, Goto
  <2>38. ASSUME NEW c \in Conns, CleanupDetach(c) PROVE OwedInv'
    BY <2>38, <1>1 DEF CleanupDetach, Goto
  <2>39. ASSUME NEW c \in Conns, CleanupReap(c) PROVE OwedInv'
    BY <2>39, <1>1 DEF CleanupReap, Goto
  <2>40. ASSUME NEW c \in Conns, CleanupRestore(c) PROVE OwedInv'
    BY <2>40, <1>1
    DEF CleanupRestore, ReleaseProxy, RestoreOK, RestoreFails, Goto
  <2>41. ASSUME NEW c \in Conns, CleanupForget(c) PROVE OwedInv'
    BY <2>41, <1>1 DEF CleanupForget, ClearProxySnapshot, Goto
  <2>42. ASSUME NEW c \in Conns, SampleIntent(c) PROVE OwedInv'
    BY <2>42, <1>1 DEF SampleIntent, Goto
  <2>43. ASSUME NEW c \in Conns, EmitTerminal(c) PROVE OwedInv'
    BY <2>43, <1>1 DEF EmitTerminal, Goto
  <2>44. ASSUME NEW c \in Conns, TerminalFlush(c) PROVE OwedInv'
    BY <2>44, <1>1 DEF TerminalFlush, Goto
  <2>45. ASSUME NEW c \in Conns, ClearConn(c) PROVE OwedInv'
    BY <2>45, <1>1 DEF ClearConn, Goto
  <2>46. ASSUME NEW c \in Conns, CloseDone(c) PROVE OwedInv'
    BY <2>46, <1>1 DEF CloseDone, Goto
  <2>47. CASE UNCHANGED vars
    BY <2>47, <1>1 DEF vars
  <2>. HIDE DEF OwedInv
  <2>. QED
    BY <2>1, <2>2, <2>3, <2>4, <2>5, <2>6, <2>7, <2>8, <2>9, <2>10, <2>11,
       <2>12, <2>13, <2>14, <2>15, <2>16, <2>17, <2>18, <2>19, <2>20,
       <2>21, <2>22, <2>23, <2>24, <2>25, <2>26, <2>27, <2>28, <2>29,
       <2>30, <2>31, <2>32, <2>33, <2>34, <2>35, <2>36, <2>37, <2>38,
       <2>39, <2>40, <2>41, <2>42, <2>43, <2>44, <2>45, <2>46, <2>47
       DEF Next, Process, Method, RunConnect, ConnectFlow, Supervise,
           FinalizeConn
  <1>. QED
    BY <1>2

\* No survivable failure makes the engine mistake its own setting for the
\* user's.
LEMMA BorrowStep ==
    TypeOK /\ RefInv /\ LockInv /\ OwedInv /\ SnapshotInv /\ [Next]_vars
        => (Survivable => BorrowSafe')
  <1> SUFFICES ASSUME TypeOK, RefInv, LockInv, OwedInv, BorrowSafe, Survivable,
                      OnlyCrashes => CrashSafe, [Next]_vars
               PROVE  BorrowSafe'
    BY DEF SnapshotInv
  <1>1. /\ pc \in [Conns -> Points] /\ snap \in [Conns -> Settings \cup {None}]
        /\ osProxy \in Settings /\ persisted \in Settings \cup {None}
        /\ Cleared \in UserProxies /\ Ours \notin UserProxies
        /\ None \notin UserProxies /\ Ours # None
    BY ConstantsAssumption DEF TypeOK, Settings
  <1>2. "restore" \notin MayFail
    BY DEF Survivable, OnlyCrashes
  <1>3. \A c \in Conns : pc[c] \in FlowPoints \cup FinalPoints
           => conn = c /\ life = "up"
    BY ZenonT(40) DEF LockInv, Running, FlowPoints, FinalPoints
  <1>4. \A c \in Conns : c \in proxySet => pc[c] \in OwingPoints /\ conn = c
    BY <1>2, <1>3 DEF OwedInv, OwingPoints, FlowPoints, FinalPoints
  <1>5. life # "up" => proxySet = {} /\ snapshotTaken = {}
    BY <1>4 DEF LockInv, RefInv, TypeOK, OwingPoints
  <1>6. \A c \in Conns :
           /\ pc[c] \in {"dead", "new"} => c \notin snapshotTaken
           /\ c \in proxySet \/ pc[c] \in {"save", "set", "persist", "undo"}
                 => c \in snapshotTaken
    BY DEF RefInv
  <1>7. "crash" \in MayFail \/ "shutdown" \in Ops => CrashSafe
    BY DEF Survivable, OnlyCrashes
  <1>8. \A k \in Callers : cpc[k] = "exit" => "shutdown" \in Ops
    <2>1. \A k \in Callers : cpc[k] = "exit" => op[k] = "shutdown"
      BY ZenonT(40) DEF LockInv
    <2>2. op \in [Callers -> (Ops \cap Methods) \cup {"none"}]
      BY DEF TypeOK
    <2>. QED
      BY <2>1, <2>2
  <1>9. \A c \in Conns :
           pc[c] \in {"apply", "save", "set", "persist", "undo", "unsave",
                     "release", "restore"}
           => /\ conn = c /\ life = "up" /\ \A d \in proxySet \cap Conns : d = c
              /\ pc[c] \in {"apply", "save", "set", "unsave"} => c \notin proxySet
    BY <1>3, <1>4, ZenonT(40) DEF OwingPoints, FlowPoints, FinalPoints
  <1>10. BorrowSafe'
  <2>. USE DEF BorrowSafe, Settings, callerVars, flagVars, runVars,
               proxyVars, osVars
  <2>1. CASE Start
    <3>1. /\ life = "down" /\ life' \in {"up", "forgetting"} /\ snapshotTaken = {}
          /\ UNCHANGED <<persisted, snapshotTaken>>
          /\ \/ persisted = None /\ osProxy' = osProxy
             \/ persisted # None /\ osProxy' = persisted
      BY <2>1, <1>2, <1>5 DEF Start, RestoreOK, RestoreFails
    <3>. QED
      BY <1>1, <3>1
  <2>2. CASE StartForget
    BY <2>2, <1>1, <1>2, <1>5 DEF StartForget, ClearProxySnapshot
  <2>3. CASE Crash
    BY <2>3, <1>1, <1>2, <1>7 DEF Crash, Die, CrashSafe
  <2>4. CASE HandleProxyClear
    BY <2>4, <1>1, <1>2 DEF HandleProxyClear
  <2>5. ASSUME NEW k \in Callers, NEW o \in Ops \cap Methods, Call(k, o)
       PROVE  BorrowSafe'
    BY <2>5, <1>1, <1>2 DEF Call, CGoto
  <2>6. ASSUME NEW k \in Callers, NEW m \in Modes, SetMode(k, m)
       PROVE  BorrowSafe'
    BY <2>6, <1>1, <1>2 DEF SetMode, Return, CGoto
  <2>7. ASSUME NEW k \in Callers, NEW c \in Conns, Install(k, c)
       PROVE  BorrowSafe'
    BY <2>7, <1>1, <1>2 DEF Install, Stay, CGoto, Goto
  <2>8. ASSUME NEW k \in Callers, Acquire(k) PROVE BorrowSafe'
    BY <2>8, <1>1, <1>2 DEF Acquire, CGoto
  <2>9. ASSUME NEW k \in Callers, Disconnect(k) PROVE BorrowSafe'
    BY <2>9, <1>1, <1>2 DEF Disconnect, Return, Stay, CGoto
  <2>10. ASSUME NEW k \in Callers, Shutdown(k) PROVE BorrowSafe'
    BY <2>10, <1>1, <1>2 DEF Shutdown, Return, Stay, CGoto
  <2>11. ASSUME NEW k \in Callers, TeardownMark(k) PROVE BorrowSafe'
    BY <2>11, <1>1, <1>2 DEF TeardownMark, Return, Stay, CGoto
  <2>12. ASSUME NEW k \in Callers, Cancel(k) PROVE BorrowSafe'
    BY <2>12, <1>1, <1>2 DEF Cancel, Return, Stay, CGoto
  <2>13. ASSUME NEW k \in Callers, AwaitDone(k) PROVE BorrowSafe'
    BY <2>13, <1>1, <1>2 DEF AwaitDone, Return, Stay, CGoto
  <2>14. ASSUME NEW k \in Callers, Launch(k) PROVE BorrowSafe'
    BY <2>14, <1>1, <1>2 DEF Launch, Return, CGoto, Goto
  <2>15. ASSUME NEW k \in Callers, Exit(k) PROVE BorrowSafe'
    BY <2>15, <1>1, <1>2, <1>7, <1>8 DEF Exit, Die, CrashSafe
  <2>16. ASSUME NEW c \in Conns, Prepare(c) PROVE BorrowSafe'
    BY <2>16, <1>1, <1>2 DEF Prepare, End, Goto
  <2>17. ASSUME NEW c \in Conns, BeginSession(c) PROVE BorrowSafe'
    BY <2>17, <1>1, <1>2 DEF BeginSession, Goto
  <2>18. ASSUME NEW c \in Conns, FetchCandidates(c) PROVE BorrowSafe'
    BY <2>18, <1>1, <1>2 DEF FetchCandidates, End, Goto
  <2>19. ASSUME NEW c \in Conns, StartCandidate(c) PROVE BorrowSafe'
    BY <2>19, <1>1, <1>2 DEF StartCandidate, Goto
  <2>20. ASSUME NEW c \in Conns, ProbeCandidate(c) PROVE BorrowSafe'
    BY <2>20, <1>1, <1>2 DEF ProbeCandidate, Goto
  <2>21. ASSUME NEW c \in Conns, LadderEnds(c) PROVE BorrowSafe'
    BY <2>21, <1>1, <1>2 DEF LadderEnds, End, Goto
  <2>22. ASSUME NEW c \in Conns, Promote(c) PROVE BorrowSafe'
    BY <2>22, <1>1, <1>2 DEF Promote, Goto
  <2>23. ASSUME NEW c \in Conns, Bail(c) PROVE BorrowSafe'
    BY <2>23, <1>1, <1>2 DEF Bail, End, Goto
  <2>24. ASSUME NEW c \in Conns, ApplyProxy(c) PROVE BorrowSafe'
    <3>1. /\ conn = c /\ life = "up" /\ \A d \in proxySet \cap Conns : d = c
          /\ pc[c] \in {"apply", "save", "set", "unsave"} => c \notin proxySet
      BY <2>24, <1>9, ZenonT(40) DEF ApplyProxy
    <3>. QED
      BY <2>24, <1>1, <1>2, <1>6, <3>1
      DEF ApplyProxy, Goto
  <2>25. ASSUME NEW c \in Conns, ApplySave(c) PROVE BorrowSafe'
    <3>1. /\ conn = c /\ life = "up" /\ \A d \in proxySet \cap Conns : d = c
          /\ pc[c] \in {"apply", "save", "set", "unsave"} => c \notin proxySet
      BY <2>25, <1>9, ZenonT(40) DEF ApplySave
    <3>. QED
      BY <2>25, <1>1, <1>2, <1>6, <3>1
      DEF ApplySave, SaveProxySnapshot, Goto
  <2>26. ASSUME NEW c \in Conns, ApplySet(c) PROVE BorrowSafe'
    <3>1. /\ conn = c /\ life = "up" /\ \A d \in proxySet \cap Conns : d = c
          /\ pc[c] \in {"apply", "save", "set", "unsave"} => c \notin proxySet
      BY <2>26, <1>9, ZenonT(40) DEF ApplySet
    <3>. QED
      BY <2>26, <1>1, <1>2, <1>6, <3>1
      DEF ApplySet, SetOK, SetFails, Goto
  <2>27. ASSUME NEW c \in Conns, ApplyUndo(c) PROVE BorrowSafe'
    <3>1. /\ UNCHANGED <<life, persisted, snap, snapshotTaken>>
          /\ \/ osProxy' = snap[c] /\ c \in snapshotTaken
             \/ UNCHANGED <<osProxy, proxySet>>
      BY <2>27, <1>2, <1>6, ZenonT(40) DEF ApplyUndo, RestoreOK, RestoreFails
    <3>. QED
      BY <1>1, <3>1
  <2>28. ASSUME NEW c \in Conns, ApplyUnsave(c) PROVE BorrowSafe'
    <3>1. /\ conn = c /\ life = "up" /\ \A d \in proxySet \cap Conns : d = c
          /\ pc[c] \in {"apply", "save", "set", "unsave"} => c \notin proxySet
      BY <2>28, <1>9, ZenonT(40) DEF ApplyUnsave
    <3>. QED
      BY <2>28, <1>1, <1>2, <1>6, <3>1
      DEF ApplyUnsave, ClearProxySnapshot, Goto
  <2>29. ASSUME NEW c \in Conns, WatchCancelled(c) PROVE BorrowSafe'
    BY <2>29, <1>1, <1>2 DEF WatchCancelled, End, Goto
  <2>30. ASSUME NEW c \in Conns, Trigger(c) PROVE BorrowSafe'
    BY <2>30, <1>1, <1>2 DEF Trigger, End, Goto
  <2>31. ASSUME NEW c \in Conns, Tripped(c) PROVE BorrowSafe'
    BY <2>31, <1>1, <1>2 DEF Tripped, End, Goto
  <2>32. ASSUME NEW c \in Conns, Announce(c) PROVE BorrowSafe'
    BY <2>32, <1>1, <1>2 DEF Announce, Goto
  <2>33. ASSUME NEW c \in Conns, Drop(c) PROVE BorrowSafe'
    BY <2>33, <1>1, <1>2 DEF Drop, Goto
  <2>34. ASSUME NEW c \in Conns, Deactivate(c) PROVE BorrowSafe'
    BY <2>34, <1>1, <1>2 DEF Deactivate, Goto
  <2>35. ASSUME NEW c \in Conns, Release(c) PROVE BorrowSafe'
    <3>1. /\ UNCHANGED <<life, persisted, snap, snapshotTaken>>
          /\ \/ osProxy' = snap[c] /\ c \in snapshotTaken
             \/ UNCHANGED <<osProxy, proxySet>>
      BY <2>35, <1>2, <1>6, ZenonT(40) DEF Release, ReleaseProxy, RestoreOK, RestoreFails
    <3>. QED
      BY <1>1, <3>1
  <2>36. ASSUME NEW c \in Conns, Reladder(c) PROVE BorrowSafe'
    BY <2>36, <1>1, <1>2 DEF Reladder, End, Goto
  <2>37. ASSUME NEW c \in Conns, Finalize(c) PROVE BorrowSafe'
    BY <2>37, <1>1, <1>2 DEF Finalize, Goto
  <2>38. ASSUME NEW c \in Conns, CleanupDetach(c) PROVE BorrowSafe'
    BY <2>38, <1>1, <1>2 DEF CleanupDetach, Goto
  <2>39. ASSUME NEW c \in Conns, CleanupReap(c) PROVE BorrowSafe'
    BY <2>39, <1>1, <1>2 DEF CleanupReap, Goto
  <2>40. ASSUME NEW c \in Conns, CleanupRestore(c) PROVE BorrowSafe'
    <3>1. /\ UNCHANGED <<life, persisted, snap, snapshotTaken>>
          /\ \/ osProxy' = snap[c] /\ c \in snapshotTaken
             \/ UNCHANGED <<osProxy, proxySet>>
      BY <2>40, <1>2, <1>6, ZenonT(40) DEF CleanupRestore, ReleaseProxy, RestoreOK, RestoreFails
    <3>. QED
      BY <1>1, <3>1
  <2>41. ASSUME NEW c \in Conns, CleanupForget(c) PROVE BorrowSafe'
    BY <2>41, <1>1, <1>2, <1>3
    DEF CleanupForget, ClearProxySnapshot, Goto, FlowPoints, FinalPoints
  <2>42. ASSUME NEW c \in Conns, SampleIntent(c) PROVE BorrowSafe'
    BY <2>42, <1>1, <1>2 DEF SampleIntent, Goto
  <2>43. ASSUME NEW c \in Conns, EmitTerminal(c) PROVE BorrowSafe'
    BY <2>43, <1>1, <1>2 DEF EmitTerminal, Goto
  <2>44. ASSUME NEW c \in Conns, TerminalFlush(c) PROVE BorrowSafe'
    BY <2>44, <1>1, <1>2 DEF TerminalFlush, Goto
  <2>45. ASSUME NEW c \in Conns, ClearConn(c) PROVE BorrowSafe'
    BY <2>45, <1>1, <1>2 DEF ClearConn, Goto
  <2>46. ASSUME NEW c \in Conns, CloseDone(c) PROVE BorrowSafe'
    <3>1. c \notin proxySet
      BY <2>46, <1>4 DEF CloseDone, OwingPoints
    <3>. QED
      BY <2>46, <1>1, <3>1 DEF CloseDone, Goto
  <2>47. CASE UNCHANGED vars
    BY <2>47, <1>1, <1>2 DEF vars
  <2>. HIDE DEF BorrowSafe
  <2>. QED
    BY ZenonT(40), <2>1, <2>2, <2>3, <2>4, <2>5, <2>6, <2>7, <2>8, <2>9, <2>10, <2>11,
       <2>12, <2>13, <2>14, <2>15, <2>16, <2>17, <2>18, <2>19, <2>20,
       <2>21, <2>22, <2>23, <2>24, <2>25, <2>26, <2>27, <2>28, <2>29,
       <2>30, <2>31, <2>32, <2>33, <2>34, <2>35, <2>36, <2>37, <2>38,
       <2>39, <2>40, <2>41, <2>42, <2>43, <2>44, <2>45, <2>46, <2>47
       DEF Next, Process, Method, RunConnect, ConnectFlow, Supervise,
           FinalizeConn
  <1>. QED
    BY <1>10

\* Where only the process can die, the store keeps the user's setting for as
\* long as the session may need it.
LEMMA CrashStep ==
    TypeOK /\ RefInv /\ LockInv /\ OwedInv /\ SnapshotInv /\ [Next]_vars
        => (OnlyCrashes => CrashSafe')
  <1> SUFFICES ASSUME TypeOK, RefInv, LockInv, OwedInv, BorrowSafe, CrashSafe,
                      OnlyCrashes, [Next]_vars
               PROVE  CrashSafe'
    BY DEF SnapshotInv, Survivable
  <1>1. /\ pc \in [Conns -> Points] /\ snap \in [Conns -> Settings \cup {None}]
        /\ osProxy \in Settings /\ persisted \in Settings \cup {None}
        /\ Cleared \in UserProxies /\ Ours \notin UserProxies
        /\ None \notin UserProxies /\ Ours # None
    BY ConstantsAssumption DEF TypeOK, Settings
  <1>2. "restore" \notin MayFail /\ "set" \notin MayFail /\ "store" \notin MayFail
    BY DEF Survivable, OnlyCrashes
  <1>3. \A c \in Conns : pc[c] \in FlowPoints \cup FinalPoints
           => conn = c /\ life = "up"
    BY DEF LockInv, Running, FlowPoints, FinalPoints
  <1>4. \A c \in Conns : c \in proxySet => pc[c] \in OwingPoints /\ conn = c
    BY <1>2, <1>3 DEF OwedInv, OwingPoints, FlowPoints, FinalPoints
  <1>5. life # "up" => proxySet = {} /\ snapshotTaken = {}
    BY <1>4 DEF LockInv, RefInv, TypeOK, OwingPoints
  <1>6. \A c \in Conns :
           /\ pc[c] \in {"dead", "new"} => c \notin snapshotTaken
           /\ c \in proxySet \/ pc[c] \in {"save", "set", "persist", "undo"}
                 => c \in snapshotTaken
    BY ZenonT(40) DEF RefInv
  <1>7. \A k \in Callers : cpc[k] = "launch" => pc[held[k]] = "new"
    BY DEF LockInv
  <1>8. /\ persisted # Ours
        /\ osProxy = Ours /\ life # "down" => \E c \in Conns : c \in proxySet
        /\ \A c \in Conns : c \in snapshotTaken => snap[c] \in UserProxies
    BY DEF BorrowSafe
  <1>9. CrashSafe'
  <2>. USE DEF CrashSafe, UnsavedPoints, Settings, callerVars, flagVars,
               runVars, proxyVars, osVars
  <2>1. CASE Start
    BY <2>1, <1>1, <1>2, <1>5, <1>8 DEF Start, RestoreOK, RestoreFails
  <2>2. CASE StartForget
    BY <2>2, <1>1, <1>2, <1>5, <1>8 DEF StartForget, ClearProxySnapshot
  <2>3. CASE Crash
    BY <2>3, <1>1, <1>2, <1>5 DEF Crash, Die
  <2>4. CASE HandleProxyClear
    BY <2>4, <1>1, <1>2 DEF HandleProxyClear
  <2>5. ASSUME NEW k \in Callers, NEW o \in Ops \cap Methods, Call(k, o)
       PROVE  CrashSafe'
    BY <2>5, <1>1, <1>2 DEF Call, CGoto
  <2>6. ASSUME NEW k \in Callers, NEW m \in Modes, SetMode(k, m)
       PROVE  CrashSafe'
    BY <2>6, <1>1, <1>2 DEF SetMode, Return, CGoto
  <2>7. ASSUME NEW k \in Callers, NEW c \in Conns, Install(k, c)
       PROVE  CrashSafe'
    BY <2>7, <1>1, <1>2, <1>6 DEF Install, Stay, CGoto, Goto
  <2>8. ASSUME NEW k \in Callers, Acquire(k) PROVE CrashSafe'
    BY <2>8, <1>1, <1>2 DEF Acquire, CGoto
  <2>9. ASSUME NEW k \in Callers, Disconnect(k) PROVE CrashSafe'
    BY <2>9, <1>1, <1>2 DEF Disconnect, Return, Stay, CGoto
  <2>10. ASSUME NEW k \in Callers, Shutdown(k) PROVE CrashSafe'
    BY <2>10, <1>1, <1>2 DEF Shutdown, Return, Stay, CGoto
  <2>11. ASSUME NEW k \in Callers, TeardownMark(k) PROVE CrashSafe'
    BY <2>11, <1>1, <1>2 DEF TeardownMark, Return, Stay, CGoto
  <2>12. ASSUME NEW k \in Callers, Cancel(k) PROVE CrashSafe'
    BY <2>12, <1>1, <1>2 DEF Cancel, Return, Stay, CGoto
  <2>13. ASSUME NEW k \in Callers, AwaitDone(k) PROVE CrashSafe'
    BY <2>13, <1>1, <1>2 DEF AwaitDone, Return, Stay, CGoto
  <2>14. ASSUME NEW k \in Callers, Launch(k) PROVE CrashSafe'
    BY <2>14, <1>1, <1>2, <1>6, <1>7 DEF Launch, Return, CGoto, Goto
  <2>15. ASSUME NEW k \in Callers, Exit(k) PROVE CrashSafe'
    BY <2>15, <1>1, <1>2, <1>5 DEF Exit, Die
  <2>16. ASSUME NEW c \in Conns, Prepare(c) PROVE CrashSafe'
    BY <2>16, <1>1, <1>2 DEF Prepare, End, Goto
  <2>17. ASSUME NEW c \in Conns, BeginSession(c) PROVE CrashSafe'
    BY <2>17, <1>1, <1>2 DEF BeginSession, Goto
  <2>18. ASSUME NEW c \in Conns, FetchCandidates(c) PROVE CrashSafe'
    BY <2>18, <1>1, <1>2 DEF FetchCandidates, End, Goto
  <2>19. ASSUME NEW c \in Conns, StartCandidate(c) PROVE CrashSafe'
    BY <2>19, <1>1, <1>2 DEF StartCandidate, Goto
  <2>20. ASSUME NEW c \in Conns, ProbeCandidate(c) PROVE CrashSafe'
    BY <2>20, <1>1, <1>2 DEF ProbeCandidate, Goto
  <2>21. ASSUME NEW c \in Conns, LadderEnds(c) PROVE CrashSafe'
    BY <2>21, <1>1, <1>2 DEF LadderEnds, End, Goto
  <2>22. ASSUME NEW c \in Conns, Promote(c) PROVE CrashSafe'
    BY <2>22, <1>1, <1>2 DEF Promote, Goto
  <2>23. ASSUME NEW c \in Conns, Bail(c) PROVE CrashSafe'
    BY <2>23, <1>1, <1>2 DEF Bail, End, Goto
  <2>24. ASSUME NEW c \in Conns, ApplyProxy(c) PROVE CrashSafe'
    BY ZenonT(40), <2>24, <1>1, <1>2, <1>3, <1>4, <1>6, <1>8
    DEF ApplyProxy, Goto, OwingPoints, FlowPoints, FinalPoints
  <2>25. ASSUME NEW c \in Conns, ApplySave(c) PROVE CrashSafe'
    BY <2>25, <1>1, <1>2, <1>3, <1>4, <1>6, <1>8
    DEF ApplySave, SaveProxySnapshot, Goto, OwingPoints, FlowPoints,
        FinalPoints
  <2>26. ASSUME NEW c \in Conns, ApplySet(c) PROVE CrashSafe'
    BY <2>26, <1>1, <1>2, <1>3, <1>4, <1>6, <1>8
    DEF ApplySet, SetOK, SetFails, Goto, OwingPoints, FlowPoints,
        FinalPoints
  <2>27. ASSUME NEW c \in Conns, ApplyUndo(c) PROVE CrashSafe'
    BY <2>27, <1>1, <1>2, <1>3, <1>4, <1>6, <1>8
    DEF ApplyUndo, RestoreOK, RestoreFails, Goto, OwingPoints, FlowPoints,
        FinalPoints
  <2>28. ASSUME NEW c \in Conns, ApplyUnsave(c) PROVE CrashSafe'
    BY <2>28, <1>1, <1>2 DEF ApplyUnsave, ClearProxySnapshot, Goto
  <2>29. ASSUME NEW c \in Conns, WatchCancelled(c) PROVE CrashSafe'
    BY <2>29, <1>1, <1>2 DEF WatchCancelled, End, Goto
  <2>30. ASSUME NEW c \in Conns, Trigger(c) PROVE CrashSafe'
    BY <2>30, <1>1, <1>2 DEF Trigger, End, Goto
  <2>31. ASSUME NEW c \in Conns, Tripped(c) PROVE CrashSafe'
    BY <2>31, <1>1, <1>2 DEF Tripped, End, Goto
  <2>32. ASSUME NEW c \in Conns, Announce(c) PROVE CrashSafe'
    BY <2>32, <1>1, <1>2 DEF Announce, Goto
  <2>33. ASSUME NEW c \in Conns, Drop(c) PROVE CrashSafe'
    BY <2>33, <1>1, <1>2 DEF Drop, Goto
  <2>34. ASSUME NEW c \in Conns, Deactivate(c) PROVE CrashSafe'
    BY <2>34, <1>1, <1>2 DEF Deactivate, Goto
  <2>35. ASSUME NEW c \in Conns, Release(c) PROVE CrashSafe'
    BY <2>35, <1>1, <1>2, <1>3, <1>4, <1>6, <1>8
    DEF Release, ReleaseProxy, RestoreOK, RestoreFails, Goto, OwingPoints,
        FlowPoints, FinalPoints
  <2>36. ASSUME NEW c \in Conns, Reladder(c) PROVE CrashSafe'
    BY <2>36, <1>1, <1>2 DEF Reladder, End, Goto
  <2>37. ASSUME NEW c \in Conns, Finalize(c) PROVE CrashSafe'
    BY <2>37, <1>1, <1>2 DEF Finalize, Goto
  <2>38. ASSUME NEW c \in Conns, CleanupDetach(c) PROVE CrashSafe'
    BY <2>38, <1>1, <1>2 DEF CleanupDetach, Goto
  <2>39. ASSUME NEW c \in Conns, CleanupReap(c) PROVE CrashSafe'
    BY <2>39, <1>1, <1>2 DEF CleanupReap, Goto
  <2>40. ASSUME NEW c \in Conns, CleanupRestore(c) PROVE CrashSafe'
    BY <2>40, <1>1, <1>2, <1>3, <1>4, <1>6, <1>8
    DEF CleanupRestore, ReleaseProxy, RestoreOK, RestoreFails, Goto,
        OwingPoints, FlowPoints, FinalPoints
  <2>41. ASSUME NEW c \in Conns, CleanupForget(c) PROVE CrashSafe'
    <3>1. osProxy # Ours
      BY <2>41, <1>3, <1>4, <1>8 DEF CleanupForget, FinalPoints, OwingPoints
    <3>2. \A d \in Conns : d \in snapshotTaken => d = c \/ pc[d] = "exit"
      BY <2>41, <1>1, <1>3, <1>6 DEF CleanupForget, Points, FinalPoints
    <3>. QED
      BY <2>41, <1>1, <1>2, <3>1, <3>2
      DEF CleanupForget, ClearProxySnapshot, Goto
  <2>42. ASSUME NEW c \in Conns, SampleIntent(c) PROVE CrashSafe'
    BY <2>42, <1>1, <1>2 DEF SampleIntent, Goto
  <2>43. ASSUME NEW c \in Conns, EmitTerminal(c) PROVE CrashSafe'
    BY <2>43, <1>1, <1>2 DEF EmitTerminal, Goto
  <2>44. ASSUME NEW c \in Conns, TerminalFlush(c) PROVE CrashSafe'
    BY <2>44, <1>1, <1>2 DEF TerminalFlush, Goto
  <2>45. ASSUME NEW c \in Conns, ClearConn(c) PROVE CrashSafe'
    BY <2>45, <1>1, <1>2 DEF ClearConn, Goto
  <2>46. ASSUME NEW c \in Conns, CloseDone(c) PROVE CrashSafe'
    <3>1. c \notin proxySet
      BY <2>46, <1>4 DEF CloseDone, OwingPoints
    <3>. QED
      BY <2>46, <1>1, <3>1 DEF CloseDone, Goto
  <2>47. CASE UNCHANGED vars
    BY <2>47, <1>1, <1>2 DEF vars
  <2>. HIDE DEF CrashSafe
  <2>. QED
    BY ZenonT(40), <2>1, <2>2, <2>3, <2>4, <2>5, <2>6, <2>7, <2>8, <2>9, <2>10, <2>11,
       <2>12, <2>13, <2>14, <2>15, <2>16, <2>17, <2>18, <2>19, <2>20,
       <2>21, <2>22, <2>23, <2>24, <2>25, <2>26, <2>27, <2>28, <2>29,
       <2>30, <2>31, <2>32, <2>33, <2>34, <2>35, <2>36, <2>37, <2>38,
       <2>39, <2>40, <2>41, <2>42, <2>43, <2>44, <2>45, <2>46, <2>47
       DEF Next, Process, Method, RunConnect, ConnectFlow, Supervise,
           FinalizeConn
  <1>. QED
    BY <1>9

-----------------------------------------------------------------------------
(* The theorems *)

\* The initial states satisfy the invariant.
LEMMA InitInv == Init => TypeOK /\ EngineInv
  <1> SUFFICES ASSUME Init PROVE TypeOK /\ EngineInv
    OBVIOUS
  <1>. USE ConstantsAssumption DEF Init, FreshEngine
  <1>1. TypeOK
    BY DEF TypeOK, Settings, Modes, Statuses, Methods, Points, CallerPoints
  <1>2. RefInv /\ LockInv
    BY DEF RefInv, LockInv, InMethod, Running, FlowPoints, FinalPoints
  <1>3. TunnelInv /\ StatusInv /\ OwedInv
    BY DEF TunnelInv, StatusInv, OwedInv, QuietPoints, FinalPoints, Terminal,
           ActivePoints
  <1>4. SnapshotInv
    BY DEF SnapshotInv, BorrowSafe, CrashSafe
  <1>. QED
    BY <1>1, <1>2, <1>3, <1>4 DEF EngineInv

\* The engine's inductive invariant: types, no nil dereference, one method at a
\* time in charge of s.conn, tunnels bound to their connection, the status
\* following the connection, and the user's proxy setting always recoverable.
THEOREM Inductive == Spec => [](TypeOK /\ EngineInv)
  <1>1. TypeOK /\ EngineInv /\ [Next]_vars => (TypeOK /\ EngineInv)'
    BY TypeStep, RefStep, LockStep, TunnelStep, StatusStep, OwedStep,
       BorrowStep, CrashStep DEF EngineInv, SnapshotInv
  <1>. QED
    BY InitInv, <1>1, PTL DEF Spec

\* The engine's state stays well typed.
THEOREM TypeCorrect == Spec => []TypeOK
  BY Inductive, PTL

\* A running connection, a live tunnel or a published candidate always belongs
\* to s.conn: no orphan survives a Connect, a Disconnect or a switch.
THEOREM NoOrphanProved == Spec => []NoOrphan
  <1>1. TypeOK /\ EngineInv => NoOrphan
    BY ZenonT(40)
    DEF EngineInv, LockInv, TunnelInv, NoOrphan, Running, ActivePoints,
        FlowPoints, FinalPoints
  <1>. QED
    BY <1>1, Inductive, PTL

\* The reported telemetry session is always the current connection's.
THEOREM SessionProved == Spec => []SessionBelongsToConn
  <1>1. EngineInv => SessionBelongsToConn
    BY ZenonT(40) DEF EngineInv, LockInv, SessionBelongsToConn
  <1>. QED
    BY <1>1, Inductive, PTL

\* A terminal status is only published once the tunnel is gone and the OS proxy
\* was put back or Restore failed.
THEOREM TerminalProved == Spec => []TerminalHoldsNothing
  <1>1. TypeOK /\ EngineInv => TerminalHoldsNothing
    <2>. SUFFICES ASSUME TypeOK, EngineInv, status \in Terminal, NEW c \in Conns
                  PROVE  /\ c \notin tunnel /\ c \notin active
                         /\ c \in proxySet => "restore" \in MayFail
      BY ZenonT(40) DEF TerminalHoldsNothing
    <2>1. pc[c] \in QuietPoints
      BY DEF EngineInv, StatusInv
    <2>. QED
      BY <2>1 DEF EngineInv, TunnelInv, OwedInv, ActivePoints, OwingPoints,
                  QuietPoints
  <1>. QED
    BY <1>1, Inductive, PTL

\* After any survivable failure, an engine at rest has given the OS proxy back.
THEOREM ProxyReturnedProved == Spec => []ProxyReturned
  <1>1. TypeOK /\ EngineInv => ProxyReturned
    <2>. SUFFICES ASSUME TypeOK, EngineInv, life = "up", status \in Terminal,
                         Survivable, osProxy = Ours
                  PROVE  FALSE
      BY DEF ProxyReturned, TypeOK, Settings
    <2>1. PICK c \in Conns : c \in proxySet
      BY DEF EngineInv, SnapshotInv, BorrowSafe
    <2>2. pc[c] \in OwingPoints
      BY <2>1 DEF EngineInv, OwedInv, Survivable, OnlyCrashes
    <2>. QED
      BY <2>2 DEF EngineInv, StatusInv, OwingPoints, QuietPoints
  <1>. QED
    BY <1>1, Inductive, PTL

\* Where only crashes happen, the user's setting is on disk whenever the OS
\* proxy points at the core: no crash, at any instant, strands the user.
THEOREM CrashRecoverableProved == Spec => []CrashRecoverable
  <1>1. EngineInv => CrashRecoverable
    BY DEF EngineInv, SnapshotInv, CrashSafe, CrashRecoverable
  <1>. QED
    BY <1>1, Inductive, PTL

\* Only a launch and SetMode write the mode.
LEMMA ModeFrame ==
    ASSUME [Next]_vars, mode' # mode
    PROVE  Start \/ \E k \in Callers, m \in Modes : SetMode(k, m)
  <1>1. ASSUME NEW c \in Conns, ConnectFlow(c) PROVE mode' = mode
    BY ZenonT(40), <1>1
    DEF ConnectFlow, Prepare, BeginSession, FetchCandidates, StartCandidate,
        ProbeCandidate, LadderEnds, Promote, Bail, ApplyProxy, ApplySave,
        ApplySet, ApplyUndo, ApplyUnsave
  <1>2. ASSUME NEW c \in Conns, Supervise(c) \/ Trigger(c) PROVE mode' = mode
    BY <1>2
    DEF Supervise, Trigger, WatchCancelled, Tripped, Announce, Drop,
        Deactivate, Release, Reladder
  <1>3. ASSUME NEW c \in Conns, FinalizeConn(c) PROVE mode' = mode
    BY ZenonT(40), <1>3
    DEF FinalizeConn, Finalize, CleanupDetach, CleanupReap, CleanupRestore,
        CleanupForget, SampleIntent, EmitTerminal, TerminalFlush, ClearConn,
        CloseDone
  <1>4. ASSUME NEW k \in Callers,
               \/ \E o \in Ops \cap Methods : Call(k, o)
               \/ Acquire(k) \/ Disconnect(k) \/ Shutdown(k)
               \/ TeardownMark(k) \/ Cancel(k) \/ AwaitDone(k) \/ Launch(k)
               \/ Exit(k) \/ \E c \in Conns : Install(k, c)
        PROVE  mode' = mode
    BY ZenonT(40), <1>4
    DEF Call, Acquire, Disconnect, Shutdown, TeardownMark, Cancel, AwaitDone,
        Launch, Exit, Install, Die
  <1>5. CASE StartForget \/ Crash \/ HandleProxyClear
    BY <1>5 DEF StartForget, Crash, HandleProxyClear, Die
  <1>6. CASE UNCHANGED vars
    BY <1>6 DEF vars
  <1>. QED
    BY <1>1, <1>2, <1>3, <1>4, <1>5, <1>6 DEF Next, Process, Method, RunConnect

\* SetMode never lands under a running session or inside a switch.
THEOREM ModeFixedProved == Spec => ModeFixedInSession
  <1>1. ASSUME TypeOK, EngineInv, [Next]_vars, mode' # mode, life = "up"
        PROVE  /\ \A c \in Conns : ~Running(c)
               /\ \A k \in Callers : cpc[k] \notin {"cancel", "wait",
                                                    "install", "launch"}
    <2>1. PICK k \in Callers, m \in Modes : SetMode(k, m)
      BY <1>1, ModeFrame DEF Start
    <2>2. cpc[k] = "locked" /\ conn = None
      BY <1>1, <2>1 DEF SetMode
    <2>3. \A j \in Callers : j # k => cpc[j] \notin InMethod
      BY <1>1, <2>2 DEF EngineInv, LockInv, InMethod
    <2>. QED
      BY <1>1, <2>2, <2>3, ConstantsAssumption, ZenonT(40) DEF EngineInv, LockInv, InMethod
  <1>. QED
    BY <1>1, Inductive, PTL DEF Spec, ModeFixedInSession

\* Only Shutdown's own returns take a caller to its exit, with s.conn empty.
LEMMA ExitFrame ==
    ASSUME TypeOK, EngineInv, [Next]_vars,
           NEW k \in Callers, cpc[k] # "exit", cpc'[k] = "exit"
    PROVE  /\ conn = None /\ life = "up"
           /\ UNCHANGED <<conn, status, pc, runVars, proxyVars, osVars>>
  <1>. USE DEF CGoto
  <1>0. cpc \in [Callers -> CallerPoints]
    BY DEF TypeOK
  <1>1. ASSUME NEW c \in Conns, ConnectFlow(c) PROVE cpc' = cpc
    BY ZenonT(40), <1>1
    DEF ConnectFlow, Prepare, BeginSession, FetchCandidates, StartCandidate,
        ProbeCandidate, LadderEnds, Promote, Bail, ApplyProxy, ApplySave,
        ApplySet, ApplyUndo, ApplyUnsave, callerVars
  <1>2. ASSUME NEW c \in Conns, Supervise(c) \/ Trigger(c) PROVE cpc' = cpc
    BY ZenonT(40), <1>2
    DEF Supervise, Trigger, WatchCancelled, Tripped, Announce, Drop,
        Deactivate, Release, Reladder, callerVars
  <1>3. ASSUME NEW c \in Conns, FinalizeConn(c) PROVE cpc' = cpc
    BY ZenonT(40), <1>3
    DEF FinalizeConn, Finalize, CleanupDetach, CleanupReap, CleanupRestore,
        CleanupForget, SampleIntent, EmitTerminal, TerminalFlush, ClearConn,
        CloseDone, callerVars
  <1>4. ASSUME NEW j \in Callers,
               \/ \E o \in Ops \cap Methods : Call(j, o)
               \/ \E c \in Conns : Install(j, c)
               \/ \E m \in Modes : SetMode(j, m)
               \/ Acquire(j) \/ Disconnect(j) \/ Cancel(j) \/ Launch(j)
               \/ Exit(j)
        PROVE  cpc'[k] # "exit"
    BY <1>0, <1>4, ZenonT(40)
    DEF Call, Install, SetMode, Acquire, Disconnect, Cancel, Launch, Exit,
        Return, Stay, Die, EngineInv, LockInv
  <1>5. ASSUME NEW j \in Callers, Shutdown(j) \/ TeardownMark(j)
        PROVE  /\ conn = None /\ life = "up"
               /\ UNCHANGED <<conn, status, pc, runVars, proxyVars, osVars>>
    BY ZenonT(40), <1>0, <1>5
    DEF Shutdown, TeardownMark, Return, Stay, EngineInv, LockInv
  <1>6. ASSUME NEW j \in Callers, AwaitDone(j)
        PROVE  /\ conn = None /\ life = "up"
               /\ UNCHANGED <<conn, status, pc, runVars, proxyVars, osVars>>
    BY <1>0, <1>6, ZenonT(40)
    DEF AwaitDone, Return, Stay, EngineInv, LockInv, RefInv, Running, TypeOK,
        FlowPoints, FinalPoints
  <1>7. CASE Process
    BY <1>7 DEF Process, Start, StartForget, Crash, HandleProxyClear, Die,
                callerVars
  <1>8. CASE UNCHANGED vars
    BY <1>8 DEF vars, callerVars
  <1>. QED
    BY <1>1, <1>2, <1>3, <1>4, <1>5, <1>6, <1>7, <1>8
    DEF Next, Method, RunConnect

\* When Shutdown returns the tunnel is down, a terminal status is published and
\* the OS proxy is the user's.
THEOREM ShutdownProved == Spec => ShutdownReleases
  <1>1. ASSUME TypeOK, EngineInv, [Next]_vars,
               NEW k \in Callers, cpc[k] # "exit", cpc'[k] = "exit"
        PROVE  /\ \A c \in Conns : c \notin tunnel' /\ c \notin active'
               /\ status' \in Terminal
               /\ OnlyCrashes => osProxy' \in UserProxies
    <2>1. /\ conn = None /\ life = "up"
          /\ UNCHANGED <<status, pc, runVars, proxyVars, osVars>>
      BY ZenonT(40), <1>1, ExitFrame
    <2>2. status \in Terminal /\ \A c \in Conns : ~Running(c)
      BY <1>1, <2>1, ConstantsAssumption, ZenonT(40) DEF EngineInv, StatusInv, LockInv
    <2>3. \A c \in Conns : c \notin tunnel /\ c \notin active
      BY <1>1, <2>2, ZenonT(40) DEF EngineInv, TunnelInv, ActivePoints, Running, FlowPoints,
                        FinalPoints
    <2>4. ASSUME OnlyCrashes, osProxy = Ours PROVE FALSE
      <3>1. PICK c \in Conns : c \in proxySet
        BY <1>1, <2>1, <2>4 DEF EngineInv, SnapshotInv, BorrowSafe, Survivable
      <3>. QED
        BY <1>1, <2>2, <2>4, <3>1
        DEF EngineInv, OwedInv, OwingPoints, Running, FlowPoints, FinalPoints,
            OnlyCrashes
    <2>. QED
      BY <1>1, <2>1, <2>2, <2>3, <2>4
      DEF runVars, osVars, TypeOK, Settings
  <1>2. TypeOK /\ EngineInv /\ [Next]_vars =>
          \A k \in Callers :
             cpc[k] # "exit" /\ cpc'[k] = "exit" =>
                 /\ \A c \in Conns : c \notin tunnel' /\ c \notin active'
                 /\ status' \in Terminal
                 /\ OnlyCrashes => osProxy' \in UserProxies
    BY <1>1
  <1>. QED
    BY <1>2, Inductive, PTL DEF Spec, ShutdownReleases

\* What may write the status while it is DISCONNECTING.
LEMMA StatusFrame ==
    ASSUME [Next]_vars, status = "disconnecting", status' # status
    PROVE  \/ status' = "disconnected" \/ status' = "connecting"
           \/ \E k \in Callers : Launch(k)
           \/ \E c \in Conns : Promote(c) \/ EmitTerminal(c)
  <1>1. ASSUME NEW c \in Conns, ConnectFlow(c)
        PROVE  status' \in {status, "connecting"} \/ Promote(c)
    BY ZenonT(40), <1>1
    DEF ConnectFlow, Prepare, BeginSession, FetchCandidates, StartCandidate,
        ProbeCandidate, LadderEnds, Bail, ApplyProxy, ApplySave, ApplySet,
        ApplyUndo, ApplyUnsave
  <1>2. ASSUME NEW c \in Conns, Supervise(c) \/ Trigger(c)
        PROVE  status' \in {status, "connecting"}
    BY ZenonT(40), <1>2
    DEF Supervise, Trigger, WatchCancelled, Tripped, Announce, Drop,
        Deactivate, Release, Reladder
  <1>3. ASSUME NEW c \in Conns, FinalizeConn(c)
        PROVE  status' = status \/ EmitTerminal(c)
    BY ZenonT(40), <1>3
    DEF FinalizeConn, Finalize, CleanupDetach, CleanupReap, CleanupRestore,
        CleanupForget, SampleIntent, TerminalFlush, ClearConn, CloseDone
  <1>4. ASSUME NEW k \in Callers,
               \/ \E o \in Ops \cap Methods : Call(k, o)
               \/ \E c \in Conns : Install(k, c)
               \/ \E m \in Modes : SetMode(k, m)
               \/ Acquire(k) \/ Disconnect(k) \/ Shutdown(k)
               \/ TeardownMark(k) \/ Cancel(k) \/ AwaitDone(k) \/ Exit(k)
        PROVE  status' \in {status, "disconnecting", "disconnected"}
    BY ZenonT(40), <1>4
    DEF Call, Install, SetMode, Acquire, Disconnect, Shutdown, TeardownMark,
        Cancel, AwaitDone, Exit, Die
  <1>5. CASE Process
    BY <1>5 DEF Process, Start, StartForget, Crash, HandleProxyClear, Die
  <1>6. CASE UNCHANGED vars
    BY <1>6 DEF vars
  <1>. QED
    BY <1>1, <1>2, <1>3, <1>4, <1>5, <1>6 DEF Next, Method, RunConnect

\* A published DISCONNECTING never turns into PREPARING, CONNECTED or FAILED.
THEOREM DisconnectingProved == Spec => DisconnectingPath
  <1>1. ASSUME TypeOK, EngineInv, [Next]_vars,
               status = "disconnecting", status' # status
        PROVE  status' \in {"connecting", "disconnected"}
    <2>1. conn \in Conns /\ conn \in disconnecting /\ pc[conn] # "broken"
      BY <1>1 DEF EngineInv, StatusInv, TypeOK
    <2>2. ASSUME NEW k \in Callers, Launch(k) PROVE FALSE
      BY <1>1, <2>2, ZenonT(40) DEF Launch, EngineInv, LockInv, StatusInv, QuietPoints,
                        Terminal
    <2>3. ASSUME NEW c \in Conns, Promote(c) PROVE FALSE
      BY <1>1, <2>1, <2>3, ZenonT(40) DEF Promote, EngineInv, LockInv, Running, FlowPoints
    <2>4. ASSUME NEW c \in Conns, EmitTerminal(c) PROVE status' = "disconnected"
      BY <1>1, <2>1, <2>4, ZenonT(40) DEF EmitTerminal, EngineInv, LockInv, Running,
                              FinalPoints
    <2>. QED
      BY <1>1, <2>2, <2>3, <2>4, StatusFrame
  <1>. QED
    BY <1>1, Inductive, PTL DEF Spec, DisconnectingPath

\* Who may turn the OS proxy to the core's port while the process runs.
LEMMA ProxyFrame ==
    ASSUME [Next]_vars, life = "up", osProxy # Ours, osProxy' = Ours
    PROVE  \E c \in Conns : pc[c] \in {"set", "undo", "release", "restore"}
  <1>1. ASSUME NEW c \in Conns, ConnectFlow(c)
        PROVE  osProxy' = osProxy \/ pc[c] \in {"set", "undo"}
    BY ZenonT(40), <1>1
    DEF ConnectFlow, Prepare, BeginSession, FetchCandidates, StartCandidate,
        ProbeCandidate, LadderEnds, Bail, ApplyProxy, ApplySave, ApplySet,
        ApplyUndo, ApplyUnsave, Promote, osVars, SaveProxySnapshot, ClearProxySnapshot
  <1>2. ASSUME NEW c \in Conns, Supervise(c) \/ Trigger(c)
        PROVE  osProxy' = osProxy \/ pc[c] = "release"
    BY ZenonT(40), <1>2
    DEF Supervise, Trigger, WatchCancelled, Tripped, Announce, Drop,
        Deactivate, Release, Reladder, osVars
  <1>3. ASSUME NEW c \in Conns, FinalizeConn(c)
        PROVE  osProxy' = osProxy \/ pc[c] = "restore"
    BY ZenonT(40), <1>3
    DEF FinalizeConn, Finalize, CleanupDetach, CleanupReap, CleanupRestore,
        CleanupForget, SampleIntent, TerminalFlush, ClearConn, CloseDone, EmitTerminal,
        osVars, ClearProxySnapshot
  <1>4. ASSUME NEW k \in Callers,
               \/ \E o \in Ops \cap Methods : Call(k, o)
               \/ Acquire(k) \/ Method(k)
        PROVE  osProxy' = osProxy
    BY ZenonT(40), <1>4
    DEF Method, Call, Install, SetMode, Acquire, Disconnect, Shutdown, TeardownMark,
        Cancel, AwaitDone, Launch, Exit, Die, osVars
  <1>5. CASE Process
    BY <1>5, ConstantsAssumption
    DEF Process, Start, StartForget, Crash, HandleProxyClear, Die, osVars, ClearProxySnapshot
  <1>6. CASE UNCHANGED vars
    BY <1>6 DEF vars, osVars
  <1>. QED
    BY <1>1, <1>2, <1>3, <1>4, <1>5, <1>6 DEF Next, RunConnect

\* Whatever OS and store calls fail, an engine at rest leaves the OS proxy alone: only
\* applyProxy and releaseProxy turn it, before their connection publishes its end.
THEOREM NeverSetProved == Spec => NeverSetAtRest
  <1>1. ASSUME TypeOK, EngineInv, [Next]_vars,
               life = "up", osProxy # Ours, osProxy' = Ours
        PROVE  status \notin Terminal
    <2>1. PICK c \in Conns : pc[c] \in {"set", "undo", "release", "restore"}
      BY <1>1, ProxyFrame
    <2>. QED
      BY <1>1, <2>1 DEF EngineInv, StatusInv, QuietPoints
  <1>. QED
    BY <1>1, Inductive, PTL DEF Spec, NeverSetAtRest
=============================================================================

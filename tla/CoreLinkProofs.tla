--------------------------- MODULE CoreLinkProofs ---------------------------
(* Proofs about CoreManager, for every set of threads and of methods they   *)
(* may call at once, any number of cores, and whatever may fail.            *)
EXTENDS CoreLinkProps, TLAPS

\* The steps of the two watching threads.
HbSteps == HbWait \/ HbDue \/ HbBeat \/ HbFailed
WtSteps == WtBegin \/ WtWatch

\* What the core processes do never touches the app, and adds none of ours.
LEMMA CoreFrame ==
    ASSUME NEW p \in Cores, TypeOK, CoreNext(p)
    PROVE  /\ UNCHANGED <<mgrVars, watchVars, threadVars, asked>>
           /\ mine' = mine \/ mine' = mine \ {p}
           /\ file' \in {file, p, None}
           /\ \E s \in CorePoints : /\ core' = [core EXCEPT ![p] = s]
                                    /\ s = "none" => mine' = mine \ {p}
           /\ elevated' = elevated \/ (elevated' = elevated \ {p}
                                       /\ mine' = mine \ {p})
  BY DEF CoreNext, CoreCheck, CorePublish, CoreDrains, CoreStopped, CoreExits,
         CoreCrashes, Gone, Becomes, CorePoints

\* The watching threads change only themselves and never m_stopping.
LEMMA WatchFrame ==
    ASSUME Watchers
    PROVE  /\ UNCHANGED <<coreVars, ensureLock, gate, m_process, m_endpoint,
                          threadVars>>
           /\ Stopping' = Stopping
  <1>1. CASE HbSteps
    BY <1>1 DEF HbSteps, HbWait, HbDue, HbBeat, HbFailed, HbStep, Stopping
  <1>2. CASE WtSteps
    BY <1>2 DEF WtSteps, WtBegin, WtWatch, WtStep, Stopping
  <1>3. CASE RaiseCoreExited
    BY <1>3 DEF RaiseCoreExited, HbStep, WtStep, Stopping
  <1>4. CASE Signal
    BY <1>4 DEF Signal, HbStep, WtStep, Stopping
  <1> QED BY <1>1, <1>2, <1>3, <1>4 DEF Watchers, HbSteps, WtSteps

\* Steps of a thread that touch no core process.
QuietSteps(k) ==
    \/ EnsureLock(k) \/ EnsureFound(k) \/ EnsureAdopt(k) \/ Poll(k) \/ Adopt(k)
    \/ JoinBegins(k) \/ JoinEnds(k) \/ StartHeartbeat(k) \/ StopLock(k)
    \/ StopAsk(k) \/ StopClear(k) \/ Unstop(k) \/ \E o \in Methods : Call(k, o)

LEMMA NextCases ==
    ASSUME [Next]_vars
    PROVE  \/ \E p \in Cores : CoreNext(p)
           \/ \E k \in Threads : \/ QuietSteps(k) \/ EnsureKillOrphan(k)
                                 \/ Spawn(k) \/ StopReap(k)
           \/ Watchers
           \/ UNCHANGED vars
  BY DEF Next, Method, QuietSteps

LEMMA QuietFrame ==
    ASSUME NEW k \in Threads, QuietSteps(k)
    PROVE  UNCHANGED <<core, elevated, mine, file>>
  BY DEF QuietSteps, EnsureLock, EnsureFound, EnsureAdopt, Poll, Adopt,
         JoinBegins, JoinEnds, StartHeartbeat, StopLock, StopAsk, StopClear,
         Unstop, Call, coreVars

\* TerminateProcess ends a process, unless an elevated one resists.
LEMMA KillStep ==
    ASSUME TypeOK, NEW p \in Cores, Kill(p)
    PROVE  /\ core' \in [Cores -> CorePoints]
           /\ elevated' \subseteq Cores /\ asked' = asked
           /\ mine' \subseteq mine
           /\ \A q \in mine' : q # p => (q \in elevated' <=> q \in elevated)
           /\ p \in mine' => ~Killable(p)'
           /\ \A q \in mine' : core'[q] # "none" \/ core[q] = "none"
  BY DEF Kill, Gone, TypeOK, CorePoints, Killable

\* Where a step of thread k takes it, and what it does to m_ensureLock: taken
\* when entering Inside, kept inside, released when leaving.
LEMMA LockMoves ==
    ASSUME NEW k \in Threads, TypeOK, LockInv,
           Method(k) \/ \E o \in Methods : Call(k, o)
    PROVE  \E l \in Points :
              /\ pc' = [pc EXCEPT ![k] = l]
              /\ \/ /\ pc[k] \notin Inside /\ l \notin Inside
                    /\ ensureLock' = ensureLock
                 \/ /\ pc[k] \notin Inside /\ l \in Inside
                    /\ ensureLock = None /\ ensureLock' = k
                 \/ /\ pc[k] \in Inside /\ l \in Inside
                    /\ ensureLock' = ensureLock
                 \/ /\ pc[k] \in Inside /\ l \notin Inside
                    /\ ensureLock' = None
  <1> USE DEF Inside, Points, Goto, Leave, mgrVars
  <1>1. CASE \E o \in Methods : Call(k, o)
    BY <1>1, ZenonT(40) DEF Call
  <1>2. CASE EnsureLock(k) \/ EnsureFound(k) \/ EnsureKillOrphan(k)
    BY <1>2 DEF EnsureLock, EnsureFound, EnsureKillOrphan
  <1>3. CASE EnsureAdopt(k) \/ Adopt(k)
    BY <1>3 DEF EnsureAdopt, Adopt
  <1>4. CASE Spawn(k)
    BY <1>4 DEF Spawn
  <1>5. CASE Poll(k)
    BY <1>5 DEF Poll
  <1>6. CASE JoinBegins(k) \/ JoinEnds(k) \/ StartHeartbeat(k)
    BY <1>6 DEF JoinBegins, JoinEnds, StartHeartbeat
  <1>7. CASE StopLock(k) \/ StopAsk(k) \/ StopReap(k)
    BY <1>7 DEF StopLock, StopAsk, StopReap
  <1>8. CASE StopClear(k) \/ Unstop(k)
    BY <1>8 DEF StopClear, Unstop
  <1> QED BY <1>1, <1>2, <1>3, <1>4, <1>5, <1>6, <1>7, <1>8 DEF Method

\* m_ensureLock is taken and released together with the methods' bodies.
LEMMA LockStep ==
    ASSUME TypeOK, LockInv, [Next]_vars
    PROVE  LockInv'
  <1>1. CASE \E p \in Cores : CoreNext(p)
    BY <1>1, CoreFrame DEF LockInv, mgrVars, threadVars
  <1>2. ASSUME NEW k \in Threads, Method(k) \/ \E o \in Methods : Call(k, o)
        PROVE  LockInv'
    <2>1. PICK l \in Points :
              /\ pc' = [pc EXCEPT ![k] = l]
              /\ \/ /\ pc[k] \notin Inside /\ l \notin Inside
                    /\ ensureLock' = ensureLock
                 \/ /\ pc[k] \notin Inside /\ l \in Inside
                    /\ ensureLock = None /\ ensureLock' = k
                 \/ /\ pc[k] \in Inside /\ l \in Inside
                    /\ ensureLock' = ensureLock
                 \/ /\ pc[k] \in Inside /\ l \notin Inside
                    /\ ensureLock' = None
      BY <1>2, LockMoves
    <2>2. pc \in [Threads -> Points] /\ None \notin Threads
      BY LinkAssumption DEF TypeOK
    <2> QED BY <2>1, <2>2 DEF LockInv
  <1>3. CASE Watchers
    BY <1>3, WatchFrame DEF LockInv, threadVars
  <1>4. CASE UNCHANGED vars
    BY <1>4 DEF LockInv, vars, mgrVars, threadVars
  <1> QED BY <1>1, <1>2, <1>3, <1>4 DEF Next

\* What NoneLeft and NoRival speak of only shrinks when cores do their own steps.
LEMMA CoreShrinks ==
    ASSUME NEW p \in Cores, TypeOK, CoreNext(p)
    PROVE  /\ mine' \subseteq mine
           /\ \A q \in mine' : Killable(q)' <=> Killable(q)
           /\ \A q \in mine' : core'[q] = "none" => core[q] = "none"
           /\ UNCHANGED <<pc, m_process, flags>>
  BY CoreFrame DEF Killable, TypeOK, mgrVars, threadVars

\* What a thread's step does to the handle, to m_stopping and to the points the
\* invariant names.
LEMMA QuietMoves ==
    ASSUME NEW k \in Threads, TypeOK, QuietSteps(k)
    PROVE  \E l \in Points :
              /\ pc' = [pc EXCEPT ![k] = l]
              /\ l # "clear"
              /\ l = "spawn" => pc[k] = "egate" /\ ~Alive(m_process) /\ ~Stopping
              /\ m_process' = m_process \/ pc[k] = "clear"
              /\ \/ Stopping' = Stopping
                 \/ ~Stopping'
                 \/ l = "ask" /\ ensureLock = None
              /\ pc[k] \in {"ask", "reap"} => l = "reap"
  <1> USE DEF Points, Goto, Leave, mgrVars, Stopping
  <1>1. CASE \E o \in Methods : Call(k, o)
    BY <1>1, ZenonT(40) DEF Call
  <1>2. CASE EnsureLock(k) \/ EnsureFound(k)
    BY <1>2 DEF EnsureLock, EnsureFound
  <1>3. CASE EnsureAdopt(k) \/ Adopt(k)
    BY <1>3 DEF EnsureAdopt, Adopt
  <1>4. CASE Poll(k)
    BY <1>4 DEF Poll
  <1>5. CASE JoinBegins(k) \/ JoinEnds(k) \/ StartHeartbeat(k)
    BY <1>5 DEF JoinBegins, JoinEnds, StartHeartbeat
  <1>6. CASE StopLock(k) \/ StopAsk(k)
    BY <1>6 DEF StopLock, StopAsk
  <1>7. CASE StopClear(k) \/ Unstop(k)
    BY <1>7 DEF StopClear, Unstop
  <1> QED BY <1>1, <1>2, <1>3, <1>4, <1>5, <1>6, <1>7 DEF QuietSteps

\* Only the thread that holds m_ensureLock is inside a method.
LEMMA Alone ==
    ASSUME LockInv, NEW j \in Threads, NEW k \in Threads,
           pc[j] \in Inside, pc[k] \in Inside
    PROVE  j = k
  BY DEF LockInv

\* Killing the orphan of a failed spawn leaves none of ours.
LEMMA OrphanStep ==
    ASSUME NEW k \in Threads, TypeOK, MineInv, EnsureKillOrphan(k)
    PROVE  /\ NoneLeft' /\ NoRival'
           /\ \A p \in mine' : core'[p] # "none"
           /\ pc' = [pc EXCEPT ![k] = "spawn"] /\ ~Stopping'
  <1>1. m_process \in Cores /\ Kill(m_process) /\ flags' = flags /\ ~Stopping
    BY DEF EnsureKillOrphan, Alive
  <1>2. NoneLeft'
    BY <1>1, KillStep DEF NoneLeft, MineInv, NoRival, Killable
  <1> QED BY <1>1, <1>2, KillStep
          DEF EnsureKillOrphan, Goto, NoneLeft, NoRival, MineInv, Stopping

\* Stop leaves none of ours once it has waited for, or killed, its target.
LEMMA ReapStep ==
    ASSUME NEW k \in Threads, TypeOK, MineInv, StopReap(k)
    PROVE  /\ NoneLeft' /\ NoRival'
           /\ \A p \in mine' : core'[p] # "none"
           /\ pc' = [pc EXCEPT ![k] = "clear"]
  <1>1. CASE Alive(Target)
    <2>1. Target \in Cores /\ Kill(Target) /\ m_process' = m_process
      BY <1>1 DEF StopReap, Alive, mgrVars
    <2>2. \A p \in mine : Killable(p) => p = Target
      BY LinkAssumption DEF MineInv, NoRival, Target, TypeOK
    <2>3. NoneLeft'
      BY <2>1, <2>2, KillStep DEF NoneLeft, Killable
    <2> QED BY <2>1, <2>3, KillStep
            DEF StopReap, Goto, NoneLeft, NoRival, MineInv
  <1>2. CASE ~Alive(Target)
    <2>1. UNCHANGED <<core, elevated, mine, m_process>>
      BY <1>2 DEF StopReap, mgrVars
    <2>2. NoneLeft
      BY <1>2, LinkAssumption
         DEF MineInv, NoRival, NoneLeft, Target, Alive, TypeOK
    <2> QED BY <2>1, <2>2
            DEF StopReap, Goto, NoneLeft, NoRival, MineInv, Killable
  <1> QED BY <1>1, <1>2

\* A spawn adds the one core the handle then names, with none of ours before.
LEMMA SpawnStep ==
    ASSUME NEW k \in Threads, TypeOK, MineInv, Spawn(k)
    PROVE  /\ NoRival' /\ ~Stopping'
           /\ \A p \in mine' : core'[p] # "none"
           /\ \E l \in {"poll", "idle"} : pc' = [pc EXCEPT ![k] = l]
  <1>1. NoneLeft /\ ~Stopping'
    BY DEF Spawn, MineInv, Stopping
  <1>2. CASE mine' = mine /\ UNCHANGED <<core, elevated, m_process>> /\ Leave(k)
    BY <1>1, <1>2 DEF NoRival, MineInv, Killable, Leave, Goto
  <1>3. ASSUME NEW p \in Cores,
               core' = [core EXCEPT ![p] = "check"],
               elevated' = IF op[k] = "elevate" THEN elevated \cup {p}
                                                ELSE elevated,
               mine' = mine \cup {p}, m_process' = p, Goto(k, "poll")
        PROVE  /\ NoRival'
               /\ \A q \in mine' : core'[q] # "none"
               /\ \E l \in {"poll", "idle"} : pc' = [pc EXCEPT ![k] = l]
    BY <1>1, <1>3 DEF NoRival, NoneLeft, MineInv, Killable, TypeOK, Goto
  <1> QED BY <1>1, <1>2, <1>3 DEF Spawn

\* Every step keeps what the app knows of its own cores.
LEMMA MineStep ==
    ASSUME TypeOK, LockInv, MineInv, [Next]_vars
    PROVE  MineInv'
  <1>a. pc \in [Threads -> Points]
    BY DEF TypeOK
  <1>1. ASSUME NEW p \in Cores, CoreNext(p) PROVE MineInv'
    BY <1>1, CoreShrinks DEF MineInv, NoRival, NoneLeft
  <1>2. ASSUME NEW k \in Threads, QuietSteps(k) PROVE MineInv'
    <2>1. UNCHANGED <<core, elevated, mine>>
      BY <1>2, QuietFrame
    <2>2. /\ NoneLeft' <=> NoneLeft
          /\ \A p \in mine : Killable(p)' <=> Killable(p)
      BY <2>1 DEF NoneLeft, Killable
    <2>3. PICK l \in Points :
             /\ pc' = [pc EXCEPT ![k] = l]
             /\ l # "clear"
             /\ l = "spawn" => ~Alive(m_process)
             /\ m_process' = m_process \/ pc[k] = "clear"
      BY <1>2, QuietMoves
    <2>4. NoRival'
      BY <2>1, <2>2, <2>3 DEF MineInv, NoRival, NoneLeft
    <2>5. ~Alive(m_process) => NoneLeft
      BY DEF MineInv, NoRival, NoneLeft, Alive, TypeOK
    <2> QED BY <1>a, <2>1, <2>2, <2>3, <2>4, <2>5 DEF MineInv
  <1>3. ASSUME NEW k \in Threads, EnsureKillOrphan(k) PROVE MineInv'
    BY <1>3, OrphanStep DEF MineInv
  <1>4. ASSUME NEW k \in Threads, Spawn(k) PROVE MineInv'
    <2>1. \A j \in Threads : pc'[j] \notin {"spawn", "clear"}
      BY <1>a, <1>4, SpawnStep, Alone DEF Spawn, Inside
    <2> QED BY <1>4, <2>1, SpawnStep DEF MineInv
  <1>5. ASSUME NEW k \in Threads, StopReap(k) PROVE MineInv'
    BY <1>5, ReapStep DEF MineInv
  <1>6. CASE Watchers
    BY <1>6, WatchFrame
       DEF MineInv, NoRival, NoneLeft, Killable, coreVars, threadVars
  <1>7. CASE UNCHANGED vars
    BY <1>7 DEF MineInv, NoRival, NoneLeft, Killable, vars, coreVars, mgrVars,
                threadVars
  <1> QED BY <1>1, <1>2, <1>3, <1>4, <1>5, <1>6, <1>7, NextCases

\* Every step keeps what m_stopping stands for.
LEMMA StopStep ==
    ASSUME TypeOK, LockInv, MineInv, StopInv, [Next]_vars
    PROVE  StopInv'
  <1>a. pc \in [Threads -> Points]
    BY DEF TypeOK
  <1>1. ASSUME NEW p \in Cores, CoreNext(p) PROVE StopInv'
    BY <1>1, CoreShrinks DEF StopInv, NoneLeft, Stopping
  <1>2. ASSUME NEW k \in Threads, QuietSteps(k) PROVE StopInv'
    <2>1. NoneLeft' <=> NoneLeft
      BY <1>2, QuietFrame DEF NoneLeft, Killable
    <2>2. PICK l \in Points :
             /\ pc' = [pc EXCEPT ![k] = l]
             /\ l = "spawn" => ~Stopping
             /\ \/ Stopping' = Stopping
                \/ ~Stopping'
                \/ l = "ask" /\ ensureLock = None
             /\ pc[k] \in {"ask", "reap"} => l = "reap"
             /\ l = "spawn" => pc[k] = "egate"
      BY <1>2, QuietMoves
    <2>3. CASE ~Stopping'
      BY <2>3 DEF StopInv
    <2>4. CASE Stopping' = Stopping
      <3>1. \A j \in Threads : pc'[j] = "spawn" => ~Stopping'
        BY <1>a, <2>2, <2>4 DEF StopInv
      <3>2. ASSUME NEW j \in Threads, pc[j] \in {"ask", "reap"}
            PROVE  pc'[j] \in {"ask", "reap"}
        BY <1>a, <2>2, <3>2
      <3> QED BY <2>1, <2>4, <3>1, <3>2 DEF StopInv
    <2>5. CASE l = "ask" /\ ensureLock = None
      <3>1. \A j \in Threads : pc[j] # "spawn"
        BY <2>5, LinkAssumption DEF LockInv, Inside
      <3>2. pc'[k] = "ask" /\ \A j \in Threads : pc'[j] # "spawn"
        BY <1>a, <2>2, <2>5, <3>1
      <3> QED BY <3>2 DEF StopInv
    <2> QED BY <2>2, <2>3, <2>4, <2>5
  <1>3. ASSUME NEW k \in Threads, EnsureKillOrphan(k) \/ Spawn(k)
        PROVE  StopInv'
    BY <1>3, OrphanStep, SpawnStep DEF StopInv
  <1>4. ASSUME NEW k \in Threads, StopReap(k) PROVE StopInv'
    <2>1. \A j \in Threads : pc'[j] # "spawn"
      BY <1>a, <1>4, ReapStep, Alone DEF StopReap, Inside
    <2> QED BY <1>4, <2>1, ReapStep DEF StopInv
  <1>5. CASE Watchers
    BY <1>5, WatchFrame
       DEF StopInv, NoneLeft, Killable, coreVars, threadVars
  <1>6. CASE UNCHANGED vars
    BY <1>6 DEF StopInv, NoneLeft, Killable, Stopping, vars, coreVars, mgrVars,
                threadVars
  <1> QED BY <1>1, <1>2, <1>3, <1>4, <1>5, <1>6, NextCases

\* The watching threads keep the types; one that watches has a handle.
LEMMA WatchTypes ==
    ASSUME TypeOK, Watchers
    PROVE  TypeOK'
  <1>1. /\ flags' \subseteq Flags /\ hb' \in HbPoints /\ wt' \in WtPoints
        /\ wtProc' \in Cores \cup {None}
        /\ wt' = "watch" => wtProc' \in Cores
    <2> USE DEF TypeOK, Flags, HbPoints, WtPoints, HbStep, WtStep
    <2>1. CASE HbSteps
      BY <2>1, ZenonT(40) DEF HbSteps, HbWait, HbDue, HbBeat, HbFailed
    <2>2. CASE WtSteps
      BY <2>2, ZenonT(40) DEF WtSteps, WtBegin, WtWatch
    <2>3. CASE RaiseCoreExited
      BY <2>3, ZenonT(40) DEF RaiseCoreExited
    <2>4. CASE Signal
      BY <2>4 DEF Signal
    <2> QED BY <2>1, <2>2, <2>3, <2>4 DEF Watchers, HbSteps, WtSteps
  <1> QED BY <1>1, WatchFrame DEF TypeOK, coreVars, threadVars

\* A thread's step keeps the types.
LEMMA ThreadTypes ==
    ASSUME NEW k \in Threads, TypeOK, LockInv,
           Method(k) \/ \E o \in Methods : Call(k, o)
    PROVE  TypeOK'
  <1>1. pc' \in [Threads -> Points] /\ ensureLock' \in Threads \cup {None}
    BY LockMoves DEF TypeOK
  <1>2. op' \in [Threads -> Methods] /\ found' \in [Threads -> Cores \cup {None}]
        /\ gate' \in Threads \cup {None}
    <2> USE DEF TypeOK, Methods, Leave, mgrVars, threadVars
    <2>1. CASE QuietSteps(k)
      BY <2>1, ZenonT(40) DEF QuietSteps, EnsureLock, EnsureFound, EnsureAdopt, Poll,
                  Adopt, JoinBegins, JoinEnds, StartHeartbeat, StopLock,
                  StopAsk, StopClear, Unstop, Call, Serves
    <2>2. CASE EnsureKillOrphan(k) \/ Spawn(k) \/ StopReap(k)
      BY <2>2 DEF EnsureKillOrphan, Spawn, StopReap
    <2> QED BY <2>1, <2>2 DEF Method, QuietSteps
  <1>3. /\ flags' \subseteq Flags /\ hb' \in HbPoints /\ wt' \in WtPoints
        /\ wtProc' = wtProc /\ (wt' = "watch" => wt = "watch")
    <2> USE DEF TypeOK, Flags, HbPoints, WtPoints, mgrVars, watchVars
    <2>1. CASE QuietSteps(k)
      BY <2>1, ZenonT(40) DEF QuietSteps, EnsureLock, EnsureFound, EnsureAdopt, Poll,
                  Adopt, JoinBegins, JoinEnds, StartHeartbeat, StopLock,
                  StopAsk, StopClear, Unstop, Call
    <2>2. CASE EnsureKillOrphan(k) \/ Spawn(k) \/ StopReap(k)
      BY <2>2, ZenonT(40) DEF EnsureKillOrphan, Spawn, StopReap
    <2> QED BY <2>1, <2>2 DEF Method, QuietSteps
  <1>4. /\ m_process' \in Cores \cup {None} /\ m_endpoint' \in Cores \cup {None}
        /\ file' = file
    <2> USE DEF TypeOK, mgrVars, coreVars
    <2>1. CASE QuietSteps(k)
      BY <2>1, ZenonT(40) DEF QuietSteps, EnsureLock, EnsureFound, EnsureAdopt, Poll,
                  Adopt, JoinBegins, JoinEnds, StartHeartbeat, StopLock,
                  StopAsk, StopClear, Unstop, Call
    <2>2. CASE EnsureKillOrphan(k) \/ Spawn(k) \/ StopReap(k)
      BY <2>2 DEF EnsureKillOrphan, Spawn, StopReap
    <2> QED BY <2>1, <2>2 DEF Method, QuietSteps
  <1>5. /\ core' \in [Cores -> CorePoints] /\ elevated' \subseteq Cores
        /\ asked' \subseteq Cores /\ mine' \subseteq Cores
    <2>1. CASE QuietSteps(k)
      <3>1. CASE StopLock(k) \/ StopAsk(k)
        BY <2>1, <3>1, QuietFrame DEF StopLock, StopAsk, Serves, TypeOK
      <3>2. CASE ~(StopLock(k) \/ StopAsk(k))
        <4>1. asked' = asked
          BY ZenonT(40), <2>1, <3>2
             DEF QuietSteps, EnsureLock, EnsureFound, EnsureAdopt, Poll, Adopt,
                 JoinBegins, JoinEnds, StartHeartbeat, StopClear, Unstop, Call,
                 coreVars
        <4> QED BY <2>1, <4>1, QuietFrame DEF TypeOK
      <3> QED BY <3>1, <3>2
    <2>2. CASE EnsureKillOrphan(k)
      BY <2>2, KillStep DEF EnsureKillOrphan, Alive, TypeOK
    <2>3. CASE Spawn(k)
      BY <2>3 DEF Spawn, TypeOK, CorePoints
    <2>4. CASE StopReap(k)
      BY <2>4, KillStep DEF StopReap, Alive, TypeOK
    <2> QED BY <2>1, <2>2, <2>3, <2>4 DEF Method, QuietSteps
  <1> QED BY <1>1, <1>2, <1>3, <1>4, <1>5 DEF TypeOK

\* Every step keeps the types.
LEMMA TypeStep ==
    ASSUME TypeOK, LockInv, [Next]_vars
    PROVE  TypeOK'
  <1>1. ASSUME NEW p \in Cores, CoreNext(p) PROVE TypeOK'
    BY <1>1, CoreFrame DEF TypeOK, mgrVars, watchVars, threadVars
  <1>2. CASE UNCHANGED vars
    BY <1>2 DEF TypeOK, vars, coreVars, mgrVars, watchVars, threadVars
  <1> QED BY <1>1, <1>2, WatchTypes, ThreadTypes DEF Next

\* A core that ends, or a kill that is denied, keeps ServeInv.
LEMMA ServeEnds ==
    ASSUME NEW p \in Cores, TypeOK, ServeInv, Gone(p) \/ Kill(p), file' = file
    PROVE  ServeInv'
  BY DEF Gone, Kill, ServeInv, Serves, TypeOK

\* Every step keeps what is known of the cores that start and serve.
LEMMA ServeStep ==
    ASSUME TypeOK, ServeInv, [Next]_vars
    PROVE  ServeInv'
  <1>1. ASSUME NEW p \in Cores, CoreNext(p) PROVE ServeInv'
    <2>1. CASE CoreCheck(p)
      <3>1. CASE file # p /\ Serves(file)
        BY <2>1, <3>1, ServeEnds DEF CoreCheck
      <3>2. CASE ~(file # p /\ Serves(file))
        BY <2>1, <3>2 DEF CoreCheck, Becomes, ServeInv, Serves, TypeOK
      <3> QED BY <3>1, <3>2
    <2>2. CASE CorePublish(p)
      BY <2>2 DEF CorePublish, Becomes, ServeInv, Serves, TypeOK
    <2>3. CASE CoreDrains(p) \/ CoreStopped(p)
      BY <2>3 DEF CoreDrains, CoreStopped, Becomes, ServeInv, Serves, TypeOK
    <2>4. CASE CoreExits(p)
      BY <2>4 DEF CoreExits, Gone, ServeInv, Serves, TypeOK
    <2>5. CASE CoreCrashes(p)
      BY <2>5, ServeEnds DEF CoreCrashes
    <2> QED BY <1>1, <2>1, <2>2, <2>3, <2>4, <2>5 DEF CoreNext
  <1>2. ASSUME NEW k \in Threads, QuietSteps(k) PROVE ServeInv'
    BY <1>2, QuietFrame DEF ServeInv, Serves
  <1>3. ASSUME NEW k \in Threads, EnsureKillOrphan(k) PROVE ServeInv'
    BY <1>3, ServeEnds DEF EnsureKillOrphan, Alive
  <1>4. ASSUME NEW k \in Threads, Spawn(k) PROVE ServeInv'
    <2>1. CASE UNCHANGED <<core, mine, file>>
      BY <2>1 DEF ServeInv, Serves
    <2>2. ASSUME NEW p \in Cores, core[p] = "none",
                 core' = [core EXCEPT ![p] = "check"], mine' = mine \cup {p},
                 file' = file
          PROVE  ServeInv'
      BY <2>2 DEF ServeInv, Serves, TypeOK
    <2> QED BY <1>4, <2>1, <2>2 DEF Spawn, Fresh
  <1>5. ASSUME NEW k \in Threads, StopReap(k) PROVE ServeInv'
    <2>1. CASE Alive(Target)
      BY <1>5, <2>1, ServeEnds DEF StopReap, Alive
    <2>2. CASE ~Alive(Target)
      BY <1>5, <2>2 DEF StopReap, ServeInv, Serves
    <2> QED BY <2>1, <2>2
  <1>6. CASE Watchers
    BY <1>6, WatchFrame DEF ServeInv, Serves, coreVars
  <1>7. CASE UNCHANGED vars
    BY <1>7 DEF ServeInv, Serves, vars, coreVars
  <1> QED BY <1>1, <1>2, <1>3, <1>4, <1>5, <1>6, <1>7, NextCases

\* Cores only go down the path from starting to gone.
Falls ==
    \A q \in Cores :
       /\ core'[q] \in {"check", "publish"} => core[q] \in {"check", "publish"}
       /\ core'[q] = "serving" => core[q] \in {"publish", "serving"}
       /\ core'[q] # "none" => core[q] # "none"

LEMMA CoreFalls ==
    ASSUME TypeOK, NEW p \in Cores, CoreNext(p) \/ Kill(p)
    PROVE  Falls
  BY DEF CoreNext, CoreCheck, CorePublish, CoreDrains, CoreStopped, CoreExits,
         CoreCrashes, Kill, Gone, Becomes, Falls, TypeOK

\* A core that answered stays one that did, and serves no more than before.
LEMMA FallNamed ==
    ASSUME TypeOK, NamedInv, Falls, UNCHANGED <<asked, m_endpoint, found>>,
           \A k \in Threads : pc'[k] = "adopt" <=> pc[k] = "adopt"
    PROVE  NamedInv' /\ (Serves(m_endpoint)' => Serves(m_endpoint))
  <1>1. \A p \in Cores : core[p] \notin {"check", "publish"} =>
            /\ core'[p] \notin {"check", "publish"}
            /\ core'[p] = "serving" => core[p] = "serving"
    BY Zenon DEF Falls
  <1>2. /\ asked \subseteq Cores /\ m_endpoint \in Cores \cup {None}
        /\ \A k \in Threads : found[k] \in Cores \cup {None}
    BY DEF TypeOK
  <1>3. NamedInv'
    BY <1>1, <1>2, Zenon DEF NamedInv
  <1>4. Serves(m_endpoint)' => Serves(m_endpoint)
    BY <1>1, <1>2, LinkAssumption, Zenon DEF NamedInv, Serves
  <1> QED BY <1>3, <1>4

\* What one core does by itself, or a kill does to it, keeps WatchInv.
LEMMA FallKeeps ==
    ASSUME TypeOK, WatchInv, Falls, asked' = asked,
           UNCHANGED <<mgrVars, watchVars, threadVars>>
    PROVE  WatchInv'
  <1> USE DEF TypeOK, mgrVars, watchVars, threadVars
  <1>1. NamedInv' /\ (Serves(m_endpoint)' => Serves(m_endpoint))
    BY FallNamed, Zenon DEF WatchInv
  <1>2. Unserved => Unserved'
    <2>1. Joining' <=> Joining
      BY DEF Joining
    <2> QED BY <1>1, <2>1 DEF Unserved
  <1>3. Alive(wtProc)' => Alive(wtProc)
    BY DEF Falls, Alive
  <1>4. NoticeInv'
    BY <1>2, <1>3 DEF WatchInv, NoticeInv
  <1>5. Alive(m_process)' => Alive(m_process)
    BY DEF Falls, Alive
  <1>6. Serves(m_process)' /\ m_process \in asked => Serves(m_process)
    BY DEF WatchInv, NamedInv, Falls, Serves
  <1>7. HandleInv'
    BY <1>3, <1>5, <1>6 DEF WatchInv, HandleInv, Joining
  <1> QED BY <1>1, <1>4, <1>7 DEF WatchInv

\* Steps that leave the cores, the handles and the watching threads alone.
CalmSteps(k) ==
    \/ EnsureLock(k) \/ EnsureFound(k) \/ Poll(k) \/ JoinBegins(k)
    \/ StopLock(k) \/ Unstop(k) \/ \E o \in Methods : Call(k, o)

\* What a calm step does: its thread moves between points WatchInv does not
\* tell apart, or learns of a core that serves.
LEMMA CalmMoves ==
    ASSUME NEW k \in Threads, TypeOK, WatchInv, CalmSteps(k)
    PROVE  /\ UNCHANGED <<core, m_process, m_endpoint, watchVars>>
           /\ asked' \subseteq asked
           /\ "exitEvent" \in flags' <=> "exitEvent" \in flags
           /\ \E l \in Points, f \in Cores \cup {None} :
                 /\ pc' = [pc EXCEPT ![k] = l]
                 /\ found' = [found EXCEPT ![k] = f]
                 /\ l \notin {"spawn", "reap"} /\ pc[k] \notin {"adopt", "reap"}
                 /\ \/ l # "adopt" /\ f = None
                    \/ l = "adopt" /\ Serves(f)
                 /\ (l \in {"join", "joining", "start"}
                        <=> pc[k] \in {"join", "joining", "start"})
  <1> USE DEF Points, Goto, Leave, mgrVars, watchVars, coreVars
  <1>a. pc[k] # "adopt" => found[k] = None /\ found = [found EXCEPT ![k] = None]
    BY DEF WatchInv, NamedInv, TypeOK
  <1>1. CASE \E o \in Methods : Call(k, o)
    BY <1>a, <1>1, ZenonT(40) DEF Call
  <1>2. CASE EnsureLock(k) \/ EnsureFound(k)
    BY <1>a, <1>2 DEF EnsureLock, EnsureFound
  <1>3. CASE Poll(k)
    BY <1>a, <1>3 DEF Poll, Serves
  <1>4. CASE JoinBegins(k)
    BY <1>a, <1>4 DEF JoinBegins
  <1>5. CASE StopLock(k) \/ Unstop(k)
    BY <1>a, <1>5 DEF StopLock, Unstop
  <1> QED BY <1>1, <1>2, <1>3, <1>4, <1>5 DEF CalmSteps

LEMMA CalmKeeps ==
    ASSUME NEW k \in Threads, TypeOK, WatchInv, CalmSteps(k)
    PROVE  WatchInv'
  <1>1. /\ UNCHANGED <<core, m_process, m_endpoint, hb, wt, wtProc>>
        /\ asked' \subseteq asked
        /\ "exitEvent" \in flags' <=> "exitEvent" \in flags
    BY CalmMoves DEF watchVars
  <1>2. PICK l \in Points, f \in Cores \cup {None} :
                 /\ pc' = [pc EXCEPT ![k] = l]
                 /\ found' = [found EXCEPT ![k] = f]
                 /\ l \notin {"spawn", "reap"} /\ pc[k] \notin {"adopt", "reap"}
                 /\ \/ l # "adopt" /\ f = None
                    \/ l = "adopt" /\ Serves(f)
                 /\ (l \in {"join", "joining", "start"}
                        <=> pc[k] \in {"join", "joining", "start"})
    BY CalmMoves
  <1>3. /\ pc \in [Threads -> Points] /\ found \in [Threads -> Cores \cup {None}]
        /\ None \notin Cores
    BY LinkAssumption DEF TypeOK
  <1>4. NamedInv'
    BY <1>1, <1>2, <1>3 DEF WatchInv, NamedInv, Serves
  <1>5. Joining' <=> Joining
    BY <1>2, <1>3 DEF Joining
  <1>6. NoticeInv'
    BY <1>1, <1>5 DEF WatchInv, NoticeInv, Unserved, Serves, Alive
  <1>7. /\ \A j \in Threads : pc'[j] = "spawn" => pc[j] = "spawn"
        /\ \A j \in Threads : pc[j] = "reap" => pc'[j] = "reap"
    BY <1>2, <1>3
  <1>8. HandleInv'
    BY <1>1, <1>5, <1>7 DEF WatchInv, HandleInv, Serves, Alive
  <1> QED BY <1>4, <1>6, <1>8 DEF WatchInv

\* Nothing is left to do for the orphan of a failed spawn: no thread watches it.
LEMMA OrphanKeeps ==
    ASSUME NEW k \in Threads, TypeOK, WatchInv, EnsureKillOrphan(k)
    PROVE  WatchInv'
  <1>1. /\ m_process \in Cores /\ Kill(m_process) /\ m_process' = None
        /\ pc[k] = "egate" /\ pc' = [pc EXCEPT ![k] = "spawn"]
        /\ m_endpoint = None
        /\ UNCHANGED <<m_endpoint, flags, hb, wt, wtProc, found>>
    BY DEF EnsureKillOrphan, Alive, Goto, watchVars
  <1>2. Falls /\ asked' = asked
    BY <1>1, CoreFalls, KillStep
  <1>3. pc \in [Threads -> Points] /\ None \notin Cores /\ wt = "none" /\ wtProc = None
    BY <1>1, LinkAssumption DEF TypeOK, WatchInv, HandleInv
  <1>4. NamedInv'
    <2>1. \A j \in Threads : pc'[j] = "adopt" <=> pc[j] = "adopt"
      BY <1>1, <1>3
    <2> QED BY <1>1, <1>2, <2>1, FallNamed, Zenon DEF WatchInv
  <1>5. NoticeInv'
    BY <1>1, <1>3 DEF NoticeInv, Unserved, Serves
  <1>6. Joining' <=> Joining
    BY <1>1, <1>3 DEF Joining
  <1>7. HandleInv'
    BY <1>1, <1>3, <1>6 DEF WatchInv, HandleInv, Alive, Serves
  <1> QED BY <1>4, <1>5, <1>7 DEF WatchInv

\* A spawn takes a process id that nothing of the app refers to.
LEMMA SpawnKeeps ==
    ASSUME NEW k \in Threads, TypeOK, LockInv, WatchInv, Spawn(k)
    PROVE  WatchInv'
  <1>1. /\ pc[k] = "spawn" /\ UNCHANGED <<m_endpoint, hb, wt, wtProc>>
        /\ "exitEvent" \in flags' <=> "exitEvent" \in flags
    BY ZenonT(40) DEF Spawn, watchVars
  <1>2. /\ pc \in [Threads -> Points] /\ None \notin Cores
        /\ found \in [Threads -> Cores \cup {None}]
    BY LinkAssumption DEF TypeOK
  <1>3. \A j \in Threads : pc[j] \notin {"adopt", "join", "joining", "start", "reap"}
    BY <1>1, Alone DEF Inside
  <1>4. \A j \in Threads : found[j] = None
    BY <1>3 DEF WatchInv, NamedInv
  <1>5. \A j \in Threads : j # k => pc[j] # "spawn"
    BY <1>1, Alone DEF Inside
  <1>6. CASE /\ Leave(k)
             /\ UNCHANGED <<core, elevated, asked, mine, m_process>>
    <2>1. /\ pc' = [pc EXCEPT ![k] = "idle"] /\ found' = [found EXCEPT ![k] = None]
      BY <1>6 DEF Leave, Goto
    <2>2. Joining' <=> Joining
      BY <1>1, <1>2, <2>1 DEF Joining
    <2>3. NamedInv'
      BY <1>1, <1>2, <1>4, <1>6, <2>1 DEF WatchInv, NamedInv
    <2>4. NoticeInv'
      BY <1>1, <1>6, <2>2 DEF WatchInv, NoticeInv, Unserved, Serves, Alive
    <2>5. HandleInv'
      BY <1>1, <1>2, <1>3, <1>6, <2>1, <2>2
         DEF WatchInv, HandleInv, Serves, Alive
    <2> QED BY <2>3, <2>4, <2>5 DEF WatchInv
  <1>7. ASSUME NEW p \in Cores, Fresh(p), core' = [core EXCEPT ![p] = "check"],
               asked' = asked \ {p}, m_process' = p, Goto(k, "poll"), found' = found
        PROVE  WatchInv'
    <2>1. pc' = [pc EXCEPT ![k] = "poll"] /\ p # m_endpoint /\ p # wtProc
      BY <1>7 DEF Goto, Fresh
    <2>2. Joining' <=> Joining
      BY <1>1, <1>2, <2>1 DEF Joining
    <2>3. NamedInv'
      BY <1>1, <1>2, <1>4, <1>7, <2>1 DEF WatchInv, NamedInv, TypeOK
    <2>4. /\ Serves(m_endpoint)' <=> Serves(m_endpoint)
          /\ Alive(wtProc)' <=> Alive(wtProc)
      BY <1>1, <1>7, <2>1 DEF Serves, Alive, TypeOK
    <2>5. NoticeInv'
      BY <1>1, <2>2, <2>4 DEF WatchInv, NoticeInv, Unserved
    <2>6. ~Alive(wtProc)
      BY <1>1 DEF WatchInv, HandleInv
    <2>7. \A j \in Threads : pc'[j] # "spawn"
      BY <1>2, <1>5, <2>1
    <2>8. ~Serves(m_process)'
      BY <1>7 DEF Serves, TypeOK
    <2>9. HandleInv'
      BY <1>1, <2>2, <2>4, <2>6, <2>7, <2>8, ZenonT(40) DEF WatchInv, HandleInv
    <2> QED BY <2>3, <2>5, <2>9 DEF WatchInv
  <1> QED BY <1>6, <1>7 DEF Spawn

\* A core that answers is adopted by the thread that goes on to join.
LEMMA AdoptKeeps ==
    ASSUME NEW k \in Threads, TypeOK, WatchInv, EnsureAdopt(k) \/ Adopt(k)
    PROVE  WatchInv'
  <1>1. /\ pc \in [Threads -> Points] /\ None \notin Cores
        /\ found \in [Threads -> Cores \cup {None}]
    BY LinkAssumption DEF TypeOK
  <1>2. UNCHANGED <<core, asked, m_process, flags, hb, wt, wtProc>>
    BY DEF EnsureAdopt, Adopt, coreVars, watchVars
  <1>3. CASE EnsureAdopt(k) /\ ~Adoptable(k)
    <2>1. /\ pc[k] = "egate" /\ pc' = [pc EXCEPT ![k] = "spawn"]
          /\ UNCHANGED <<m_endpoint, found>> /\ ~Alive(m_process)
      BY <1>3 DEF EnsureAdopt, Goto
    <2>2. Joining' <=> Joining
      BY <1>1, <2>1 DEF Joining
    <2>3. NamedInv'
      BY <1>1, <1>2, <2>1 DEF WatchInv, NamedInv
    <2>4. NoticeInv'
      BY <1>2, <2>1, <2>2 DEF WatchInv, NoticeInv, Unserved, Serves, Alive
    <2>5. HandleInv'
      BY <1>1, <1>2, <2>1, <2>2 DEF WatchInv, HandleInv, Serves, Alive
    <2> QED BY <2>3, <2>4, <2>5 DEF WatchInv
  <1>4. CASE \/ EnsureAdopt(k) /\ Adoptable(k)
             \/ Adopt(k)
    <2>1. /\ pc[k] \in {"egate", "adopt"} /\ pc' = [pc EXCEPT ![k] = "join"]
          /\ found' = [found EXCEPT ![k] = None]
          /\ m_endpoint' \in Cores /\ core[m_endpoint'] \notin {"check", "publish"}
      <3>1. CASE EnsureAdopt(k) /\ Adoptable(k)
        <4>1. found[k] = None
          BY <3>1 DEF EnsureAdopt, WatchInv, NamedInv
        <4> QED BY <1>1, <3>1, <4>1 DEF EnsureAdopt, Adoptable, Serves, Goto
      <3>2. CASE Adopt(k)
        BY <1>1, <3>2 DEF Adopt, Goto, WatchInv, NamedInv
      <3> QED BY <1>4, <3>1, <3>2
    <2>2. Joining'
      BY <1>1, <2>1 DEF Joining
    <2>3. NamedInv'
      BY <1>1, <1>2, <2>1 DEF WatchInv, NamedInv
    <2>4. NoticeInv'
      BY <2>2 DEF NoticeInv, Unserved
    <2>5. HandleInv'
      BY <1>1, <1>2, <2>1 DEF WatchInv, HandleInv, Serves, Alive
    <2> QED BY <2>3, <2>4, <2>5 DEF WatchInv
  <1> QED BY <1>3, <1>4

\* The old threads are joined, and new ones begin with nothing to report.
LEMMA StartKeeps ==
    ASSUME NEW k \in Threads, TypeOK, WatchInv, JoinEnds(k) \/ StartHeartbeat(k)
    PROVE  WatchInv'
  <1>1. /\ pc \in [Threads -> Points] /\ None \notin Cores
        /\ found \in [Threads -> Cores \cup {None}]
    BY LinkAssumption DEF TypeOK
  <1>2. /\ UNCHANGED <<core, asked, m_process, m_endpoint, wtProc>>
        /\ pc[k] \in {"joining", "start"} /\ Joining /\ m_endpoint # None
    BY DEF JoinEnds, StartHeartbeat, coreVars, mgrVars, WatchInv, HandleInv, Joining
  <1>3. found[k] = None
    BY <1>2 DEF WatchInv, NamedInv
  <1>4. CASE JoinEnds(k)
    <2>1. /\ hb' = "none" /\ UNCHANGED <<flags, wt, found>>
          /\ pc' = [pc EXCEPT ![k] = "start"]
      BY <1>4 DEF JoinEnds, mgrVars, Goto
    <2>2. Joining'
      BY <1>1, <2>1 DEF Joining
    <2>3. NamedInv'
      BY <1>1, <1>2, <2>1 DEF WatchInv, NamedInv
    <2>4. NoticeInv'
      BY <2>2 DEF NoticeInv, Unserved
    <2>5. HandleInv'
      BY <1>1, <1>2, <2>1 DEF WatchInv, HandleInv, Serves, Alive
    <2> QED BY <2>3, <2>4, <2>5 DEF WatchInv
  <1>5. CASE StartHeartbeat(k)
    <2>1. /\ hb' = "wait" /\ wt' = "begin" /\ wt \in {"none", "exited"}
          /\ "exitEvent" \notin flags'
          /\ pc' = [pc EXCEPT ![k] = "idle"] /\ found' = [found EXCEPT ![k] = None]
      BY <1>5 DEF StartHeartbeat, Leave, Goto
    <2>2. NamedInv'
      BY <1>1, <1>2, <1>3, <2>1 DEF WatchInv, NamedInv
    <2>3. NoticeInv'
      BY <2>1 DEF NoticeInv
    <2>4. HandleInv'
      BY <1>1, <1>2, <2>1 DEF WatchInv, HandleInv, Serves, Alive
    <2> QED BY <2>2, <2>3, <2>4 DEF WatchInv
  <1> QED BY <1>4, <1>5

\* Stop asks the core that serves, awaits the one it holds, and drops both.
LEMMA StopKeeps ==
    ASSUME NEW k \in Threads, TypeOK, LockInv, WatchInv,
           StopAsk(k) \/ StopReap(k) \/ StopClear(k)
    PROVE  WatchInv'
  <1>1. /\ pc \in [Threads -> Points] /\ None \notin Cores
        /\ found \in [Threads -> Cores \cup {None}]
    BY LinkAssumption DEF TypeOK
  <1>2. CASE StopAsk(k)
    <2>1. /\ UNCHANGED <<core, m_process, m_endpoint, flags, hb, wt, wtProc, found>>
          /\ pc[k] = "ask" /\ pc' = [pc EXCEPT ![k] = "reap"]
          /\ asked' = asked \/ (asked' = asked \cup {m_endpoint} /\ Serves(m_endpoint))
      BY <1>2 DEF StopAsk, mgrVars, watchVars, Goto
    <2>2. Joining' <=> Joining
      BY <1>1, <2>1 DEF Joining
    <2>3. NamedInv'
      BY <1>1, <2>1 DEF WatchInv, NamedInv, Serves
    <2>4. NoticeInv'
      BY <2>1, <2>2 DEF WatchInv, NoticeInv, Unserved, Serves, Alive
    <2>5. HandleInv'
      BY <1>1, <2>1, <2>2 DEF WatchInv, HandleInv, Serves, Alive
    <2> QED BY <2>3, <2>4, <2>5 DEF WatchInv
  <1>3. CASE StopReap(k)
    <2>1. /\ UNCHANGED <<asked, m_process, m_endpoint, flags, hb, wt, wtProc, found>>
          /\ pc[k] = "reap" /\ pc' = [pc EXCEPT ![k] = "clear"] /\ Falls
          /\ ~(Serves(Target) /\ Target \in asked)
      <3>1. Falls /\ asked' = asked
        <4>1. CASE Alive(Target)
          BY <1>3, <4>1, CoreFalls, KillStep DEF StopReap, Alive
        <4>2. CASE ~Alive(Target)
          BY <1>3, <4>2 DEF StopReap, Falls
        <4> QED BY <4>1, <4>2
      <3>2. ~(Serves(Target) /\ Target \in asked)
        BY <1>3 DEF StopReap, Alive, Serves
      <3> QED BY <1>3, <3>1, <3>2 DEF StopReap, mgrVars, watchVars, Goto
    <2>2. Joining' <=> Joining
      BY <1>1, <2>1 DEF Joining
    <2>3. NamedInv'
      <3>1. \A j \in Threads : pc'[j] = "adopt" <=> pc[j] = "adopt"
        BY <1>1, <2>1
      <3> QED BY <2>1, <3>1, FallNamed, Zenon DEF WatchInv
    <2>4. /\ Serves(m_endpoint)' => Serves(m_endpoint)
          /\ Alive(wtProc)' => Alive(wtProc)
          /\ Alive(m_process)' => Alive(m_process)
          /\ ~(Serves(m_process)' /\ m_process \in asked)
      BY <1>1, <2>1, ZenonT(40) DEF WatchInv, NamedInv, Falls, Serves, Alive, Target
    <2>5. NoticeInv'
      BY <2>1, <2>2, <2>4 DEF WatchInv, NoticeInv, Unserved
    <2>6. HandleInv'
      BY <1>1, <2>1, <2>2, <2>4 DEF WatchInv, HandleInv
    <2> QED BY <2>3, <2>5, <2>6 DEF WatchInv
  <1>4. CASE StopClear(k)
    <2>1. /\ UNCHANGED <<core, asked, wtProc, found>> /\ pc[k] = "clear"
          /\ m_process' = None /\ m_endpoint' = None /\ hb' = "none" /\ wt' = "none"
          /\ wt \in {"none", "exited"}
          /\ \E l \in {"idle", "unstop"} : pc' = [pc EXCEPT ![k] = l]
      BY <1>4, ZenonT(40) DEF StopClear, coreVars, Goto
    <2>2. /\ \A j \in Threads : pc[j] \notin {"join", "joining", "start"}
          /\ ~Joining'
      <3>1. \A j \in Threads : pc[j] \notin {"join", "joining", "start"}
        BY <2>1, Alone DEF Inside
      <3> QED BY <1>1, <2>1, <3>1 DEF Joining
    <2>3. NamedInv'
      BY <1>1, <2>1 DEF WatchInv, NamedInv
    <2>4. NoticeInv'
      BY <1>1, <2>1 DEF NoticeInv, Unserved, Serves
    <2>5. HandleInv'
      BY <1>1, <2>1, <2>2 DEF WatchInv, HandleInv, Serves, Alive
    <2> QED BY <2>3, <2>4, <2>5 DEF WatchInv
  <1> QED BY <1>2, <1>3, <1>4

\* The watching threads go to report only an exit they have noticed.
LEMMA WatchersKeep ==
    ASSUME TypeOK, WatchInv, Watchers
    PROVE  WatchInv'
  <1>1. /\ UNCHANGED <<core, asked, m_process, m_endpoint, pc, found>>
        /\ None \notin Cores
    BY WatchFrame, LinkAssumption DEF coreVars, threadVars
  <1>2. NamedInv'
    BY <1>1 DEF WatchInv, NamedInv
  <1>3. (Unserved' <=> Unserved) /\ (Joining' <=> Joining)
    BY <1>1 DEF Unserved, Joining, Serves
  <1>4. NoticeInv' /\ HandleInv'
    <2>1. CASE HbSteps
      <3>1. /\ UNCHANGED <<flags, wt, wtProc>>
            /\ hb' \in {"failed", "raise", "signal"} => Unserved
        BY <2>1 DEF HbSteps, HbWait, HbDue, HbBeat, HbFailed, HbStep, WatchInv,
                    NoticeInv, Unserved
      <3> QED BY <1>1, <1>3, <3>1 DEF WatchInv, NoticeInv, HandleInv, Alive, Serves
    <2>2. CASE WtBegin
      <3>1. /\ UNCHANGED <<flags, hb>> /\ wtProc' = m_process /\ wt = "begin"
            /\ wt' = IF m_process = None THEN "exited" ELSE "watch"
        BY <2>2 DEF WtBegin, WtStep
      <3> QED BY <1>1, <1>3, <3>1 DEF WatchInv, NoticeInv, HandleInv, Alive, Serves
    <2>3. CASE WtWatch
      <3>1. /\ hb' = hb /\ wt = "watch"
            /\ \/ ~Alive(wtProc) /\ UNCHANGED <<flags, wtProc>> /\ wt' = "raise"
               \/ /\ "exitEvent" \in flags /\ flags' = flags \ {"exitEvent"}
                  /\ wtProc' = wtProc /\ wt' = "raise"
               \/ wtProc' = None /\ flags' = flags /\ wt' = "exited"
        BY <2>3 DEF WtWatch, WtStep
      <3> QED BY <1>1, <1>3, <3>1 DEF WatchInv, NoticeInv, HandleInv, Alive, Serves
    <2>4. CASE RaiseCoreExited
      <3>1. /\ flags' = flags
            /\ \/ /\ hb = "raise" /\ UNCHANGED <<wt, wtProc>>
               \/ /\ hb' = hb /\ wt = "raise"
                  /\ \/ wt' = "exited" /\ wtProc' = None
                     \/ wt' = "signal" /\ wtProc' = wtProc
        BY <2>4 DEF RaiseCoreExited, HbStep, WtStep
      <3> QED BY <1>1, <1>3, <3>1 DEF WatchInv, NoticeInv, HandleInv, Alive, Serves
    <2>5. CASE Signal
      <3>1. \/ hb = "signal" /\ hb' = "exited" /\ UNCHANGED <<wt, wtProc>>
            \/ hb' = hb /\ wt = "signal" /\ wt' = "exited" /\ wtProc' = None
        BY <2>5 DEF Signal, HbStep, WtStep
      <3> QED BY <1>1, <1>3, <3>1 DEF WatchInv, NoticeInv, HandleInv, Alive, Serves
    <2> QED BY <2>1, <2>2, <2>3, <2>4, <2>5 DEF Watchers, HbSteps
  <1> QED BY <1>2, <1>4 DEF WatchInv

\* Every step keeps what the watching threads know.
LEMMA WatchStep ==
    ASSUME TypeOK, LockInv, WatchInv, [Next]_vars
    PROVE  WatchInv'
  <1>1. ASSUME NEW p \in Cores, CoreNext(p) PROVE WatchInv'
    BY <1>1, CoreFrame, CoreFalls, FallKeeps
  <1>2. CASE UNCHANGED vars
    BY <1>2, FallKeeps DEF vars, coreVars, Falls
  <1>3. ASSUME NEW k \in Threads, Method(k) \/ \E o \in Methods : Call(k, o)
        PROVE  WatchInv'
    BY <1>3, CalmKeeps, OrphanKeeps, SpawnKeeps, AdoptKeeps, StartKeeps, StopKeeps
       DEF Method, CalmSteps
  <1> QED BY <1>1, <1>2, <1>3, WatchersKeep DEF Next

\* Where a thread's step takes it between the points of a Stop.
LEMMA StopMoves ==
    ASSUME NEW k \in Threads, TypeOK, LockInv,
           Method(k) \/ \E o \in Methods : Call(k, o)
    PROVE  \E l \in Points :
              /\ pc' = [pc EXCEPT ![k] = l]
              /\ l = "slock" => Stops(k)
              /\ l \in {"ask", "reap", "clear", "unstop"}
                    => pc[k] \in {"slock", "ask", "reap", "clear"}
              /\ l \in {"reap", "clear"} => pc[k] \in {"ask", "reap"}
              /\ l = "ask" => StopLock(k)
              /\ ~(Stopping /\ ~Stopping') \/ pc[k] \in {"spawn", "unstop"}
              /\ hb' = "signal" => hb = "signal"
              /\ wt' = "signal" => wt = "signal"
              /\ wtProc' = wtProc
              /\ m_endpoint' = m_endpoint \/ pc[k] \in Inside \ {"ask", "reap"}
              /\ asked' \subseteq asked \/ StopAsk(k)
  <1> USE DEF Points, Goto, Leave, mgrVars, coreVars, watchVars, Stopping, Inside
  <1>1. ASSUME NEW o \in Methods, Call(k, o)
        PROVE  /\ \E l \in {"elock", "slock"} :
                     pc' = [pc EXCEPT ![k] = l] /\ (l = "slock" => Stops(k))
               /\ UNCHANGED <<coreVars, mgrVars, watchVars>>
    BY <1>1, ZenonT(40) DEF Call, Stops
  <1>2. CASE EnsureLock(k) \/ EnsureFound(k)
    BY <1>2 DEF EnsureLock, EnsureFound
  <1>3. CASE EnsureAdopt(k) \/ Adopt(k)
    BY <1>3 DEF EnsureAdopt, Adopt
  <1>4. CASE Poll(k)
    BY <1>4 DEF Poll
  <1>5. CASE JoinBegins(k) \/ JoinEnds(k) \/ StartHeartbeat(k)
    BY <1>5 DEF JoinBegins, JoinEnds, StartHeartbeat
  <1>6. CASE StopLock(k) \/ StopAsk(k)
    BY <1>6 DEF StopLock, StopAsk
  <1>7. CASE StopClear(k) \/ Unstop(k)
    BY <1>7 DEF StopClear, Unstop
  <1>8. CASE EnsureKillOrphan(k)
    BY <1>8, KillStep DEF EnsureKillOrphan, Alive
  <1>9. CASE StopReap(k)
    BY <1>9, KillStep DEF StopReap, Alive
  <1>10. CASE Spawn(k)
    BY <1>10 DEF Spawn
  <1>11. CASE \E o \in Methods : Call(k, o)
    BY <1>1, <1>11
  <1> QED BY ZenonT(40), <1>2, <1>3, <1>4, <1>5, <1>6, <1>7, <1>8, <1>9, <1>10, <1>11
          DEF Method

\* Every step keeps the silence of a Stop, where one thread at most tears down.
LEMMA SilentStep ==
    ASSUME OneStopper, TypeOK, LockInv, WatchInv, SilentInv, [Next]_vars
    PROVE  SilentInv'
  <1>0. UNCHANGED <<pc, op, flags, m_endpoint, hb, wt, wtProc, asked>> => SilentInv'
    BY DEF SilentInv, AtWork, Stopping, Stops
  <1>1. ASSUME NEW p \in Cores, CoreNext(p) PROVE SilentInv'
    <2>1. UNCHANGED <<mgrVars, watchVars, threadVars, asked>>
      BY <1>1, CoreFrame
    <2> QED BY <1>0, <2>1 DEF mgrVars, watchVars, threadVars
  <1>2. CASE UNCHANGED vars
    BY <1>0, <1>2 DEF vars, coreVars, mgrVars, watchVars, threadVars
  <1>3. CASE Watchers
    <2>1. /\ UNCHANGED <<pc, asked, m_endpoint>> /\ Stopping' = Stopping
      BY <1>3, WatchFrame DEF coreVars, threadVars
    <2>2. /\ hb' = "signal" => hb = "signal" \/ ~Stopping
          /\ wt' = "signal" => wtProc' = wtProc /\ (wt = "signal" \/ ~Stopping)
      <3>1. CASE HbSteps
        BY <3>1 DEF HbSteps, HbWait, HbDue, HbBeat, HbFailed, HbStep
      <3>2. CASE WtSteps
        BY <3>2 DEF WtSteps, WtBegin, WtWatch, WtStep
      <3>3. CASE RaiseCoreExited
        BY <3>3 DEF RaiseCoreExited, HbStep, WtStep
      <3>4. CASE Signal
        BY <3>4 DEF Signal, HbStep, WtStep
      <3> QED BY <1>3, <3>1, <3>2, <3>3, <3>4 DEF Watchers, HbSteps, WtSteps
    <2>3. AtWork' <=> AtWork
      BY <2>1 DEF AtWork
    <2> QED BY <2>1, <2>2, <2>3 DEF SilentInv
  <1>4. ASSUME NEW k \in Threads, Method(k) \/ \E o \in Methods : Call(k, o)
        PROVE  SilentInv'
    <2>1. PICK l \in Points :
              /\ pc' = [pc EXCEPT ![k] = l]
              /\ l = "slock" => Stops(k)
              /\ l \in {"ask", "reap", "clear", "unstop"}
                    => pc[k] \in {"slock", "ask", "reap", "clear"}
              /\ l \in {"reap", "clear"} => pc[k] \in {"ask", "reap"}
              /\ l = "ask" => StopLock(k)
              /\ ~(Stopping /\ ~Stopping') \/ pc[k] \in {"spawn", "unstop"}
              /\ hb' = "signal" => hb = "signal"
              /\ wt' = "signal" => wt = "signal"
              /\ wtProc' = wtProc
              /\ m_endpoint' = m_endpoint \/ pc[k] \in Inside \ {"ask", "reap"}
              /\ asked' \subseteq asked \/ StopAsk(k)
      BY ZenonT(40), <1>4, StopMoves
    <2>2. pc \in [Threads -> Points] /\ None \notin Cores
      BY LinkAssumption DEF TypeOK
    <2>3. \A j \in Threads :
             pc'[j] \in {"slock", "ask", "reap", "clear", "unstop"} => Stops(j)
      BY <2>1, <2>2 DEF SilentInv
    <2>4. SUFFICES ASSUME NEW j \in Threads, pc'[j] \in {"ask", "reap", "clear"}
                   PROVE  /\ Stopping'
                          /\ hb' = "signal" => m_endpoint' \notin asked'
                          /\ wt' = "signal" => wtProc' \notin asked'
      BY <2>3 DEF SilentInv, AtWork
    <2>5. CASE j # k
      <3>1. pc[j] \in {"ask", "reap", "clear"} /\ AtWork
        BY <2>1, <2>2, <2>4, <2>5 DEF AtWork
      <3>2. pc[k] \notin Inside
        BY <2>5, <3>1, Alone DEF Inside
      <3>3. pc[k] # "unstop"
        BY <2>5, <3>1 DEF SilentInv, OneStopper
      <3>4. m_endpoint' = m_endpoint /\ asked' \subseteq asked
        BY <2>1, <3>2 DEF Inside, StopAsk
      <3> QED BY <2>1, <3>1, <3>2, <3>3, <3>4 DEF SilentInv, Inside
    <2>6. CASE j = k /\ l = "ask"
      <3>1. /\ Stopping' /\ m_endpoint' = m_endpoint
            /\ asked' = {p \in asked : Serves(p)}
            /\ \A i \in Threads : pc[i] \notin Inside
        BY <2>1, <2>6, LinkAssumption DEF StopLock, Stopping, LockInv
      <3>2. hb = "signal" => ~Serves(m_endpoint)
        BY <3>1 DEF WatchInv, NoticeInv, Unserved, Joining, Inside
      <3>3. ~(Serves(wtProc) /\ wtProc \in asked)
        BY <3>1 DEF WatchInv, HandleInv, Serves, Alive, Inside
      <3> QED BY <2>1, <3>1, <3>2, <3>3
    <2>7. CASE j = k /\ l \in {"reap", "clear"}
      <3>1. pc[k] \in {"ask", "reap"} /\ AtWork /\ m_endpoint' = m_endpoint
        BY <2>1, <2>7 DEF AtWork
      <3>2. Stopping'
        BY <2>1, <3>1 DEF SilentInv
      <3>3. ~Joining
        BY <3>1, Alone DEF Joining, Inside
      <3>4. CASE asked' \subseteq asked
        BY <2>1, <3>1, <3>2, <3>4 DEF SilentInv
      <3>5. CASE StopAsk(k) /\ ~(asked' \subseteq asked)
        <4>1. asked' = asked \cup {m_endpoint} /\ Serves(m_endpoint)
          BY <3>5 DEF StopAsk
        <4>2. hb # "signal" /\ (wt = "signal" => ~Alive(wtProc))
          BY <3>3, <4>1 DEF WatchInv, NoticeInv, Unserved
        <4>3. wt = "signal" => wtProc # m_endpoint
          BY <4>1, <4>2 DEF Serves, Alive
        <4> QED BY <2>1, <3>1, <3>2, <4>1, <4>2, <4>3 DEF SilentInv
      <3> QED BY <2>1, <3>4, <3>5
    <2> QED BY <2>1, <2>2, <2>4, <2>5, <2>6, <2>7
  <1> QED BY <1>1, <1>2, <1>3, <1>4 DEF Next

\* The invariant of CoreManager holds initially and is kept by every step.
THEOREM LinkInductive == Spec => []LinkInv
  <1>1. Init => LinkInv
    <2> SUFFICES ASSUME Init PROVE LinkInv
      OBVIOUS
    <2>1. TypeOK
      BY DEF Init, TypeOK, CorePoints, Flags, HbPoints, WtPoints, Points, Methods
    <2>2. LockInv /\ MineInv /\ StopInv
      BY LinkAssumption
         DEF Init, LockInv, MineInv, StopInv, NoRival, NoneLeft, Inside, Stopping
    <2> QED BY <2>1, <2>2 DEF LinkInv
  <1>2. LinkInv /\ [Next]_vars => LinkInv'
    BY TypeStep, LockStep, MineStep, StopStep DEF LinkInv
  <1> QED BY <1>1, <1>2, PTL DEF Spec

\* Where no kill is denied, two cores never serve at once, whether the app
\* spawned them or an earlier app left one behind: the second one finds the
\* first in the endpoint file, or the first is ours and its end was awaited.
THEOREM OneServingProved == Spec => []OneServing
  <1>1. Init => ServeInv
    <2> SUFFICES ASSUME Init PROVE ServeInv
      OBVIOUS
    <2>1. \A p \in Cores : core[p] = "none" \/ (core[p] = "serving" /\ file = p)
      BY ZenonT(40) DEF Init
    <2> QED BY <2>1 DEF ServeInv, Serves
  <1>2. LinkInv /\ ServeInv /\ [Next]_vars => ServeInv'
    BY ServeStep DEF LinkInv
  <1>3. LinkInv /\ ServeInv => OneServing
    <2> SUFFICES ASSUME LinkInv, ServeInv, "kill" \notin MayFail,
                        NEW p \in Cores, NEW q \in Cores, Serves(p), Serves(q)
                 PROVE  p = q
      BY DEF OneServing
    <2>1. CASE p \in mine /\ q \in mine
      BY <2>1 DEF LinkInv, MineInv, NoRival, Killable
    <2>2. CASE p \notin mine \/ q \notin mine
      BY <2>2 DEF ServeInv, Serves
    <2> QED BY <2>1, <2>2
  <1> QED BY <1>1, <1>2, <1>3, LinkInductive, PTL DEF Spec

\* CoreManager's state and the core processes keep their types.
THEOREM LinkTypeCorrect == Spec => []TypeOK
  <1>1. LinkInv => TypeOK
    BY DEF LinkInv
  <1> QED BY <1>1, LinkInductive, PTL

\* However many threads call EnsureRunning, Stop, Restart and RestartElevated
\* at once, the app never has a core of its own besides the one in m_process.
THEOREM NoRivalProved == Spec => []NoRival
  <1>1. LinkInv => NoRival
    BY DEF LinkInv, MineInv
  <1> QED BY <1>1, LinkInductive, PTL

\* While m_stopping is set and no method is at work, no core of the app runs.
THEOREM StopLeavesNoCoreProved == Spec => []StopLeavesNoCore
  <1>1. LinkInv => StopLeavesNoCore
    BY ZenonT(40), LinkAssumption
       DEF LinkInv, StopInv, LockInv, Inside, NoneLeft, StopLeavesNoCore
  <1> QED BY <1>1, LinkInductive, PTL

\* EnsureRunning spawns nothing while m_stopping is set.
THEOREM NoSpawnBehindTeardownProved == Spec => NoSpawnBehindTeardown
  <1>1. LinkInv /\ [Next]_vars => [mine' \subseteq mine \/ ~Stopping]_vars
    <2> SUFFICES ASSUME LinkInv, [Next]_vars
                 PROVE  mine' \subseteq mine \/ ~Stopping
      OBVIOUS
    <2>1. ASSUME NEW p \in Cores, CoreNext(p) PROVE mine' \subseteq mine
      BY <2>1, CoreShrinks DEF LinkInv
    <2>2. ASSUME NEW k \in Threads, QuietSteps(k) PROVE mine' = mine
      BY <2>2, QuietFrame
    <2>3. ASSUME NEW k \in Threads, EnsureKillOrphan(k) \/ StopReap(k)
          PROVE  mine' \subseteq mine
      BY <2>3 DEF EnsureKillOrphan, StopReap, Kill, Gone
    <2>4. ASSUME NEW k \in Threads, Spawn(k) PROVE ~Stopping
      BY <2>4 DEF Spawn, LinkInv, StopInv
    <2>5. CASE Watchers \/ UNCHANGED vars
      BY <2>5, WatchFrame DEF vars, coreVars
    <2> QED BY <2>1, <2>2, <2>3, <2>4, <2>5, NextCases
  <1> QED BY <1>1, LinkInductive, PTL DEF Spec, NoSpawnBehindTeardown

\* The watching threads know what they report, whoever calls what.
THEOREM WatchInductive == Spec => []WatchInv
  <1>1. Init => WatchInv
    BY LinkAssumption
       DEF Init, WatchInv, NamedInv, NoticeInv, HandleInv, Joining, Alive, Serves
  <1>2. LinkInv /\ WatchInv /\ [Next]_vars => WatchInv'
    BY WatchStep DEF LinkInv
  <1> QED BY <1>1, <1>2, LinkInductive, PTL DEF Spec

\* Where one thread at most stops and restarts, a Stop at work never has the
\* exit of the core it asked to exit reported as unexpected, in whatever order
\* the core, the heartbeat and the wait thread take their steps.
THEOREM DeliberateStopSilentProved == Spec => (OneStopper => DeliberateStopSilent)
  <1> SUFFICES ASSUME OneStopper PROVE Spec => DeliberateStopSilent
    OBVIOUS
  <1>1. Init => SilentInv
    BY DEF Init, SilentInv, AtWork
  <1>2. LinkInv /\ WatchInv /\ SilentInv /\ [Next]_vars => SilentInv'
    BY SilentStep DEF LinkInv
  <1>3. LinkInv /\ SilentInv /\ [Next]_vars
          => [(\E k \in Threads : pc[k] \in {"reap", "clear"}) /\ Reported \in asked
                 => "exitedSignaled" \notin flags' \ flags]_vars
    <2> SUFFICES ASSUME LinkInv, SilentInv, [Next]_vars, AtWork, Reported \in asked,
                        "exitedSignaled" \in flags' \ flags
                 PROVE  FALSE
      BY DEF AtWork
    <2>1. Signal
      <3>1. ASSUME NEW p \in Cores, CoreNext(p) PROVE flags' = flags
        BY <3>1, CoreFrame DEF LinkInv, mgrVars
      <3>2. ASSUME NEW k \in Threads, Method(k) \/ \E o \in Methods : Call(k, o)
            PROVE  "exitedSignaled" \notin flags' \ flags
        <4>1. CASE EnsureLock(k) \/ EnsureFound(k) \/ EnsureKillOrphan(k) \/ EnsureAdopt(k)
          BY <4>1 DEF EnsureLock, EnsureFound, EnsureKillOrphan, EnsureAdopt, mgrVars
        <4>2. CASE Spawn(k) \/ Poll(k) \/ Adopt(k)
          BY <4>2 DEF Spawn, Poll, Adopt, mgrVars
        <4>3. CASE JoinBegins(k) \/ JoinEnds(k) \/ StartHeartbeat(k)
          BY <4>3 DEF JoinBegins, JoinEnds, StartHeartbeat, mgrVars
        <4>4. CASE StopLock(k) \/ StopAsk(k) \/ StopReap(k)
          BY <4>4 DEF StopLock, StopAsk, StopReap, mgrVars
        <4>5. CASE StopClear(k) \/ Unstop(k)
          BY <4>5 DEF StopClear, Unstop, mgrVars
        <4>6. ASSUME NEW o \in Methods, Call(k, o)
              PROVE  "exitedSignaled" \notin flags' \ flags
          BY <4>6, ZenonT(40) DEF Call, mgrVars
        <4> QED BY <3>2, <4>1, <4>2, <4>3, <4>4, <4>5, <4>6, ZenonT(40) DEF Method
      <3>3. ASSUME HbSteps \/ WtSteps \/ RaiseCoreExited
            PROVE  "exitedSignaled" \notin flags' \ flags
        BY <3>3 DEF HbSteps, HbWait, HbDue, HbBeat, HbFailed, WtSteps, WtBegin,
                    WtWatch, RaiseCoreExited
      <3>4. CASE UNCHANGED vars
        BY <3>4 DEF vars, mgrVars
      <3> QED BY <3>1, <3>2, <3>3, <3>4 DEF Next, Watchers, HbSteps, WtSteps
    <2>2. \/ hb = "signal" /\ Reported = m_endpoint
          \/ wt = "signal" /\ Reported = wtProc
      BY <2>1 DEF Signal, HbStep, WtStep, Reported
    <2> QED BY <2>2 DEF SilentInv
  <1> QED BY <1>1, <1>2, <1>3, LinkInductive, WatchInductive, PTL
          DEF Spec, DeliberateStopSilent
=============================================================================

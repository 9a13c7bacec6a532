-------------------------- MODULE AccessStepProofs --------------------------
(***************************************************************************)
(* Steps of the parties of the access path, each taken by itself: what the *)
(* sidecar and the front before it, the issuer, the app's pages and a hub  *)
(* with its punches keep.  AccessProofs puts them together.                *)
(***************************************************************************)
EXTENDS WssClient, Rendezvous, Panel, FiniteSetTheorems, TLAPS

-----------------------------------------------------------------------------
(* Stream budgets *)

\* With l streams live and n left to start out of b, the budget still covers
\* them after one is given up, all are, or the session is over.
LEMMA BudgetKept ==
    \A l, n, b \in Nat : l + n <= b =>
        /\ 0 \in Nat /\ 0 + 0 <= b /\ l + 0 <= b
        /\ n # 0 => n - 1 \in Nat /\ l + (n - 1) <= b
OBVIOUS

-----------------------------------------------------------------------------
(* What a step does to the handlers *)

\* No handler other than h does anything.
Only(h) ==
    /\ DOMAIN hs' = Handlers /\ HandlerFields \subseteq DOMAIN hs'[h]
    /\ \A k \in Handlers \ {h} : hs'[k] = hs[k]

\* Only handler h goes, if its step replaces its record as a whole.
LEMMA OnlyReplaced ==
    ASSUME NEW h \in Handlers, NEW r, HandlerInv, hs' = [hs EXCEPT ![h] = r],
           HandlerFields \subseteq DOMAIN r
    PROVE  Only(h) /\ hs'[h] = r
BY DEF Only, HandlerInv

\* The record of a handler without a request.
LEMMA FreeFields ==
    /\ HandlerFields \subseteq DOMAIN Free
    /\ Free.at = "free" /\ Free.tk = None /\ Free.left = 0 /\ Free.live = 0
BY DEF Free, HandlerFields

\* A request is taken: its handler checks the ticket.
LEMMA Begun ==
    ASSUME NEW h \in Handlers, NEW t, HandlerInv,
           hs' = [hs EXCEPT ![h] = [Free EXCEPT !.at = "check", !.tk = t]]
    PROVE  /\ Only(h) /\ hs'[h].at = "check" /\ hs'[h].tk = t
           /\ hs'[h].left = 0 /\ hs'[h].live = 0
<1> DEFINE r == [Free EXCEPT !.at = "check", !.tk = t]
<1>1. /\ HandlerFields \subseteq DOMAIN r /\ r.at = "check" /\ r.tk = t
      /\ r.left = 0 /\ r.live = 0
  BY DEF Free, HandlerFields
<1>2. hs' = [hs EXCEPT ![h] = r]
  OBVIOUS
<1> HIDE DEF r
<1> QED BY <1>1, <1>2, OnlyReplaced, Zenon

\* A handler is done.
LEMMA Done ==
    ASSUME NEW h \in Handlers, HandlerInv, hs' = [hs EXCEPT ![h] = Free]
    PROVE  Only(h) /\ hs'[h].at = "free" /\ hs'[h].left = 0 /\ hs'[h].live = 0
BY FreeFields, OnlyReplaced, Zenon

\* A handler waits for its record to be synced.
LEMMA Syncs ==
    ASSUME NEW h \in Handlers, HandlerInv, hs' = [hs EXCEPT ![h].at = "sync"]
    PROVE  /\ Only(h) /\ hs'[h].at = "sync" /\ hs'[h].tk = hs[h].tk
           /\ hs'[h].left = hs[h].left /\ hs'[h].live = hs[h].live
BY DEF Only, HandlerInv, HandlerFields

\* A session begins.
LEMMA Serves ==
    ASSUME NEW h \in Handlers, HandlerInv,
           hs' = [hs EXCEPT ![h].at = "serve", ![h].left = Budget]
    PROVE  /\ Only(h) /\ hs'[h].at = "serve" /\ hs'[h].left = Budget
           /\ hs'[h].live = hs[h].live
BY DEF Only, HandlerInv, HandlerFields

\* A session is closed.
LEMMA Drains ==
    ASSUME NEW h \in Handlers, HandlerInv,
           hs' = [hs EXCEPT ![h].at = "drain", ![h].left = 0]
    PROVE  /\ Only(h) /\ hs'[h].at = "drain" /\ hs'[h].left = 0
           /\ hs'[h].live = hs[h].live
BY DEF Only, HandlerInv, HandlerFields

\* A stream is accepted.
LEMMA Streaming ==
    ASSUME NEW h \in Handlers, HandlerInv,
           hs' = [hs EXCEPT ![h].at = "used", ![h].left = @ - 1, ![h].live = @ + 1]
    PROVE  /\ Only(h) /\ hs'[h].at = "used" /\ hs'[h].left = hs[h].left - 1
           /\ hs'[h].live = hs[h].live + 1
BY DEF Only, HandlerInv, HandlerFields

\* A stream is charged for and refused.
LEMMA Charged ==
    ASSUME NEW h \in Handlers, HandlerInv, hs' = [hs EXCEPT ![h].left = @ - 1]
    PROVE  /\ Only(h) /\ hs'[h].at = hs[h].at /\ hs'[h].left = hs[h].left - 1
           /\ hs'[h].live = hs[h].live /\ hs'[h].tk = hs[h].tk
BY DEF Only, HandlerInv, HandlerFields

\* A stream ends.
LEMMA StreamOver ==
    ASSUME NEW h \in Handlers, HandlerInv, hs' = [hs EXCEPT ![h].live = @ - 1]
    PROVE  /\ Only(h) /\ hs'[h].at = hs[h].at /\ hs'[h].left = hs[h].left
           /\ hs'[h].live = hs[h].live - 1 /\ hs'[h].tk = hs[h].tk
BY DEF Only, HandlerInv, HandlerFields

\* A guard expires.
LEMMA Idles ==
    ASSUME NEW h \in Handlers, HandlerInv, hs' = [hs EXCEPT ![h].at = "idle"]
    PROVE  /\ Only(h) /\ hs'[h].at = "idle" /\ hs'[h].left = hs[h].left
           /\ hs'[h].live = hs[h].live
BY DEF Only, HandlerInv, HandlerFields

-----------------------------------------------------------------------------
(* Tickets *)

ticketVars == <<now, claims, replayVars, post, grants>>

\* A handler that does not get to a ticket, and leaves everything else alone.
LEMMA TicketAside ==
    ASSUME NEW h \in Handlers, TicketInv, UNCHANGED ticketVars, Only(h),
           hs'[h].at \in Shaking => hs'[h].at = hs[h].at /\ hs'[h].tk = hs[h].tk
    PROVE  TicketInv'
<1> USE DEF ticketVars, replayVars, TicketInv
<1>1. TicketTypes'
  BY DEF TicketTypes
<1>2. HandlerInv'
  BY DEF HandlerInv, Only
<1>3. Presented'
  BY DEF Presented, Issued, Only
<1>4. Recording'
  BY DEF Recording, Issued, Only, Shaking
<1>5. Remembered'
  BY DEF Remembered, replayUntil
<1> QED BY <1>1, <1>2, <1>3, <1>4, <1>5

\* serveSession gets to no ticket.
LEMMA TicketSession ==
    ASSUME NEW h \in Handlers, TicketInv, Session(h), UNCHANGED <<now, claims>>
    PROVE  TicketInv'
<1>1. HandlerInv
  BY DEF TicketInv
<1>2. UNCHANGED ticketVars
  BY DEF Session, ticketVars
<1>3. /\ Only(h)
      /\ hs'[h].at \in Shaking => hs'[h].at = hs[h].at /\ hs'[h].tk = hs[h].tk
  <2>1. CASE acceptStream(h)
    BY <2>1, <1>1, Drains, Streaming, Charged, Zenon DEF acceptStream, End, Shaking
  <2>2. CASE handleStream(h)
    BY <2>2, <1>1, StreamOver, Zenon DEF handleStream
  <2>3. CASE expire(h)
    BY <2>3, <1>1, Idles, Zenon DEF expire, Shaking
  <2>4. CASE onExpire(h) \/ lifetimeOver(h)
    BY <2>4, <1>1, Drains, Zenon DEF onExpire, lifetimeOver, End, Shaking
  <2>5. CASE Drained(h)
    BY <2>5, <1>1, Done, Zenon DEF Drained, Shaking
  <2> QED BY <2>1, <2>2, <2>3, <2>4, <2>5 DEF Session
<1> QED BY <1>2, <1>3, TicketAside

\* A request is taken for a ticket that was issued, or turned away.
LEMMA TicketRequest ==
    ASSUME NEW h \in Handlers, NEW t \in Tickets, TicketInv, handleBridge(h, t),
           UNCHANGED <<now, claims>>
    PROVE  TicketInv'
<1> USE DEF TicketInv, replayVars
<1>1. /\ HandlerInv /\ post[t].n > 0 /\ post' = [post EXCEPT ![t].n = @ - 1]
      /\ UNCHANGED <<replayVars, grants>>
  BY DEF handleBridge
<1>2. TicketTypes'
  BY <1>1 DEF TicketTypes
<1>3. /\ \A u \in Tickets : post'[u].n > 0 => post[u].n > 0
      /\ t \in Issued
  BY <1>1 DEF TicketTypes, Presented
<1>4. CASE UNCHANGED hs
  BY <1>1, <1>2, <1>3, <1>4 DEF HandlerInv, Presented, Recording, Remembered, Issued, replayUntil
<1>5. CASE hs' = [hs EXCEPT ![h] = [Free EXCEPT !.at = "check", !.tk = t]]
  <2>1. Only(h) /\ hs'[h].at = "check" /\ hs'[h].tk = t
    BY <1>1, <1>5, Begun, Zenon
  <2>2. HandlerInv'
    BY <1>1, <2>1 DEF HandlerInv, Only
  <2>3. Presented'
    BY <1>1, <1>3, <2>1 DEF Presented, Issued, Only
  <2>4. Recording'
    BY <1>1, <2>1 DEF Recording, Issued, Only
  <2>5. Remembered'
    BY <1>1 DEF Remembered, replayUntil
  <2> QED BY <1>2, <2>2, <2>3, <2>4, <2>5
<1> QED BY <1>4, <1>5 DEF handleBridge

\* What is forgotten can no longer be presented.
LEMMA Forgotten ==
    ASSUME TicketInv, UNCHANGED <<now, claims, grants>>, store' \in {store, "broken"},
           index' \in {index, prune}, journal' \in {journal, compactLocked},
           store = "open" \/ UNCHANGED <<journal, store>>
    PROVE  Remembered' /\ index' \subseteq Tickets /\ journal' \subseteq Tickets
BY DEF TicketInv, TicketTypes, Remembered, replayUntil, prune, Current, compactLocked

\* The deferred releases let a ticket go.
LEMMA TicketTurned ==
    ASSUME NEW h \in Handlers, TicketInv, Turned(h), UNCHANGED <<now, claims>>,
           tail' \in {tail, None}, Remembered', store' \in {store, "broken"},
           index' \subseteq Tickets /\ journal' \subseteq Tickets,
           UNCHANGED <<tail, store>> \/ \A k \in Handlers \ {h} : hs[k].at # "sync"
    PROVE  TicketInv'
<1> USE DEF TicketInv
<1>1. /\ HandlerInv /\ UNCHANGED <<post, grants>> /\ Only(h) /\ hs'[h].at = "free"
  BY Done, Zenon DEF Turned
<1>2. TicketTypes'
  BY <1>1 DEF TicketTypes
<1>3. HandlerInv'
  BY <1>1 DEF HandlerInv, Only
<1>4. Presented'
  BY <1>1 DEF Presented, Issued, Only, Shaking
<1>5. Recording'
  BY <1>1 DEF Recording, Issued, Only
<1> QED BY <1>2, <1>3, <1>4, <1>5

\* A handshake is rejected.
LEMMA TicketRejected ==
    ASSUME NEW h \in Handlers, TicketInv, Rejected(h), UNCHANGED <<now, claims>>
    PROVE  TicketInv' /\ UNCHANGED <<tail, grants>>
<1>1. Turned(h) /\ UNCHANGED <<tail, grants>>
  BY DEF Rejected, Turned, replayVars, ConsumeRefused, WriteFails
<1>2. CASE UNCHANGED replayVars
  BY <1>1, <1>2, Forgotten, TicketTurned DEF replayVars
<1>3. CASE ConsumeRefused(hs[h].tk)
  BY <1>1, <1>3, Forgotten, TicketTurned DEF ConsumeRefused
<1>4. CASE WriteFails(hs[h].tk)
  <2>1. /\ tail = None /\ store = "open" /\ index' = prune
        /\ journal' \in {journal, compactLocked} /\ store' \in {store, "broken"}
    BY <1>4 DEF WriteFails, Refuses
  <2>2. \A k \in Handlers : hs[k].at # "sync"
    BY <2>1, TicketAssumption DEF TicketInv, Recording, Presented, Shaking, Issued
  <2> QED BY <1>1, <2>1, <2>2, Forgotten, TicketTurned
<1> QED BY <1>1, <1>2, <1>3, <1>4 DEF Rejected

\* A record is written for a ticket that was not honoured yet: if it had been, the
\* index would say so.
LEMMA TicketConsume ==
    ASSUME NEW h \in Handlers, TicketInv, Consume(h), UNCHANGED <<now, claims>>
    PROVE  /\ TicketInv' /\ UNCHANGED grants
           /\ hs[h].tk \in Issued /\ grants[hs[h].tk] = 0
           /\ tail = None /\ tail' = hs[h].tk /\ replayUntil(hs[h].tk) > now
<1> DEFINE t == hs[h].tk
<1> USE DEF TicketInv
<1>1. /\ HandlerInv /\ hs[h].at = "check" /\ hs' = [hs EXCEPT ![h].at = "sync"]
      /\ UNCHANGED <<post, grants, store>> /\ tail = None /\ tail' = t /\ store = "open"
      /\ ~(replayUntil(t) <= now) /\ t \notin prune
      /\ index' = prune /\ journal' = compactLocked
  BY DEF Consume, Write, Refuses, contains
<1>2. t \in Issued /\ t \in Tickets
  BY <1>1 DEF Presented, Shaking, Issued
<1>3. replayUntil(t) > now
  BY <1>1, <1>2, TicketAssumption DEF TicketTypes, replayUntil
<1>4. grants[t] = 0
  BY <1>1, <1>2, <1>3 DEF TicketTypes, Remembered, prune, Current
<1>5. Remembered' /\ index' \subseteq Tickets /\ journal' \subseteq Tickets
  BY <1>1, Forgotten
<1>6. Only(h) /\ hs'[h].at = "sync" /\ hs'[h].tk = t
  BY <1>1, Syncs, Zenon
<1> HIDE DEF t
<1>7. TicketTypes'
  BY <1>1, <1>2, <1>5 DEF TicketTypes
<1>8. HandlerInv'
  BY <1>1, <1>6 DEF HandlerInv, Only
<1>9. Presented'
  BY <1>1, <1>2, <1>6 DEF Presented, Issued, Only
<1>10. \A k \in Handlers : hs[k].at # "sync"
  BY <1>1, TicketAssumption DEF Recording, Presented, Shaking, Issued
<1>11. Recording'
  BY <1>1, <1>2, <1>4, <1>6, <1>10 DEF Recording, Issued, Only
<1> QED BY <1>1, <1>2, <1>3, <1>4, <1>5, <1>7, <1>8, <1>9, <1>11 DEF t

\* A record whose sync fails may be there, and is not honoured.
LEMMA TicketConsumeFails ==
    ASSUME NEW h \in Handlers, TicketInv, ConsumeFails(h), UNCHANGED <<now, claims>>
    PROVE  TicketInv' /\ UNCHANGED grants /\ tail' = None
<1> USE DEF TicketInv
<1>1. /\ hs[h].at = "sync" /\ Turned(h) /\ UNCHANGED <<grants, index>>
      /\ journal' \in {journal, journal \cup {tail}} /\ tail' = None /\ store' = "broken"
  BY DEF ConsumeFails, SyncFails, Turned
<1>2. tail \in Tickets /\ store = "open" /\ \A k \in Handlers \ {h} : hs[k].at # "sync"
  BY <1>1 DEF Recording, Presented, Shaking, Issued
<1>3. Remembered' /\ index' \subseteq Tickets /\ journal' \subseteq Tickets
  BY <1>1, <1>2 DEF Remembered, TicketTypes, replayUntil
<1> QED BY <1>1, <1>2, <1>3, TicketTurned

\* A ticket is honoured once its record is on disk and indexed.
LEMMA TicketConsumed ==
    ASSUME NEW h \in Handlers, TicketInv, Consumed(h), UNCHANGED <<now, claims>>
    PROVE  /\ TicketInv' /\ tail \in Tickets /\ tail' = None
           /\ grants' = [grants EXCEPT ![tail] = 1]
<1> USE DEF TicketInv
<1>1. /\ HandlerInv /\ hs[h].at = "sync" /\ UNCHANGED <<post, store>> /\ tail' = None
      /\ journal' = journal \cup {tail} /\ index' = index \cup {tail}
      /\ grants' = [grants EXCEPT ![hs[h].tk] = @ + 1]
  BY DEF Consumed, Sync
<1>2. /\ tail \in Tickets /\ tail \in Issued /\ tail = hs[h].tk /\ grants[tail] = 0
      /\ \A k \in Handlers \ {h} : hs[k].at # "sync"
  <2>1. /\ tail = hs[h].tk /\ hs[h].tk \in Issued
        /\ \A k \in Handlers \ {h} : hs[k].at # "sync"
    BY <1>1, ZenonT(40) DEF Recording, Presented, Shaking
  <2>2. tail \in Tickets /\ tail # None
    BY <2>1, TicketAssumption, ZenonT(40) DEF Issued
  <2> QED BY <2>1, <2>2, ZenonT(40) DEF Recording
<1>3. grants' = [grants EXCEPT ![tail] = 1]
  BY <1>1, <1>2 DEF TicketTypes
<1>4. Only(h) /\ hs'[h].at \notin Shaking
  BY <1>1, Done, Serves, Zenon DEF Consumed, Shaking
<1>5. TicketTypes'
  BY <1>1, <1>2, <1>3 DEF TicketTypes
<1>6. HandlerInv'
  BY <1>1, <1>4 DEF HandlerInv, Only
<1>7. Presented'
  <2>1. Issued' = Issued
    BY DEF Issued
  <2>2. \A t \in Tickets : t # tail => grants'[t] = grants[t]
    BY <1>2, <1>3 DEF TicketTypes
  <2>3. \A t \in Tickets : post'[t].n > 0 \/ grants'[t] = 1 => t \in Issued'
    BY <1>1, <1>2, <2>1, <2>2, ZenonT(40) DEF Presented
  <2>4. \A k \in Handlers : hs'[k].at \in Shaking => hs'[k].tk \in Issued'
    BY <1>4, <2>1, ZenonT(40) DEF Presented, Only
  <2> QED BY <2>3, <2>4, ZenonT(40) DEF Presented
<1>8. Recording'
  <2>1. \A k \in Handlers : hs'[k].at # "sync"
    BY <1>2, <1>4, ZenonT(40) DEF Only, Shaking
  <2> QED BY <1>1, <2>1, ZenonT(40) DEF Recording
<1>9. Remembered'
  BY <1>1, <1>2, <1>3, <1>5 DEF Remembered, TicketTypes, replayUntil
<1> QED BY <1>2, <1>1, <1>3, <1>5, <1>6, <1>7, <1>8, <1>9, Zenon

\* What the process leaves behind is the journal.
LEMMA TicketCrash ==
    ASSUME TicketInv, Crash, UNCHANGED <<now, claims>>
    PROVE  TicketInv' /\ UNCHANGED grants /\ tail' = None
<1> USE DEF TicketInv
<1>1. /\ UNCHANGED <<post, grants>> /\ hs' = [h \in Handlers |-> Free]
      /\ tail' = None /\ store' = "down" /\ index' = {}
      /\ journal' = journal \/ (tail # None /\ journal' = journal \cup {tail})
  BY DEF Crash, Stop
<1>2. TicketTypes'
  BY <1>1 DEF TicketTypes
<1>3. HandlerInv' /\ \A h \in Handlers : hs'[h].at = "free"
  BY <1>1, FreeFields DEF HandlerInv
<1>4. Presented' /\ Recording'
  BY <1>1, <1>3 DEF Presented, Recording, Issued, Shaking
<1>5. Remembered'
  BY <1>1 DEF Remembered, replayUntil
<1> QED BY <1>1, <1>2, <1>3, <1>4, <1>5

\* The journal is read: what can still be presented is indexed.
LEMMA TicketRestart ==
    ASSUME TicketInv, Restart, UNCHANGED <<now, claims>>
    PROVE  TicketInv' /\ UNCHANGED <<tail, grants>>
<1> USE DEF TicketInv
<1>1. /\ UNCHANGED <<hs, post, grants, tail>> /\ store = "down" /\ store' = "open"
      /\ index' = Current(journal) /\ journal' = Current(journal)
  BY DEF Restart, load, sidecarVars
<1>2. TicketTypes'
  BY <1>1 DEF TicketTypes, Current
<1>3. HandlerInv' /\ Presented' /\ Recording'
  BY <1>1 DEF HandlerInv, Presented, Recording, Issued
<1>4. Remembered'
  BY <1>1 DEF Remembered, Current, replayUntil
<1> QED BY <1>1, <1>2, <1>3, <1>4

\* The front repeats a request with a ticket.
LEMMA TicketRepeat ==
    ASSUME NEW t \in Tickets, TicketInv, Repeat(t), UNCHANGED <<now, claims>>
    PROVE  TicketInv' /\ UNCHANGED <<tail, grants>>
<1> USE DEF TicketInv
<1>1. /\ UNCHANGED <<hs, grants, replayVars>> /\ t \in Issued
      /\ post' = [post EXCEPT ![t].n = @ + 1]
  BY DEF Repeat
<1>2. TicketTypes'
  BY <1>1 DEF TicketTypes, replayVars
<1>3. \A u \in Tickets : post'[u].n > 0 => post[u].n > 0 \/ u = t
  BY <1>1 DEF TicketTypes
<1>4. Presented'
  BY <1>1, <1>3 DEF Presented, Issued
<1>5. HandlerInv' /\ Recording' /\ Remembered'
  BY <1>1 DEF HandlerInv, Recording, Remembered, Issued, replayUntil, replayVars
<1> QED BY <1>1, <1>2, <1>4, <1>5 DEF replayVars

\* A ticket that has expired need not be remembered.
LEMMA TicketTick ==
    ASSUME TicketInv, Tick, UNCHANGED <<claims, replayVars, sidecarVars>>
    PROVE  TicketInv' /\ UNCHANGED <<tail, grants>> /\ now' = now + 1
<1> USE DEF TicketInv, replayVars, sidecarVars
<1>1. now \in Nat /\ now' = now + 1
  BY DEF Tick, TicketTypes
<1>2. TicketTypes' /\ HandlerInv' /\ Presented' /\ Recording'
  <2>1. TicketTypes'
    BY <1>1 DEF TicketTypes
  <2>2. HandlerInv' /\ Presented'
    BY ZenonT(40) DEF HandlerInv, Presented, Issued
  <2>3. Recording'
    BY ZenonT(40) DEF Recording, Issued
  <2> QED BY <2>1, <2>2, <2>3
<1>3. Remembered'
  <2>1. \A t \in Tickets : replayUntil(t) \in Nat /\ replayUntil(t)' = replayUntil(t)
    BY TicketAssumption DEF TicketTypes, replayUntil
  <2>2. \A t \in Tickets : replayUntil(t) > now' => replayUntil(t) > now
    BY <1>1, <2>1
  <2> QED BY <2>1, <2>2, ZenonT(40) DEF Remembered
<1> QED BY <1>1, <1>2, <1>3

\* The issuer's ticket is new, and lives beyond now.
LEMMA NewTicket ==
    ASSUME NEW f, TicketInv, wssTicketHandler(f)
    PROVE  /\ newWSSTicketID \in Tickets \ Issued
           /\ \E e \in Nat : /\ e > now + 1
                             /\ claims' = [claims EXCEPT ![newWSSTicketID] =
                                  [front |-> f, issued |-> now, exp |-> e]]
<1>1. Tickets \ Issued # {}
  BY DEF wssTicketHandler, Issued
<1>2. newWSSTicketID \in Tickets \ Issued
  BY <1>1 DEF newWSSTicketID
<1>3. now \in Nat /\ TTL \in Nat
  BY TicketAssumption DEF TicketInv, TicketTypes
<1>4. PICK e \in Expiries : claims' = [claims EXCEPT ![newWSSTicketID] =
                                  [front |-> f, issued |-> now, exp |-> e]]
  BY Zenon DEF wssTicketHandler
<1>5. e \in Nat /\ e > now + 1
  BY <1>3 DEF Expiries
<1> QED BY <1>2, <1>4, <1>5, Zenon

\* A ticket is issued, and a request with it may be under way.
LEMMA TicketIssued ==
    ASSUME NEW f, TicketInv, wssTicketHandler(f), UNCHANGED <<now, replayVars, hs, grants>>,
           \/ UNCHANGED post
           \/ post' = [post EXCEPT ![newWSSTicketID] = [n |-> @.n + 1, via |-> f]]
    PROVE  /\ TicketInv' /\ Issued' = Issued \cup {newWSSTicketID}
           /\ claims'[newWSSTicketID].exp + Skew > now
           /\ \A t \in Tickets \ {newWSSTicketID} : claims'[t] = claims[t]
<1> DEFINE t == newWSSTicketID
<1> USE DEF TicketInv, replayVars
<1>1. t \in Tickets /\ t \notin Issued
  BY NewTicket
<1>2. PICK e \in Nat : e > now + 1 /\ claims' = [claims EXCEPT ![t] =
                                  [front |-> f, issued |-> now, exp |-> e]]
  BY NewTicket
<1> UNCHANGED post \/ post' = [post EXCEPT ![t] = [n |-> @.n + 1, via |-> f]]
  OBVIOUS
<1> HIDE DEF t
<1>3. /\ DOMAIN claims' = Tickets /\ claims'[t].exp = e
      /\ \A u \in Tickets : u # t => claims'[u] = claims[u]
  <2>1. DOMAIN claims = Tickets
    BY ZenonT(40) DEF TicketTypes
  <2> QED BY <1>1, <1>2, <2>1
<1>4. e # 0 /\ Issued' = Issued \cup {t}
  <2>1. now \in Nat
    BY ZenonT(40) DEF TicketTypes
  <2>2. e # 0
    BY <1>2, <2>1
  <2> QED BY <1>1, <1>3, <2>2, ZenonT(40) DEF Issued
<1>5. TicketTypes'
  <2>1. \A u \in Tickets : claims'[u].exp \in Nat
    BY <1>2, <1>3, ZenonT(40) DEF TicketTypes
  <2>2. DOMAIN post' = Tickets /\ \A u \in Tickets : "n" \in DOMAIN post'[u] /\ post'[u].n \in Nat
    <3>1. DOMAIN post = Tickets /\ \A u \in Tickets : "n" \in DOMAIN post[u] /\ post[u].n \in Nat
      BY ZenonT(40) DEF TicketTypes
    <3> HIDE DEF TicketInv
    <3> QED BY <1>1, <3>1
  <2> QED BY <1>3, <2>1, <2>2, ZenonT(40) DEF TicketTypes
<1>6. \A u \in Tickets : u # t => post'[u] = post[u]
  BY DEF TicketTypes
<1>7. HandlerInv' /\ Presented' /\ Recording'
  BY <1>1, <1>4, <1>6 DEF HandlerInv, Presented, Recording, Shaking
<1>8. Remembered'
  <2>1. \A u \in Tickets : grants[u] = 1 => replayUntil(u)' = replayUntil(u)
    BY <1>1, <1>3, ZenonT(40) DEF Presented, replayUntil
  <2> QED BY <2>1, ZenonT(40) DEF Remembered
<1>9. e + Skew > now
  <2>1. now \in Nat
    BY ZenonT(40) DEF TicketTypes
  <2> HIDE DEF TicketInv
  <2> QED BY <1>2, <2>1, TicketAssumption
<1> QED BY <1>3, <1>4, <1>5, <1>7, <1>8, <1>9 DEF t

\* Nothing has happened yet.
LEMMA TicketStart ==
    ASSUME EnvInit, TicketInit, ReplayInit, SidecarInit
    PROVE  TicketInv
<1>1. TicketTypes
  BY DEF TicketTypes, EnvInit, TicketInit, Unissued, ReplayInit, SidecarInit
<1>2. HandlerInv /\ \A h \in Handlers : hs[h].at = "free"
  BY FreeFields DEF SidecarInit, HandlerInv
<1>3. Presented /\ Recording /\ Remembered
  BY <1>2 DEF Presented, Recording, Remembered, Shaking, SidecarInit, ReplayInit
<1> QED BY <1>1, <1>2, <1>3 DEF TicketInv

-----------------------------------------------------------------------------
(* Slots *)

\* A handler comes to a set of points, leaves it, or does neither.
LEMMA Enters ==
    ASSUME NEW h \in Handlers, NEW P, Only(h), hs[h].at \notin P, hs'[h].at \in P
    PROVE  Cardinality(HandlersIn(P)') = Cardinality(HandlersIn(P)) + 1
<1> DEFINE A == HandlersIn(P)
           B == HandlersIn(P)'
<1>1. IsFiniteSet(A) /\ h \notin A
  BY SidecarAssumption, FS_Subset DEF HandlersIn
<1>2. B = A \cup {h}
  BY DEF HandlersIn, Only
<1> HIDE DEF A, B
<1>3. Cardinality(B) = Cardinality(A) + 1
  BY <1>1, <1>2, FS_AddElement, Zenon
<1> QED BY <1>3 DEF A, B

LEMMA Exits ==
    ASSUME NEW h \in Handlers, NEW P, Only(h), hs[h].at \in P, hs'[h].at \notin P
    PROVE  Cardinality(HandlersIn(P)') = Cardinality(HandlersIn(P)) - 1
<1> DEFINE A == HandlersIn(P)
           B == HandlersIn(P)'
<1>1. IsFiniteSet(A) /\ h \in A
  BY SidecarAssumption, FS_Subset DEF HandlersIn
<1>2. B = A \ {h}
  BY DEF HandlersIn, Only
<1> HIDE DEF A, B
<1>3. Cardinality(B) = Cardinality(A) - 1
  BY <1>1, <1>2, FS_RemoveElement, Zenon
<1> QED BY <1>3 DEF A, B

LEMMA Stays ==
    ASSUME NEW h \in Handlers, NEW P, Only(h), hs[h].at \in P <=> hs'[h].at \in P
    PROVE  HandlersIn(P)' = HandlersIn(P)
BY DEF HandlersIn, Only

LEMMA HandlersFinite ==
    ASSUME NEW P
    PROVE  IsFiniteSet(HandlersIn(P)) /\ Cardinality(HandlersIn(P)) \in Nat
BY SidecarAssumption, FS_Subset, FS_CardinalityType DEF HandlersIn

LEMMA StreamsFinite == IsFiniteSet(LiveStreams) /\ Cardinality(LiveStreams) \in Nat
<1>1. IsFiniteSet(1 .. Budget)
  BY SidecarAssumption, FS_Interval
<1>2. IsFiniteSet(Handlers \X (1 .. Budget))
  BY <1>1, SidecarAssumption, FS_Product
<1> QED BY <1>2, FS_Subset, FS_CardinalityType DEF LiveStreams

\* A stream begins, ends, or neither.
LEMMA StreamBegins ==
    ASSUME NEW h \in Handlers, Only(h), hs[h].live \in Nat, hs[h].live < Budget,
           hs'[h].live = hs[h].live + 1
    PROVE  Cardinality(LiveStreams') = Cardinality(LiveStreams) + 1
<1> DEFINE A == LiveStreams
           B == LiveStreams'
           x == <<h, hs[h].live + 1>>
<1>1. IsFiniteSet(A)
  BY StreamsFinite
<1>2. x \notin A /\ x \in Handlers \X (1 .. Budget)
  BY SidecarAssumption DEF LiveStreams
<1>3. ASSUME NEW s \in Handlers \X (1 .. Budget)
      PROVE  s[2] <= hs'[s[1]].live <=> (s[2] <= hs[s[1]].live \/ s = x)
  <2>1. CASE s[1] = h
    <3>1. s[2] \in Nat /\ (s = x <=> s[2] = hs[h].live + 1)
      BY <2>1, SidecarAssumption
    <3> QED BY <2>1, <3>1
  <2>2. CASE s[1] # h
    BY <2>2 DEF Only
  <2> QED BY <2>1, <2>2
<1>4. B = A \cup {x}
  BY <1>2, <1>3 DEF LiveStreams
<1> HIDE DEF A, B, x
<1>5. Cardinality(B) = Cardinality(A) + 1
  BY <1>1, <1>2, <1>4, FS_AddElement, Zenon
<1> QED BY <1>5 DEF A, B

LEMMA StreamEnds ==
    ASSUME NEW h \in Handlers, Only(h), hs[h].live \in Nat \ {0}, hs[h].live <= Budget,
           hs'[h].live = hs[h].live - 1
    PROVE  Cardinality(LiveStreams') = Cardinality(LiveStreams) - 1
<1> DEFINE A == LiveStreams
           B == LiveStreams'
           x == <<h, hs[h].live>>
<1>1. IsFiniteSet(A)
  BY StreamsFinite
<1>2. x \in A /\ x \in Handlers \X (1 .. Budget)
  BY SidecarAssumption DEF LiveStreams
<1>3. ASSUME NEW s \in Handlers \X (1 .. Budget)
      PROVE  s[2] <= hs'[s[1]].live <=> (s[2] <= hs[s[1]].live /\ s # x)
  BY SidecarAssumption DEF Only
<1>4. B = A \ {x}
  BY <1>2, <1>3 DEF LiveStreams
<1> HIDE DEF A, B, x
<1>5. Cardinality(B) = Cardinality(A) - 1
  BY <1>1, <1>2, <1>4, FS_RemoveElement, Zenon
<1> QED BY <1>5 DEF A, B

LEMMA StreamsStay ==
    ASSUME NEW h \in Handlers, Only(h), hs'[h].live = hs[h].live
    PROVE  LiveStreams' = LiveStreams
<1>1. \A k \in Handlers : hs'[k].live = hs[k].live
  BY DEF Only
<1>2. ASSUME NEW s \in Handlers \X (1 .. Budget)
      PROVE  s[2] <= hs'[s[1]].live <=> s[2] <= hs[s[1]].live
  BY <1>1
<1> QED BY <1>2 DEF LiveStreams

SlotFields == {"hand", "sess", "src", "streams", "srcStreams"}
HandlerSound(h) ==
    /\ hs[h].live \in Nat /\ hs[h].left \in Nat /\ hs[h].live + hs[h].left <= Budget
    /\ hs[h].at \in Shaking \cup InUse \cup {"free"}
    /\ hs[h].at \notin InUse => hs[h].live = 0
SlotsHeld ==
    /\ SlotFields \subseteq DOMAIN slots
    /\ slots.hand = Cardinality(HandlersIn(Shaking))
    /\ slots.sess = Cardinality(HandlersIn(InUse)) /\ slots.src = slots.sess
    /\ slots.streams = Cardinality(LiveStreams) /\ slots.srcStreams = slots.streams
    /\ slots.src <= SourceSessions /\ slots.streams <= MaxStreams

LEMMA SlotParts ==
    /\ SlotInv <=> HandlerInv /\ SlotsHeld /\ \A h \in Handlers : HandlerSound(h)
    /\ SlotInv' <=> HandlerInv' /\ SlotsHeld' /\ \A h \in Handlers : HandlerSound(h)'
BY DEF SlotInv, SlotsHeld, SlotFields, HandlerSound

\* What is left to show of a step of one handler.
LEMMA SlotStep ==
    ASSUME NEW h \in Handlers, SlotInv, Only(h), HandlerSound(h)', SlotsHeld'
    PROVE  SlotInv'
<1>1. HandlerInv'
  BY DEF SlotInv, HandlerInv, Only
<1>2. \A k \in Handlers \ {h} : HandlerSound(k)'
  BY SlotParts, Zenon DEF Only, HandlerSound
<1> QED BY <1>1, <1>2, SlotParts

\* A handshake slot is taken.
LEMMA SlotTaken ==
    ASSUME NEW h \in Handlers, NEW t, SlotInv, hs[h].at = "free",
           hs' = [hs EXCEPT ![h] = [Free EXCEPT !.at = "check", !.tk = t]],
           slots' = takeHandshake(slots)
    PROVE  SlotInv'
<1>1. HandlerInv /\ SlotsHeld /\ HandlerSound(h)
  BY SlotParts
<1>2. /\ Only(h) /\ hs'[h].at = "check" /\ hs'[h].left = 0 /\ hs'[h].live = 0
      /\ hs[h].live = 0
  BY <1>1, Begun, Zenon DEF HandlerSound, InUse
<1>3. HandlerSound(h)'
  BY <1>2, SidecarAssumption DEF HandlerSound, Shaking
<1>4. Cardinality(HandlersIn(Shaking)') = Cardinality(HandlersIn(Shaking)) + 1
  BY <1>2, Enters DEF Shaking
<1>5. HandlersIn(InUse)' = HandlersIn(InUse) /\ LiveStreams' = LiveStreams
  BY <1>2, Stays, StreamsStay DEF InUse
<1>6. SlotsHeld'
  BY <1>1, <1>4, <1>5 DEF SlotsHeld, SlotFields, takeHandshake
<1> QED BY <1>2, <1>3, <1>6, SlotStep

\* It is released by a handler that ends.
LEMMA SlotDropped ==
    ASSUME NEW h \in Handlers, SlotInv, hs[h].at \in Shaking,
           hs' = [hs EXCEPT ![h] = Free], slots' = dropHandshake(slots)
    PROVE  SlotInv'
<1>1. HandlerInv /\ SlotsHeld /\ HandlerSound(h)
  BY SlotParts
<1>2. /\ Only(h) /\ hs'[h].at = "free" /\ hs'[h].left = 0 /\ hs'[h].live = 0
      /\ hs[h].live = 0
  BY <1>1, Done, Zenon DEF HandlerSound, InUse, Shaking
<1>3. HandlerSound(h)'
  BY <1>2, SidecarAssumption DEF HandlerSound
<1>4. Cardinality(HandlersIn(Shaking)') = Cardinality(HandlersIn(Shaking)) - 1
  BY <1>2, Exits DEF Shaking
<1>5. HandlersIn(InUse)' = HandlersIn(InUse) /\ LiveStreams' = LiveStreams
  BY <1>2, Stays, StreamsStay DEF InUse, Shaking
<1>6. SlotsHeld'
  BY <1>1, <1>4, <1>5 DEF SlotsHeld, SlotFields, dropHandshake
<1> QED BY <1>2, <1>3, <1>6, SlotStep

\* It is exchanged for that of a session.
LEMMA SlotServes ==
    ASSUME NEW h \in Handlers, SlotInv, hs[h].at = "sync", sessionRoom,
           hs' = [hs EXCEPT ![h].at = "serve", ![h].left = Budget],
           slots' = acquireSession(dropHandshake(slots))
    PROVE  SlotInv'
<1>1. HandlerInv /\ SlotsHeld /\ HandlerSound(h)
  BY SlotParts
<1>2. /\ Only(h) /\ hs'[h].at = "serve" /\ hs'[h].left = Budget /\ hs'[h].live = 0
      /\ hs[h].live = 0
  BY <1>1, Serves, Zenon DEF HandlerSound, InUse
<1>3. HandlerSound(h)'
  BY <1>2, SidecarAssumption DEF HandlerSound, InUse
<1>4. Cardinality(HandlersIn(Shaking)') = Cardinality(HandlersIn(Shaking)) - 1
  BY <1>2, Exits, Zenon DEF Shaking
<1>5. Cardinality(HandlersIn(InUse)') = Cardinality(HandlersIn(InUse)) + 1
  BY <1>2, Enters, Zenon DEF InUse
<1>6. LiveStreams' = LiveStreams
  BY <1>2, StreamsStay, Zenon
<1>7. /\ slots'.hand = slots.hand - 1 /\ slots'.sess = slots.sess + 1
      /\ slots'.src = slots.src + 1 /\ slots'.streams = slots.streams
      /\ slots'.srcStreams = slots.srcStreams /\ SlotFields \subseteq DOMAIN slots'
  BY <1>1 DEF SlotsHeld, SlotFields, dropHandshake, acquireSession
<1>8. SlotsHeld'
  BY <1>1, <1>4, <1>5, <1>6, <1>7, HandlersFinite, SidecarAssumption
  DEF SlotsHeld, sessionRoom
<1> QED BY <1>2, <1>3, <1>8, SlotStep

\* A handler that stays where it counts, and whose streams stay.
LEMMA SlotStays ==
    ASSUME NEW h \in Handlers, SlotInv, Only(h), HandlerSound(h)', UNCHANGED slots,
           hs[h].at \in InUse, hs'[h].at \in InUse, hs'[h].live = hs[h].live
    PROVE  SlotInv'
<1>1. SlotsHeld
  BY SlotParts
<1>2. HandlersIn(Shaking)' = HandlersIn(Shaking) /\ HandlersIn(InUse)' = HandlersIn(InUse)
  BY Stays DEF Shaking, InUse
<1>3. LiveStreams' = LiveStreams
  BY StreamsStay
<1>4. SlotsHeld'
  BY <1>1, <1>2, <1>3 DEF SlotsHeld
<1> QED BY <1>4, SlotStep

\* A stream is accepted and has its slot.
LEMMA SlotStreaming ==
    ASSUME NEW h \in Handlers, SlotInv, hs[h].at \in InUse, hs[h].left # 0, streamRoom,
           hs' = [hs EXCEPT ![h].at = "used", ![h].left = @ - 1, ![h].live = @ + 1],
           slots' = acquireStream(slots)
    PROVE  SlotInv'
<1>1. HandlerInv /\ SlotsHeld /\ HandlerSound(h)
  BY SlotParts
<1>2. /\ Only(h) /\ hs'[h].at = "used" /\ hs'[h].left = hs[h].left - 1
      /\ hs'[h].live = hs[h].live + 1
  BY <1>1, Streaming, Zenon
<1>3. /\ hs[h].live \in Nat /\ hs[h].left \in Nat \ {0} /\ hs[h].live < Budget
      /\ hs[h].live + hs[h].left <= Budget
  BY <1>1, SidecarAssumption DEF HandlerSound
<1>7. /\ hs'[h].live \in Nat /\ hs'[h].left \in Nat
      /\ hs'[h].live + hs'[h].left = hs[h].live + hs[h].left
  BY <1>2, <1>3
<1>8. HandlerSound(h)'
  BY <1>2, <1>3, <1>7 DEF HandlerSound, InUse
<1>4. HandlersIn(Shaking)' = HandlersIn(Shaking) /\ HandlersIn(InUse)' = HandlersIn(InUse)
  BY <1>2, Stays, Zenon DEF Shaking, InUse
<1>5. Cardinality(LiveStreams') = Cardinality(LiveStreams) + 1
  BY <1>2, <1>3, StreamBegins, Zenon
<1>6. SlotsHeld'
  BY <1>1, <1>4, <1>5, StreamsFinite, SidecarAssumption
  DEF SlotsHeld, SlotFields, acquireStream, streamRoom
<1> QED BY <1>2, <1>8, <1>6, SlotStep

\* A stream's slot is released with it.
LEMMA SlotStreamOver ==
    ASSUME NEW h \in Handlers, SlotInv, handleStream(h)
    PROVE  SlotInv'
<1>1. HandlerInv /\ SlotsHeld /\ HandlerSound(h)
  BY SlotParts
<1>2. /\ Only(h) /\ hs'[h].at = hs[h].at /\ hs'[h].left = hs[h].left
      /\ hs'[h].live = hs[h].live - 1
  BY <1>1, StreamOver, Zenon DEF handleStream
<1>3. HandlerSound(h)' /\ hs[h].live \in Nat \ {0} /\ hs[h].live <= Budget
  BY <1>1, <1>2, SidecarAssumption DEF HandlerSound, handleStream
<1>4. HandlersIn(Shaking)' = HandlersIn(Shaking) /\ HandlersIn(InUse)' = HandlersIn(InUse)
  BY <1>2, Stays
<1>5. Cardinality(LiveStreams') = Cardinality(LiveStreams) - 1
  BY <1>2, <1>3, StreamEnds
<1>6. SlotsHeld'
  BY <1>1, <1>4, <1>5, StreamsFinite, SidecarAssumption
  DEF SlotsHeld, SlotFields, releaseStream, handleStream
<1> QED BY <1>2, <1>3, <1>6, SlotStep

\* A session's slots are released once its streams are over.
LEMMA SlotDrained ==
    ASSUME NEW h \in Handlers, SlotInv, Drained(h)
    PROVE  SlotInv'
<1>1. HandlerInv /\ SlotsHeld /\ HandlerSound(h)
  BY SlotParts
<1>2. /\ Only(h) /\ hs'[h].at = "free" /\ hs'[h].left = 0 /\ hs'[h].live = 0
      /\ hs[h].live = 0 /\ hs[h].at = "drain" /\ slots' = releaseSession(slots)
  BY <1>1, Done, Zenon DEF Drained
<1>3. HandlerSound(h)'
  <2>1. 0 \in Nat /\ 0 + 0 <= Budget
    BY SidecarAssumption
  <2> QED BY <1>2, <2>1, ZenonT(40) DEF HandlerSound, InUse
<1>4. HandlersIn(Shaking)' = HandlersIn(Shaking)
  BY <1>2, Stays DEF Shaking
<1>5. Cardinality(HandlersIn(InUse)') = Cardinality(HandlersIn(InUse)) - 1
  BY <1>2, Exits DEF InUse
<1>6. LiveStreams' = LiveStreams
  BY <1>2, StreamsStay
<1>7. SlotsHeld'
  BY <1>1, <1>2, <1>4, <1>5, <1>6, HandlersFinite, SidecarAssumption
  DEF SlotsHeld, SlotFields, releaseSession
<1> QED BY <1>2, <1>3, <1>7, SlotStep

\* serveSession keeps the slots.
LEMMA SlotSession ==
    ASSUME NEW h \in Handlers, SlotInv, Session(h)
    PROVE  SlotInv'
<1>1. HandlerInv /\ HandlerSound(h)
  BY SlotParts
<1>2. ASSUME End(h), InSession(h), UNCHANGED slots
      PROVE  SlotInv'
  <2>1. /\ Only(h) /\ hs'[h].at = "drain" /\ hs'[h].left = 0 /\ hs'[h].live = hs[h].live
    BY <1>1, <1>2, Drains, Zenon DEF End
  <2>2. HandlerSound(h)'
    <3>1. hs[h].live \in Nat /\ hs[h].left \in Nat /\ hs[h].live + hs[h].left <= Budget
      BY <1>1, Zenon DEF HandlerSound
    <3>2. 0 \in Nat /\ hs[h].live + 0 <= Budget
      BY <3>1, SidecarAssumption, BudgetKept, ZenonT(40)
    <3> QED BY <2>1, <3>1, <3>2, Zenon DEF HandlerSound, InUse
  <2> QED BY <1>2, <2>1, <2>2, SlotStays DEF InSession, InUse
<1>3. CASE acceptStream(h)
  <2>1. CASE hs[h].left = 0
    BY <1>2, <1>3, <2>1 DEF acceptStream
  <2>2. CASE hs[h].left # 0 /\ streamRoom /\ Start(h)
    BY <1>3, <2>2, SlotStreaming, Zenon DEF acceptStream, InSession, InUse
  <2>3. CASE hs[h].left # 0 /\ ~(streamRoom /\ Start(h))
    <3>1. hs' = [hs EXCEPT ![h].left = @ - 1] /\ UNCHANGED slots /\ hs[h].at \in InUse
      BY <1>3, <2>3 DEF acceptStream, InSession, InUse
    <3>2. /\ Only(h) /\ hs'[h].at = hs[h].at /\ hs'[h].left = hs[h].left - 1
          /\ hs'[h].live = hs[h].live
      BY <1>1, <3>1, Charged, Zenon
    <3>3. HandlerSound(h)'
      <4>1. /\ hs[h].live \in Nat /\ hs[h].left \in Nat /\ hs[h].left # 0
            /\ hs[h].live + hs[h].left <= Budget
        BY <1>1, <2>3, ZenonT(40) DEF HandlerSound
      <4>2. hs[h].left - 1 \in Nat /\ hs[h].live + (hs[h].left - 1) <= Budget
        BY <4>1, SidecarAssumption, BudgetKept, ZenonT(40)
      <4> QED BY <1>1, <3>2, <4>1, <4>2, ZenonT(40) DEF HandlerSound
    <3> QED BY <3>1, <3>2, <3>3, SlotStays
  <2> QED BY <2>1, <2>2, <2>3
<1>4. CASE expire(h)
  <2>1. /\ Only(h) /\ hs'[h].at = "idle" /\ hs'[h].left = hs[h].left
        /\ hs'[h].live = hs[h].live /\ hs[h].at = "serve" /\ UNCHANGED slots
    BY <1>1, <1>4, Idles, Zenon DEF expire
  <2>2. HandlerSound(h)'
    BY <1>1, <2>1 DEF HandlerSound, InUse
  <2> QED BY <2>1, <2>2, SlotStays DEF InUse
<1>5. CASE onExpire(h) \/ lifetimeOver(h)
  BY <1>2, <1>5 DEF onExpire, lifetimeOver, InSession
<1> QED BY <1>3, <1>4, <1>5, SlotStreamOver, SlotDrained DEF Session

\* The handshake does.
LEMMA SlotHandshake ==
    ASSUME NEW h \in Handlers, SlotInv, Handshake(h)
    PROVE  SlotInv'
<1>0. HandlerInv /\ SlotsHeld /\ HandlerSound(h)
  BY SlotParts
<1>1. ASSUME UNCHANGED <<hs, slots>> PROVE SlotInv'
  BY <1>1 DEF SlotInv, HandlerInv, HandlersIn, LiveStreams
<1>2. ASSUME NEW t \in Tickets, handleBridge(h, t) PROVE SlotInv'
  <2>1. hs[h].at = "free"
    BY <1>2, SidecarAssumption DEF handleBridge, Spawned, Idle
  <2>2. \/ UNCHANGED <<hs, slots>>
        \/ /\ hs' = [hs EXCEPT ![h] = [Free EXCEPT !.at = "check", !.tk = t]]
           /\ slots' = takeHandshake(slots)
    BY <1>2, Zenon DEF handleBridge
  <2> QED BY <1>1, <2>1, <2>2, SlotTaken, Zenon
<1>3. CASE Rejected(h) \/ ConsumeFails(h)
  BY <1>3, SlotDropped DEF Rejected, ConsumeFails, Turned, Shaking
<1>4. CASE Consume(h)
  <2>1. /\ Only(h) /\ hs'[h].at = "sync" /\ hs'[h].left = hs[h].left
        /\ hs'[h].live = hs[h].live /\ hs[h].at = "check" /\ UNCHANGED slots
    BY <1>0, <1>4, Syncs, Zenon DEF Consume
  <2>2. HandlerSound(h)'
    BY <1>0, <2>1 DEF HandlerSound, Shaking, InUse
  <2>3. /\ HandlersIn(Shaking)' = HandlersIn(Shaking)
        /\ HandlersIn(InUse)' = HandlersIn(InUse) /\ LiveStreams' = LiveStreams
    BY <2>1, Stays, StreamsStay DEF Shaking, InUse
  <2>4. SlotsHeld'
    BY <1>0, <2>1, <2>3 DEF SlotsHeld
  <2> QED BY <2>1, <2>2, <2>4, SlotStep
<1>5. CASE Consumed(h)
  BY <1>5, SlotServes, SlotDropped DEF Consumed, Shaking
<1> QED BY <1>2, <1>3, <1>4, <1>5 DEF Handshake

\* Nobody is there: nothing is held.
LEMMA SlotsEmpty ==
    ASSUME hs = [h \in Handlers |-> Free], SlotFields \subseteq DOMAIN slots,
           \A f \in SlotFields : slots[f] = 0
    PROVE  SlotInv
<1>1. HandlerInv /\ \A h \in Handlers : hs[h] = Free
  BY FreeFields DEF HandlerInv
<1>2. \A h \in Handlers : HandlerSound(h)
  BY <1>1, FreeFields, SidecarAssumption DEF HandlerSound, InUse
<1>3. HandlersIn(Shaking) = {} /\ HandlersIn(InUse) = {} /\ LiveStreams = {}
  BY <1>1, FreeFields DEF HandlersIn, LiveStreams, Shaking, InUse
<1>c. Cardinality({}) = 0
  BY FS_EmptySet
<1>4. SlotsHeld
  BY <1>3, <1>c, SidecarAssumption DEF SlotsHeld, SlotFields
<1> QED BY <1>1, <1>2, <1>4, SlotParts

LEMMA SlotStart ==
    ASSUME SidecarInit
    PROVE  SlotInv
<1>1. hs = [h \in Handlers |-> Free]
  BY ZenonT(40) DEF SidecarInit
<1>2. SlotFields \subseteq DOMAIN slots /\ \A f \in SlotFields : slots[f] = 0
  <2>1. slots = [hand |-> 0, sess |-> 0, src |-> 0, streams |-> 0, srcStreams |-> 0]
    BY ZenonT(40) DEF SidecarInit
  <2> QED BY <2>1 DEF SlotFields
<1> QED BY <1>1, <1>2, SlotsEmpty, ZenonT(40)

\* A process that dies holds nothing.
LEMMA SlotCrash ==
    ASSUME SlotInv, Crash
    PROVE  SlotInv'
<1>1. hs' = [h \in Handlers |-> Free] /\ slots' = [f \in DOMAIN slots |-> 0]
  BY DEF Crash
<1>2. HandlerInv' /\ \A h \in Handlers : hs'[h] = Free
  BY <1>1, FreeFields DEF HandlerInv
<1>3. \A h \in Handlers : HandlerSound(h)'
  BY <1>2, FreeFields, SidecarAssumption DEF HandlerSound, InUse
<1>4. HandlersIn(Shaking)' = {} /\ HandlersIn(InUse)' = {} /\ LiveStreams' = {}
  BY <1>2, FreeFields DEF HandlersIn, LiveStreams, Shaking, InUse
<1>c. Cardinality({}) = 0
  BY FS_EmptySet
<1>f. SlotFields \subseteq DOMAIN slots
  BY DEF SlotInv, SlotFields
<1>g. SlotFields \subseteq DOMAIN slots' /\ \A f \in SlotFields : slots'[f] = 0
  BY <1>1, <1>f
<1>5. SlotsHeld'
  BY <1>4, <1>c, <1>g, SidecarAssumption DEF SlotsHeld, SlotFields
<1> QED BY <1>2, <1>3, <1>5, SlotParts

-----------------------------------------------------------------------------
(* Jobs of the app *)

\* No job other than j does anything.
Alone(j) ==
    /\ DOMAIN job' = Jobs /\ JobFields \subseteq DOMAIN job'[j]
    /\ \A k \in Jobs \ {j} : job'[k] = job[k]

LEMMA OffFields == JobFields \subseteq DOMAIN Off /\ Off.at = "off"
BY DEF Off, JobFields

\* A job starts.
LEMMA JobBegins ==
    ASSUME NEW j \in Jobs, NEW at, NEW arg, JobInv, Begins(j, at, arg)
    PROVE  /\ Alone(j) /\ job'[j].at = at /\ job'[j].arg = arg
           /\ UNCHANGED <<settingsVars, directoryVars>>
<1> DEFINE r == [Off EXCEPT !.at = at, !.arg = arg]
<1>1. JobFields \subseteq DOMAIN r /\ r.at = at /\ r.arg = arg
  BY DEF Off, JobFields
<1>2. job' = [job EXCEPT ![j] = r] /\ UNCHANGED <<settingsVars, directoryVars>>
  BY DEF Begins
<1> HIDE DEF r
<1> QED BY <1>1, <1>2 DEF Alone, JobInv

\* It goes on, or ends.
LEMMA JobTo ==
    ASSUME NEW j \in Jobs, NEW at, JobInv, To(j, at)
    PROVE  Alone(j) /\ job'[j].at = at /\ (at # "off" => job'[j].arg = job[j].arg)
<1>1. CASE at = "off"
  BY <1>1, OffFields DEF To, Alone, JobInv
<1>2. CASE at # "off"
  BY <1>2 DEF To, Alone, JobInv, JobFields
<1> QED BY <1>1, <1>2

\* It has a list, which is good if the cache had it.
LEMMA JobServed ==
    ASSUME NEW j \in Jobs, NEW w \in BOOLEAN, JobInv, snapshotFor(URLOf(j), w), Served(j, cache)
    PROVE  /\ Alone(j) /\ job'[j].at = "listed" /\ job'[j].got = "good"
           /\ job'[j].arg = job[j].arg
<1>1. cache.url = URLOf(j) /\ cache.left # 0
  BY DEF snapshotFor
<1>2. job' = [job EXCEPT ![j].at = "listed", ![j].got = "good"]
  BY <1>1 DEF Served
<1> QED BY <1>2 DEF Alone, JobInv, JobFields

\* What a restart of the core leaves of the jobs.
LEMMA JobsDropped ==
    ASSUME JobInv, \/ job' = Dropped
                   \/ \E j \in Jobs : job[j].at = "offer" /\ job' = [Dropped EXCEPT ![j].at = "set"]
    PROVE  /\ JobInv'
           /\ \A k \in Jobs : \/ job'[k].at = "off"
                              \/ /\ job'[k].at \in {"offer", "set"} /\ job[k].at = "offer"
                                 /\ job'[k].arg = job[k].arg
<1>1. /\ DOMAIN Dropped = Jobs
      /\ \A k \in Jobs : /\ JobFields \subseteq DOMAIN Dropped[k]
                         /\ \/ Dropped[k].at = "off" /\ job[k].at # "offer"
                            \/ job[k].at = "offer" /\ Dropped[k] = job[k]
  BY OffFields DEF Dropped, JobInv
<1>2. CASE job' = Dropped
  BY <1>1, <1>2 DEF JobInv
<1>3. ASSUME NEW j \in Jobs, job[j].at = "offer", job' = [Dropped EXCEPT ![j].at = "set"]
      PROVE  /\ JobInv'
             /\ \A k \in Jobs : \/ job'[k].at = "off"
                              \/ /\ job'[k].at \in {"offer", "set"} /\ job[k].at = "offer"
                                 /\ job'[k].arg = job[k].arg
  <2> HIDE DEF Dropped
  <2>1. /\ DOMAIN job' = Jobs /\ \A k \in Jobs \ {j} : job'[k] = Dropped[k]
        /\ JobFields \subseteq DOMAIN job'[j] /\ job'[j].at = "set"
        /\ job'[j].arg = Dropped[j].arg
    BY <1>1, <1>3 DEF JobFields
  <2> QED BY <1>1, <1>3, <2>1 DEF JobInv
<1> QED BY <1>2, <1>3

\* A job goes where neither the cache nor the file is touched.
Shifts(j) ==
    /\ Alone(j) /\ job'[j].at \notin {"listed", "fetch", "save"}
    /\ job'[j].at \in Asked /\ j \notin Saves => job'[j].arg \in CaptureModes
    /\ UNCHANGED <<file, settingsMu, directoryVars>> /\ mode' \in CaptureModes

LEMMA ShiftKeeps ==
    ASSUME NEW j \in Jobs, PanelInv, Shifts(j)
    PROVE  PanelInv'
<1> USE DEF PanelInv, ListInv, FileInv, Shifts, Alone, directoryVars
<1>1. JobInv'
  BY Zenon DEF JobInv
<1>2. ListInv'
  BY <1>1 DEF snapshotFor, URLOf
<1>3. FileInv'
  BY <1>1
<1>4. ModeInv'
  BY DEF ModeInv, CaptureModes
<1> QED BY <1>1, <1>2, <1>3, <1>4, Zenon

\* Threads that start.
LEMMA StartsShift ==
    ASSUME PanelInv,
           \/ UpdateFromRemote \/ StartAutoRefresh \/ Tcping_Click \/ RealDelay_Click
           \/ SaveDns \/ ModeCombo_SelectionChanged
           \/ \E m \in Modes : Begins("sync", "state", m)
    PROVE  \E j \in Jobs : Shifts(j)
<1>1. ASSUME NEW j \in Jobs, NEW at \in {"list", "ask", "set", "state"}, NEW arg,
             Begins(j, at, arg), at \in Asked /\ j \notin Saves => arg \in CaptureModes
      PROVE  Shifts(j)
  <2>1. JobInv /\ mode \in CaptureModes
    BY DEF PanelInv, ListInv, ModeInv, CaptureModes
  <2>2. /\ Alone(j) /\ job'[j].at = at /\ job'[j].arg = arg
        /\ UNCHANGED <<settingsVars, directoryVars>>
    BY <1>1, <2>1, JobBegins
  <2> QED BY <1>1, <2>1, <2>2 DEF Shifts, settingsVars
<1>2. Modes \subseteq CaptureModes
  BY PanelAssumption DEF CaptureModes
<1>3. {"update", "refresh", "test", "combo", "sync"} \subseteq Jobs /\ Saves \subseteq Jobs
  BY DEF Jobs, Loads, Sets
<1>4. "list" \notin Asked /\ "ask" \notin Asked
  BY DEF Asked
<1>5. CASE UpdateFromRemote
  BY <1>1, <1>3, <1>4, <1>5 DEF UpdateFromRemote
<1>6. CASE StartAutoRefresh
  BY <1>1, <1>3, <1>4, <1>6 DEF StartAutoRefresh
<1>7. CASE Tcping_Click
  BY <1>1, <1>3, <1>4, <1>7 DEF Tcping_Click
<1>8. CASE RealDelay_Click
  BY <1>1, <1>3, <1>4, <1>8 DEF RealDelay_Click
<1>9. CASE SaveDns
  BY <1>1, <1>3, <1>9 DEF SaveDns
<1>10. CASE ModeCombo_SelectionChanged
  BY <1>1, <1>2, <1>3, <1>10 DEF ModeCombo_SelectionChanged
<1>11. CASE \E m \in Modes : Begins("sync", "state", m)
  BY <1>1, <1>2, <1>3, <1>11
<1> QED BY <1>5, <1>6, <1>7, <1>8, <1>9, <1>10, <1>11

\* Threads that go on or end.
LEMMA MovesShift ==
    ASSUME NEW j \in Jobs, NEW at, PanelInv, To(j, at), at \notin {"listed", "fetch", "save"},
           at \in Asked => job[j].at \in Asked,
           UNCHANGED <<file, settingsMu, directoryVars>>, mode' \in CaptureModes
    PROVE  Shifts(j)
<1>1. JobInv /\ ModeInv
  BY DEF PanelInv, ListInv
<1>2. Alone(j) /\ job'[j].at = at /\ (at # "off" => job'[j].arg = job[j].arg)
  BY <1>1, JobTo
<1> QED BY <1>1, <1>2 DEF Shifts, ModeInv, Asked, CaptureModes

LEMMA RunsShift ==
    ASSUME PanelInv,
           \/ TcpingRelays \/ TestRelayDelay
           \/ /\ job["sync"].at = "state"
              /\ To("sync", IF mode # job["sync"].arg THEN "set"
                            ELSE IF mode = "tun" /\ ~elevated THEN "offer" ELSE "off")
              /\ UNCHANGED <<settingsVars, directoryVars>>
           \/ \E j \in Jobs : Load(j) \/ SetTunnelDNS(j) \/ handleMode(j) \/ Declined(j)
    PROVE  \E j \in Jobs : Shifts(j)
<1>1. mode \in CaptureModes
  BY DEF PanelInv, ModeInv, CaptureModes
<1>2. {"test", "sync"} \subseteq Jobs
  BY DEF Jobs, Sets
<1>3. CASE TcpingRelays
  BY <1>1, <1>2, <1>3, MovesShift DEF TcpingRelays, settingsVars, Asked
<1>4. CASE TestRelayDelay
  BY <1>1, <1>2, <1>4, MovesShift DEF TestRelayDelay, settingsVars, Asked
<1>5. CASE /\ job["sync"].at = "state"
           /\ To("sync", IF mode # job["sync"].arg THEN "set"
                         ELSE IF mode = "tun" /\ ~elevated THEN "offer" ELSE "off")
           /\ UNCHANGED <<settingsVars, directoryVars>>
  BY <1>1, <1>2, <1>5, MovesShift DEF settingsVars, Asked
<1>6. ASSUME NEW j \in Jobs, Load(j) PROVE Shifts(j)
  BY <1>1, <1>6, MovesShift DEF Load, settingsVars, Asked
<1>7. ASSUME NEW j \in Jobs, SetTunnelDNS(j) PROVE Shifts(j)
  BY <1>1, <1>7, MovesShift, Zenon DEF SetTunnelDNS, Asked
<1>8. ASSUME NEW j \in Jobs, handleMode(j) PROVE Shifts(j)
  <2>1. j \notin Saves /\ job[j].at \in Asked
    BY <1>8, PanelAssumption DEF handleMode, Asked
  <2>2. mode' \in CaptureModes
    BY <1>1, <1>8, <2>1, Zenon DEF handleMode, PanelInv, ModeInv, CaptureModes
  <2> QED BY <1>8, <2>1, <2>2, MovesShift, Zenon DEF handleMode, Asked
<1>9. ASSUME NEW j \in Jobs, Declined(j) PROVE Shifts(j)
  BY <1>1, <1>9, MovesShift, Zenon DEF Declined, settingsVars, Asked
<1> QED BY <1>3, <1>4, <1>5, <1>6, <1>7, <1>8, <1>9

\* flightMu is held by the one job that fetches.
LEMMA OneFlight ==
    ASSUME PanelInv, NEW j \in Jobs, job[j].at = "fetch"
    PROVE  flight = j /\ \A k \in Jobs \ {j} : job[k].at # "fetch"
BY Zenon DEF PanelInv, ListInv

\* The cache is looked up, or a job goes to fetch.
LEMMA FetchKeeps ==
    ASSUME NEW j \in Jobs, PanelInv, fetch(j)
    PROVE  PanelInv' /\ UNCHANGED file
<1>1. JobInv /\ job[j].at = "list" /\ flight = None /\ UNCHANGED <<cache, settingsVars>>
  BY Zenon DEF fetch, PanelInv, ListInv
<1>2. \A k \in Jobs : job[k].at # "fetch"
  BY <1>1, OneFlight, PanelAssumption
<1>3. /\ Alone(j)
      /\ \/ job'[j].at = "listed" /\ job'[j].got = "good"
         \/ job'[j].at = "fetch" /\ flight' = j /\ ~snapshotFor(URLOf(j), TRUE)
  BY <1>1, JobTo, JobServed, Zenon DEF fetch
<1>4. JobInv'
  BY <1>1, <1>3, Zenon DEF JobInv, Alone
<1>5. ListInv'
  BY <1>1, <1>2, <1>3, <1>4, Zenon
  DEF PanelInv, ListInv, Alone, snapshotFor, URLOf
<1>6. FileInv' /\ ModeInv'
  BY <1>1, <1>3, <1>4, Zenon DEF PanelInv, FileInv, ModeInv, Alone, settingsVars, Asked
<1> QED BY <1>1, <1>4, <1>5, <1>6, Zenon DEF PanelInv, settingsVars

\* A fetch ends, with a list or without.
LEMMA FetcherKeeps ==
    ASSUME NEW j \in Jobs, PanelInv, fetcher(j)
    PROVE  PanelInv' /\ UNCHANGED file
<1>1. JobInv /\ job[j].at = "fetch" /\ UNCHANGED settingsVars
  BY DEF fetcher, PanelInv, ListInv
<1>2. \A k \in Jobs \ {j} : job[k].at # "fetch"
  BY <1>1, OneFlight
<1>3. /\ Alone(j)
      /\ (job'[j].at = "listed" /\ job'[j].got = "good") \/ job'[j].at = "off"
  <2>1. CASE job' = [job EXCEPT ![j].at = "listed", ![j].got = "good"]
    BY <1>1, <2>1 DEF JobInv, JobFields, Alone
  <2>2. CASE snapshotFor(URLOf(j), FALSE) /\ Served(j, cache)
    BY <1>1, <2>2, JobServed, Zenon
  <2>3. CASE To(j, "off")
    BY <1>1, <2>3, JobTo, Zenon
  <2> QED BY <2>1, <2>2, <2>3, Zenon DEF fetcher
<1>4. cache' # None => {"url", "age", "left"} \subseteq DOMAIN cache'
  <2>1. CASE UNCHANGED cache
    BY <2>1 DEF PanelInv, ListInv
  <2>2. CASE \E left \in Validities : cache' = [url |-> URLOf(j), age |-> 0, left |-> left]
    BY <2>2
  <2> QED BY <2>1, <2>2, Zenon DEF fetcher
<1>5. JobInv'
  BY <1>1, <1>3 DEF JobInv, Alone
<1>6. ListInv'
  BY <1>2, <1>3, <1>4, <1>5, Zenon DEF PanelInv, ListInv, Alone
<1>7. FileInv' /\ ModeInv'
  BY <1>1, <1>3, <1>5 DEF PanelInv, FileInv, ModeInv, Alone, settingsVars, Asked
<1> QED BY <1>1, <1>5, <1>6, <1>7, Zenon DEF PanelInv, settingsVars

\* A list that ages does not become one that need not be fetched.
LEMMA AgeingKeeps ==
    ASSUME PanelInv, Ageing
    PROVE  PanelInv' /\ UNCHANGED file
<1>1. /\ UNCHANGED <<settingsVars, flight, job>> /\ cache # None
      /\ {"url", "age", "left"} \subseteq DOMAIN cache
  BY DEF Ageing, PanelInv, ListInv
<1>2. /\ {"url", "age", "left"} \subseteq DOMAIN cache' /\ cache'.url = cache.url
      /\ cache'.age = (IF cache.age < Refresh THEN cache.age + 1 ELSE cache.age)
      /\ cache'.left = (IF cache.left > 0 THEN cache.left - 1 ELSE cache.left)
  BY <1>1 DEF Ageing
<1>3. \A u : snapshotFor(u, TRUE)' => snapshotFor(u, TRUE)
  BY <1>1, <1>2 DEF snapshotFor
<1>4. ListInv'
  BY <1>1, <1>2, <1>3, Zenon DEF PanelInv, ListInv, JobInv, URLOf
<1>5. FileInv' /\ ModeInv'
  BY <1>1 DEF PanelInv, FileInv, JobInv, ModeInv, settingsVars
<1> QED BY <1>1, <1>4, <1>5 DEF PanelInv, JobInv, settingsVars

\* The file is read under settingsMu.
LEMMA LoadKeeps ==
    ASSUME NEW j \in Jobs, PanelInv, loadSettings(j)
    PROVE  PanelInv' /\ UNCHANGED file
<1>1. /\ JobInv /\ job[j].at = "load" /\ settingsMu = None /\ settingsMu' = j
      /\ UNCHANGED <<mode, file, directoryVars>>
      /\ \E got \in {file, None} : job' = [job EXCEPT ![j].at = "save", ![j].got = got]
  BY Zenon DEF loadSettings, PanelInv, ListInv
<1>2. \A k \in Jobs : job[k].at # "save"
  BY <1>1, PanelAssumption DEF PanelInv, FileInv
<1>3. /\ Alone(j) /\ job'[j].at = "save" /\ job'[j].got \in {file, None}
      /\ job'[j].arg = job[j].arg
  BY <1>1 DEF JobInv, JobFields, Alone
<1>4. JobInv'
  BY <1>1, <1>3 DEF JobInv, Alone
<1>5. ListInv'
  BY <1>1, <1>3, <1>4
  DEF PanelInv, ListInv, Alone, snapshotFor, URLOf, directoryVars
<1>6. FileInv'
  BY <1>1, <1>2, <1>3, <1>4 DEF PanelInv, FileInv, Alone
<1>7. ModeInv'
  BY <1>1, <1>3 DEF PanelInv, ModeInv, Alone, Asked
<1> QED BY <1>1, <1>4, <1>5, <1>6, <1>7 DEF PanelInv

LEMMA UnsetFile == {"mode", "dns"} \subseteq DOMAIN Unset /\ Unset.mode \in CaptureModes
BY DEF Unset, CaptureModes

\* What a job that could not read the file takes it to say.
LEMMA ContentsKept ==
    ASSUME NEW j \in Jobs, PanelInv, job[j].at = "save"
    PROVE  /\ {"mode", "dns"} \subseteq DOMAIN Contents(job[j].got)
           /\ Contents(job[j].got).mode \in CaptureModes
           /\ Contents(job[j].got) = IF job[j].got = None THEN Unset ELSE file
<1>1. /\ job[j].got \in {file, None} /\ {"mode", "dns"} \subseteq DOMAIN file
      /\ file.mode \in CaptureModes
  BY DEF PanelInv, FileInv, ModeInv
<1> QED BY <1>1, UnsetFile DEF Contents

\* It is written with one half changed and the other as it was read, or not at all.
LEMMA SaveKeeps ==
    ASSUME NEW j \in Jobs, PanelInv, saveSettings(j)
    PROVE  /\ PanelInv' /\ Alone(j) /\ job[j].at = "save" /\ job'[j].at = "off"
           /\ file' # file => Half(j, file') = Half(j, Contents(job[j].got))
<1>1. /\ JobInv /\ job[j].at = "save" /\ UNCHANGED <<mode, directoryVars>> /\ To(j, "off")
      /\ \/ file' = IF j \in Saves THEN [Contents(job[j].got) EXCEPT !.dns = job[j].arg]
                    ELSE [Contents(job[j].got) EXCEPT !.mode = job[j].arg]
         \/ UNCHANGED file
  BY DEF saveSettings, PanelInv, ListInv
<1>2. /\ {"mode", "dns"} \subseteq DOMAIN file /\ file.mode \in CaptureModes
      /\ \A k \in Jobs \ {j} : job[k].at # "save"
      /\ j \notin Saves => job[j].arg \in CaptureModes
  BY <1>1 DEF PanelInv, FileInv, ModeInv, Asked
<1>3. Alone(j) /\ job'[j].at = "off"
  BY <1>1, JobTo
<1>4. /\ {"mode", "dns"} \subseteq DOMAIN file' /\ file'.mode \in CaptureModes
      /\ file' # file => Half(j, file') = Half(j, Contents(job[j].got))
  <2> DEFINE g == Contents(job[j].got)
  <2>1. {"mode", "dns"} \subseteq DOMAIN g /\ g.mode \in CaptureModes
    BY <1>1, ContentsKept
  <2>2. CASE UNCHANGED file
    BY <1>2, <2>2
  <2>3. CASE file' = IF j \in Saves THEN [g EXCEPT !.dns = job[j].arg]
                     ELSE [g EXCEPT !.mode = job[j].arg]
    <3> HIDE DEF g
    <3>1. CASE j \in Saves
      <4>1. file' = [g EXCEPT !.dns = job[j].arg]
        BY <2>3, <3>1, Zenon
      <4>2. DOMAIN file' = DOMAIN g /\ file'.mode = g.mode
        BY <2>1, <4>1
      <4> QED BY <2>1, <3>1, <4>2, Zenon DEF Half, g
    <3>2. CASE j \notin Saves
      <4>1. file' = [g EXCEPT !.mode = job[j].arg]
        BY <2>3, <3>2, Zenon
      <4>2. DOMAIN file' = DOMAIN g /\ file'.mode = job[j].arg /\ file'.dns = g.dns
        BY <2>1, <4>1
      <4> QED BY <1>2, <2>1, <3>2, <4>2, Zenon DEF Half, g
    <3> QED BY <3>1, <3>2
  <2> QED BY <1>1, <2>2, <2>3
<1>5. JobInv'
  BY <1>1, <1>3 DEF JobInv, Alone
<1>6. ListInv'
  BY <1>1, <1>3, <1>5
  DEF PanelInv, ListInv, Alone, snapshotFor, URLOf, directoryVars
<1>7. FileInv'
  BY <1>2, <1>3, <1>4, <1>5 DEF FileInv, Alone
<1>8. ModeInv'
  BY <1>1, <1>3, <1>4 DEF PanelInv, ModeInv, Alone, Asked
<1> QED BY <1>1, <1>3, <1>4, <1>5, <1>6, <1>7, <1>8 DEF PanelInv

\* A new core has what the file says.
LEMMA RestoreKeeps ==
    ASSUME NEW p, NEW jobs, PanelInv, restoreMode(p, jobs),
           \/ jobs = Dropped
           \/ \E j \in Jobs : job[j].at = "offer" /\ jobs = [Dropped EXCEPT ![j].at = "set"]
    PROVE  PanelInv' /\ UNCHANGED file
<1>1. mode' \in CaptureModes /\ cache' = None /\ job' = jobs /\ UNCHANGED file
  BY UnsetFile DEF restoreMode, Contents, PanelInv, ModeInv
<1>2. /\ JobInv'
      /\ \A k \in Jobs : \/ job'[k].at = "off"
                         \/ /\ job'[k].at \in {"offer", "set"} /\ job[k].at = "offer"
                            /\ job'[k].arg = job[k].arg
  BY <1>1, JobsDropped DEF PanelInv, ListInv
<1>3. ListInv'
  BY <1>1, <1>2, Zenon DEF ListInv
<1>4. FileInv'
  BY <1>1, <1>2 DEF PanelInv, FileInv
<1>5. ModeInv'
  BY <1>1, <1>2 DEF PanelInv, ModeInv, Asked
<1> QED BY <1>1, <1>2, <1>3, <1>4, <1>5 DEF PanelInv

\* What one step of the app's pages does.
LEMMA PanelKeeps ==
    ASSUME PanelInv, PanelStep
    PROVE  /\ PanelInv'
           /\ \/ UNCHANGED file
              \/ \E j \in Jobs :
                   /\ Alone(j) /\ job[j].at = "save" /\ job'[j].at = "off"
                   /\ file' # file => Half(j, file') = Half(j, Contents(job[j].got))
<1>1. ASSUME NEW j \in Jobs, Shifts(j) PROVE PanelInv' /\ UNCHANGED file
  BY <1>1, ShiftKeeps, Zenon DEF Shifts
<1>2. CASE \/ UpdateFromRemote \/ StartAutoRefresh \/ Tcping_Click \/ RealDelay_Click
           \/ SaveDns \/ ModeCombo_SelectionChanged
           \/ \E m \in Modes : Begins("sync", "state", m)
  BY <1>1, <1>2, StartsShift, Zenon
<1>3. CASE \/ TcpingRelays \/ TestRelayDelay
           \/ /\ job["sync"].at = "state"
              /\ To("sync", IF mode # job["sync"].arg THEN "set"
                            ELSE IF mode = "tun" /\ ~elevated THEN "offer" ELSE "off")
              /\ UNCHANGED <<settingsVars, directoryVars>>
           \/ \E j \in Jobs : Load(j) \/ SetTunnelDNS(j) \/ handleMode(j) \/ Declined(j)
  BY <1>1, <1>3, RunsShift
<1>4. CASE SyncPreferredMode
  BY <1>2, <1>3, <1>4, Zenon DEF SyncPreferredMode
<1>5. CASE CoreDies
  BY <1>5, RestoreKeeps, Zenon DEF CoreDies
<1>6. CASE Ageing
  BY <1>6, AgeingKeeps
<1>7. ASSUME NEW j \in Jobs, fetch(j) \/ fetcher(j) \/ loadSettings(j)
      PROVE  PanelInv' /\ UNCHANGED file
  BY <1>7, FetchKeeps, FetcherKeeps, LoadKeeps
<1>8. ASSUME NEW j \in Jobs, RestartElevated(j) PROVE PanelInv' /\ UNCHANGED file
  BY <1>8, RestoreKeeps, Zenon DEF RestartElevated
<1>9. ASSUME NEW j \in Jobs, saveSettings(j)
      PROVE  /\ PanelInv' /\ Alone(j) /\ job[j].at = "save" /\ job'[j].at = "off"
             /\ file' # file => Half(j, file') = Half(j, Contents(job[j].got))
  BY <1>9, SaveKeeps
<1> QED BY <1>2, <1>3, <1>4, <1>5, <1>6, <1>7, <1>8, <1>9, Zenon DEF PanelStep

\* A connect finds no job under way.
LEMMA ConnectKeeps ==
    ASSUME PanelInv, handleConnect
    PROVE  PanelInv'
<1>1. /\ cache' = None /\ file' = Unset /\ UNCHANGED <<mode, settingsMu, flight, job>>
      /\ \A j \in Jobs : job[j].at = "off"
  BY DEF handleConnect, Quiet, Busy
<1>2. JobInv'
  BY <1>1, Zenon DEF PanelInv, ListInv, JobInv
<1>3. ListInv' /\ FileInv' /\ ModeInv'
  BY <1>1, <1>2, Zenon DEF PanelInv, ListInv, FileInv, ModeInv, Unset, Asked, CaptureModes
<1> QED BY <1>2, <1>3 DEF PanelInv

\* The app starts with no job under way.
LEMMA PanelStart ==
    ASSUME PanelInit
    PROVE  PanelInv
<1>1. /\ JobInv /\ \A j \in Jobs : job[j].at = "off"
  BY OffFields DEF PanelInit, JobInv
<1> QED BY <1>1, Zenon DEF PanelInit, PanelInv, ListInv, FileInv, ModeInv, Unset, Asked, CaptureModes

\* Nobody but the pages and a connect touches what they deal with.
LEMMA PanelAside ==
    ASSUME PanelInv, UNCHANGED panelVars
    PROVE  PanelInv'
BY DEF PanelInv, panelVars, settingsVars, directoryVars, ListInv, JobInv,
       snapshotFor, URLOf, FileInv, ModeInv

-----------------------------------------------------------------------------
(* Punches *)

LEMMA DirectedFinite == IsFiniteSet(Directed) /\ Cardinality(Directed) \in Nat
BY PunchAssumption, FS_Subset, FS_CardinalityType DEF Directed

\* A directive goes out, for a slot.
LEMMA PunchRequest ==
    ASSUME PunchInv, handleRequest
    PROVE  PunchInv'
<1> DEFINE p == CHOOSE q \in Fresh : TRUE
           A == Directed
           B == Directed'
<1>1. p \in Punches /\ coord[p].at = "none"
  BY DEF handleRequest, Fresh
<1>2. /\ coord' = [coord EXCEPT ![p] =
                     [at |-> "directive", sym |-> est.sym, peers |-> est.peers]]
      /\ inflight' = inflight + 1
  BY DEF handleRequest, acquire
<1> HIDE DEF p
<1>3. /\ DOMAIN coord' = Punches /\ \A q \in Punches : "at" \in DOMAIN coord'[q]
      /\ B = A \cup {p} /\ p \notin A
  BY <1>1, <1>2 DEF PunchInv, Directed
<1>4. IsFiniteSet(A) /\ inflight = Cardinality(A)
  BY DirectedFinite DEF PunchInv
<1> HIDE DEF A, B
<1>5. Cardinality(B) = Cardinality(A) + 1
  BY <1>3, <1>4, FS_AddElement, Zenon
<1> QED BY <1>2, <1>3, <1>4, <1>5 DEF PunchInv, B

\* It is answered, and its slot is free.
LEMMA PunchAnswer ==
    ASSUME NEW p \in Punches, NEW ok, PunchInv, coord[p].at = "directive", Answered(p, ok)
    PROVE  PunchInv'
<1> DEFINE A == Directed
           B == Directed'
<1>1. coord' = [coord EXCEPT ![p] = NoDirective("done")] /\ inflight' = inflight - 1
  BY DEF Answered, release
<1>2. /\ DOMAIN coord' = Punches /\ \A q \in Punches : "at" \in DOMAIN coord'[q]
      /\ B = A \ {p} /\ p \in A
  BY <1>1 DEF PunchInv, Directed, NoDirective
<1>3. IsFiniteSet(A) /\ inflight = Cardinality(A)
  BY DirectedFinite DEF PunchInv
<1> HIDE DEF A, B
<1>4. Cardinality(B) = Cardinality(A) - 1
  BY <1>2, <1>3, FS_RemoveElement, Zenon
<1> QED BY <1>1, <1>2, <1>3, <1>4 DEF PunchInv, B

LEMMA PunchAside ==
    ASSUME PunchInv, UNCHANGED <<coord, inflight>>
    PROVE  PunchInv'
BY DEF PunchInv, Directed

LEMMA PunchKeeps ==
    ASSUME PunchInv, PunchStep \/ HubBack \/ HubLost \/ RelayStops
    PROVE  PunchInv'
<1>1. CASE FetchConfig \/ Gather \/ DialQUIC \/ EstablishFails \/ HubBack \/ HubLost \/ RelayStops
  BY <1>1, PunchAside
  DEF FetchConfig, Gather, DialQUIC, EstablishFails, HubBack, HubLost, RelayStops
<1>2. ASSUME NEW p \in Punches, RespondToDirective(p) \/ SendPunchDirective(p)
      PROVE  PunchInv'
  BY <1>2, PunchAnswer, Zenon DEF RespondToDirective, SendPunchDirective
<1>3. ASSUME NEW p \in Punches, BridgeEnds(p) PROVE PunchInv'
  BY <1>3, PunchAside DEF BridgeEnds
<1>4. ASSUME NEW p \in Punches, NEW e \in Ends,
             ProbeArrives(p, e) \/ Confirmed(p, e) \/ Deadline(p, e)
      PROVE  PunchInv'
  BY <1>4, PunchAside, Zenon DEF ProbeArrives, Confirmed, Deadline, Leaves
<1> QED BY <1>1, <1>2, <1>3, <1>4, PunchRequest DEF PunchStep
=============================================================================

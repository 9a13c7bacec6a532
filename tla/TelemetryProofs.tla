-------------------------- MODULE TelemetryProofs --------------------------
(* The safety properties of TelemetryProps, for every set of hosts, every cap
   and every sequence of failures. *)
EXTENDS TelemetryStepProofs, FiniteSetTheorems

-----------------------------------------------------------------------------
(* What the selecting operators return *)

\* In a finite set of numbers every rank up to its size is taken, by one number.
LEMMA Ranks ==
  ASSUME NEW S \in SUBSET Nat, IsFiniteSet(S)
  PROVE  LET rank(i) == Cardinality({j \in S : j <= i})
         IN  /\ Cardinality(S) \in Nat
             /\ \A i \in S : rank(i) \in 1..Cardinality(S)
             /\ \A i, k \in S : rank(i) = rank(k) => i = k
             /\ \A n \in 1..Cardinality(S) : \E i \in S : rank(i) = n
  <1>. DEFINE below(i) == {j \in S : j <= i}
              c == Cardinality(S)
              f == [i \in S |-> Cardinality(below(i))]
  <1>1. c \in Nat
    BY FS_CardinalityType
  <1>2. ASSUME NEW i \in S
        PROVE  Cardinality(below(i)) \in 1..c
    <2>1. below(i) \in SUBSET S /\ below(i) # {}
      OBVIOUS
    <2>2. IsFiniteSet(below(i)) /\ Cardinality(below(i)) <= c
      BY <2>1, FS_Subset
    <2>3. Cardinality(below(i)) \in Nat /\ Cardinality(below(i)) # 0
      BY <2>1, <2>2, FS_CardinalityType, FS_EmptySet
    <2>. QED
      BY <1>1, <2>2, <2>3
  <1>3. ASSUME NEW i \in S, NEW k \in S, i < k
        PROVE  Cardinality(below(i)) # Cardinality(below(k))
    <2>0. i \in Nat /\ k \in Nat
      OBVIOUS
    <2>1. k \in below(k) /\ k \notin below(i)
      BY <1>3, <2>0
    <2>3. \A j \in S : j <= i => j <= k
      BY <1>3, <2>0
    <2>4. below(i) \in SUBSET below(k)
      BY Zenon, <2>3
    <2>2. IsFiniteSet(below(k))
      BY FS_Subset
    <2>. HIDE DEF below
    <2>. QED
      BY <2>1, <2>2, <2>4, FS_Subset
  <1>4. \A i, k \in S : Cardinality(below(i)) = Cardinality(below(k)) => i = k
    BY <1>3
  <1>5. f \in Injection(S, 1..c)
    BY <1>2, <1>4, Zenon DEF Injection, IsInjective
  <1>6. IsFiniteSet(1..c) /\ Cardinality(1..c) = c
    BY <1>1, FS_Interval
  <1>7. f \in Surjection(S, 1..c)
    BY <1>5, <1>6, FS_Injection
  <1>8. \A n \in 1..c : \E i \in S : Cardinality(below(i)) = n
    BY <1>7, Zenon DEF Surjection
  <1>. QED
    BY <1>1, <1>2, <1>4, <1>8

\* Sorting a set of numbers keeps exactly its members.
LEMMA AscendingElems ==
  ASSUME NEW S \in SUBSET Nat, IsFiniteSet(S)
  PROVE  /\ Ascending(S) \in Seq(S) /\ Len(Ascending(S)) = Cardinality(S)
         /\ Elems(Ascending(S)) = S
  <1>. DEFINE rank(i) == Cardinality({j \in S : j <= i})
              c == Cardinality(S)
  <1>1. /\ c \in Nat
        /\ \A i \in S : rank(i) \in 1..c
        /\ \A i, k \in S : rank(i) = rank(k) => i = k
        /\ \A n \in 1..c : \E i \in S : rank(i) = n
    BY Ranks
  <1>. HIDE DEF rank, c
  <1>2. Ascending(S) = [n \in 1..c |-> CHOOSE i \in S : rank(i) = n]
    BY DEF Ascending, rank, c
  <1>3. \A n \in 1..c : Ascending(S)[n] \in S /\ rank(Ascending(S)[n]) = n
    BY <1>1, <1>2
  <1>4. Ascending(S) \in [1..c -> S]
    BY <1>2, <1>3
  <1>5. \A i \in S : Ascending(S)[rank(i)] = i
    BY Zenon, <1>1, <1>3
  <1>6. Ascending(S) \in Seq(S) /\ Len(Ascending(S)) = c
    BY <1>1, <1>4, FunctionSeq
  <1>7. {Ascending(S)[n] : n \in 1..c} = S
    <2>1. \A i \in S : i \in {Ascending(S)[n] : n \in 1..c}
      BY <1>1, <1>5
    <2>. QED
      BY <1>3, <2>1, Zenon
  <1>. QED
    BY <1>6, <1>7 DEF c, Elems

\* Selecting indices of a sequence keeps what it has there.
LEMMA SelectedElems ==
  ASSUME NEW X, NEW s \in Seq(X), NEW keep \in SUBSET (1..Len(s))
  PROVE  /\ Selected(s, keep) \in Seq(X)
         /\ Elems(Selected(s, keep)) = {s[i] : i \in keep}
  <1>. DEFINE at == Ascending(keep)
              c == Cardinality(keep)
  <1>1. keep \in SUBSET Nat /\ IsFiniteSet(keep)
    <2>1. Len(s) \in Nat
      OBVIOUS
    <2>2. IsFiniteSet(1..Len(s)) /\ 1..Len(s) \subseteq Nat
      BY <2>1, FS_Interval
    <2>. QED
      BY Zenon, <2>2, FS_Subset
  <1>2. at \in Seq(keep) /\ Len(at) = c /\ Elems(at) = keep /\ c \in Nat
    BY <1>1, AscendingElems, FS_CardinalityType
  <1>. HIDE DEF at, c
  <1>3. Selected(s, keep) = [k \in 1..c |-> s[at[k]]]
    BY DEF Selected, at, c
  <1>4. \A k \in 1..c : at[k] \in keep
    BY <1>2
  <1>5. Selected(s, keep) \in [1..c -> X]
    <2>0. \A i \in keep : s[i] \in X
      OBVIOUS
    <2>1. \A k \in 1..c : s[at[k]] \in X
      BY <1>4, <2>0, Zenon
    <2>. QED
      BY <1>3, <2>1, Zenon
  <1>6. \A i \in keep : \E k \in 1..c : at[k] = i
    BY <1>2 DEF Elems
  <1>7. Selected(s, keep) \in Seq(X) /\ Len(Selected(s, keep)) = c
    BY <1>2, <1>5, FunctionSeq
  <1>8. {Selected(s, keep)[k] : k \in 1..c} = {s[i] : i \in keep}
    <2>1. \A k \in 1..c : Selected(s, keep)[k] = s[at[k]]
      BY <1>3
    <2>2. \A i \in keep : s[i] \in {Selected(s, keep)[k] : k \in 1..c}
      BY <1>6, <2>1
    <2>3. \A k \in 1..c : Selected(s, keep)[k] \in {s[i] : i \in keep}
      BY <1>4, <2>1, Zenon
    <2>. QED
      BY <2>2, <2>3
  <1>. QED
    BY <1>7, <1>8, Zenon DEF Elems

\* removeSent's filter takes out what was sent and nothing else.
LEMMA FilterElems ==
  ASSUME NEW X, NEW s \in Seq(X), NEW sent
  PROVE  Without(s, sent) \in Seq(X) /\ Elems(Without(s, sent)) = Elems(s) \ sent
  <1>. DEFINE keep == {i \in 1..Len(s) : s[i] \notin sent}
  <1>1. keep \in SUBSET (1..Len(s))
    OBVIOUS
  <1>2. {s[i] : i \in keep} = Elems(s) \ sent
    BY DEF Elems
  <1>3. Without(s, sent) = Selected(s, keep)
    BY DEF Without
  <1>. HIDE DEF keep
  <1>. QED
    BY <1>1, <1>2, <1>3, SelectedElems

\* loadLocked's reader keeps the lines that decode.
LEMMA ReaderElems ==
  ASSUME NEW s \in Seq(Event \cup {Torn})
  PROVE  Decoded(s) \in Seq(Event)
  <1>. DEFINE keep == {i \in 1..Len(s) : s[i] # Torn}
  <1>1. keep \in SUBSET (1..Len(s)) /\ \A i \in keep : s[i] \in Event
    OBVIOUS
  <1>2. Decoded(s) = Selected(s, keep)
    BY DEF Decoded
  <1>. HIDE DEF keep
  <1>3. /\ Selected(s, keep) \in Seq(Event \cup {Torn})
        /\ Elems(Selected(s, keep)) = {s[i] : i \in keep}
    BY <1>1, SelectedElems
  <1>4. Selected(s, keep) \in [1..Len(Selected(s, keep)) -> Event]
    <2>. DEFINE w == Selected(s, keep)
    <2>1. \A e \in Elems(w) : e \in Event
      BY <1>1, <1>3, Zenon
    <2>2. \A k \in 1..Len(w) : w[k] \in Elems(w)
      BY DEF Elems
    <2>3. w = [k \in 1..Len(w) |-> w[k]]
      BY <1>3
    <2>. QED
      BY <2>1, <2>2, <2>3, Zenon
  <1>. QED
    BY <1>2, <1>3, <1>4, FunctionSeq

\* The records of a batch are the numbers of its events.
LEMMA BatchRecords ==
  ASSUME NEW batch \in SUBSET Event
  PROVE  /\ Ids(batch) \subseteq Numbers
         /\ InOrder(batch) \in Seq(Numbers) /\ Elems(InOrder(batch)) = Ids(batch)
  <1>1. Ids(batch) \subseteq Numbers
    BY DEF Ids, Event, Numbers
  <1>2. IsFiniteSet(Numbers) /\ Numbers \subseteq Nat
    BY FS_Interval, OutboxAssumption DEF Numbers
  <1>3. Ids(batch) \in SUBSET Nat /\ IsFiniteSet(Ids(batch))
    BY Zenon, <1>1, <1>2, FS_Subset
  <1>4. Ascending(Ids(batch)) \in Seq(Ids(batch)) /\ Elems(Ascending(Ids(batch))) = Ids(batch)
    BY <1>3, AscendingElems
  <1>. QED
    BY <1>1, <1>4 DEF InOrder

\* So what the step lemmas assume of them holds.
LEMMA SelectionHolds == SelectionSound
  <1>1. ASSUME NEW s \in Seq(Event), NEW sent \in SUBSET Event
        PROVE  /\ Without(s, sent) \in Seq(Event)
               /\ Elems(Without(s, sent)) = Elems(s) \ sent
    BY FilterElems
  <1>2. ASSUME NEW s \in Seq(Event \cup {Torn})
        PROVE  Decoded(s) \in Seq(Event)
    BY ReaderElems
  <1>3. ASSUME NEW batch \in SUBSET Event
        PROVE  InOrder(batch) \in Seq(Numbers) /\ Elems(InOrder(batch)) = Ids(batch)
    BY BatchRecords
  <1>. QED
    BY <1>1, <1>2, <1>3, Zenon DEF SelectionSound

-----------------------------------------------------------------------------
(* The theorems *)

\* It holds at the start.
LEMMA InitInv ==
  ASSUME Init
  PROVE  TelemetryInv
  <1>. USE DEF Init
  <1>0. Elems(<<>>) = {} /\ \A X : <<>> \in Seq(X)
    BY DEF Elems
  <1>1. \A h \in Hosts : ~Available(h) /\ box[h] = NewOutbox
    BY DEF OutboxInit, NewOutbox, Available
  <1>2. OutboxTypes
    <2>1. NewOutbox \in Box /\ Trouble \in 0..Trouble /\ 0 \in 0..MaxEvents
      BY <1>0, OutboxAssumption DEF NewOutbox, Box
    <2>. QED
      BY <1>0, <2>1 DEF OutboxTypes, OutboxInit
  <1>3. ManagerTypes /\ MemoryInv /\ OneIdentity
    <2>1. Idle \in Upload /\ Idle.at # "post" /\ 0 \in 0..MaxSessions
      BY OutboxAssumption DEF Idle, Upload
    <2>. QED
      BY <1>0, <2>1
      DEF ManagerInit, ManagerTypes, MemoryInv, OneIdentity, Active, Session
  <1>4. IngestTypes /\ CountInv
    BY <1>0 DEF IngestInit, IngestTypes, CountInv
  <1>5. OwnerInv /\ FileHoldsCache /\ StaleInv
    <2>1. NewOutbox.events = <<>>
      BY DEF NewOutbox
    <2>. QED
      BY <1>1, <2>1, Zenon DEF OwnerInv, FileHoldsCache, StaleInv
  <1>6. Accounted
    BY DEF OutboxInit, Accounted
  <1>. QED
    BY <1>2, <1>3, <1>4, <1>5, <1>6 DEF TelemetryInv, TypeOK

\* The invariant of the queues and the sinks holds whatever the hosts, the file
\* system, the network and the broker do (outbox.go, manager.go, telemetry.go).
THEOREM TelemetryInvariant == Spec => []TelemetryInv
  <1>1. Init => TelemetryInv
    BY InitInv
  <1>2. TelemetryInv /\ [Next]_vars => TelemetryInv'
    BY InvariantStep, SelectionHolds
  <1>. QED
    BY <1>1, <1>2, PTL DEF Spec

\* The file holds what its owner has queued, for any number of hosts that share
\* it (appendLocked, loadLocked, rewriteLocked, removeSent after Close).
THEOREM FileFollowsQueue == Spec => []FileHoldsCache
  <1>1. TelemetryInv => FileHoldsCache
    BY DEF TelemetryInv
  <1>. QED
    BY <1>1, TelemetryInvariant, PTL

\* No event goes missing between its recording and the sink, and Postgres counts
\* none twice (storeEventLocked, migrateFallbackLocked, removeSent, flush,
\* insertMetric).
THEOREM NoEventMissing == Spec => []Accounted
  <1>1. TelemetryInv => Accounted
    BY DEF TelemetryInv
  <1>. QED
    BY <1>1, TelemetryInvariant, PTL

\* Every request speaks for one session, a heartbeat for its own
\* (outboxUploadBatch, SendHeartbeat, snapshotLocked).
THEOREM RequestsSpeakForOne == Spec => []OneIdentity
  <1>1. TelemetryInv => OneIdentity
    BY DEF TelemetryInv
  <1>. QED
    BY <1>1, TelemetryInvariant, PTL
=============================================================================

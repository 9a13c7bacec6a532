------------------------ MODULE TelemetryStepProofs ------------------------
(* Every step of the telemetry path keeps TelemetryInv, given what the
   operators that select from a queue return (SelectionSound, which
   TelemetryProofs proves). *)
EXTENDS TelemetryProps, TLAPS

-----------------------------------------------------------------------------
(* Sequences *)

\* What is selected is there, and nothing else: removeSent's filter, loadLocked's
\* reader, and the records of a batch.
SelectionSound ==
    /\ \A s \in Seq(Event), sent \in SUBSET Event :
         /\ Without(s, sent) \in Seq(Event)
         /\ Elems(Without(s, sent)) = Elems(s) \ sent
    /\ \A s \in Seq(Event \cup {Torn}) : Decoded(s) \in Seq(Event)
    /\ \A batch \in SUBSET Event :
         InOrder(batch) \in Seq(Numbers) /\ Elems(InOrder(batch)) = Ids(batch)

\* removeSent's filter takes out what was sent and nothing else.
LEMMA WithoutElems ==
  ASSUME SelectionSound, NEW s \in Seq(Event), NEW sent \in SUBSET Event
  PROVE  Without(s, sent) \in Seq(Event) /\ Elems(Without(s, sent)) = Elems(s) \ sent
  BY ZenonT(40) DEF SelectionSound

\* loadLocked's reader keeps events.
LEMMA DecodedElems ==
  ASSUME SelectionSound, NEW s \in Seq(Event \cup {Torn})
  PROVE  Decoded(s) \in Seq(Event)
  BY ZenonT(40) DEF SelectionSound

\* A function on 1..n is a sequence of that length.
LEMMA FunctionSeq ==
  ASSUME NEW X, NEW n \in Nat, NEW f \in [1..n -> X]
  PROVE  f \in Seq(X) /\ Len(f) = n
  OBVIOUS

\* What the cap leaves is the end of the queue.
Suffix(t, s) ==
    /\ Len(t) <= Len(s)
    /\ \A i \in 1..Len(t) : t[i] = s[Len(s) - Len(t) + i]

\* The end of a sequence is one of its subsequences.
LEMMA SuffixSubSeq ==
  ASSUME NEW X, NEW s \in Seq(X), NEW t \in Seq(X)
  PROVE  Suffix(t, s) <=> \E k \in 0..Len(s) : SubSeq(s, k + 1, Len(s)) = t
  <1>1. Len(s) \in Nat /\ Len(t) \in Nat
    OBVIOUS
  <1>2. ASSUME NEW k \in 0..Len(s)
        PROVE  /\ SubSeq(s, k + 1, Len(s)) \in Seq(X)
               /\ Len(SubSeq(s, k + 1, Len(s))) = Len(s) - k
               /\ \A i \in 1..(Len(s) - k) : SubSeq(s, k + 1, Len(s))[i] = s[k + i]
    BY <1>1
  <1>3. ASSUME Suffix(t, s)
        PROVE  \E k \in 0..Len(s) : SubSeq(s, k + 1, Len(s)) = t
    <2>. DEFINE k == Len(s) - Len(t)
                u == SubSeq(s, k + 1, Len(s))
    <2>1. k \in 0..Len(s) /\ Len(s) - k = Len(t)
      BY <1>1, <1>3 DEF Suffix
    <2>2. u \in Seq(X) /\ Len(u) = Len(t) /\ \A i \in 1..Len(t) : u[i] = s[k + i]
      BY <1>2, <2>1
    <2>3. \A i \in 1..Len(t) : t[i] = s[k + i]
      BY <1>3 DEF Suffix
    <2>. HIDE DEF k, u
    <2>4. u = t
      BY <2>2, <2>3
    <2>. QED
      BY <2>1, <2>4 DEF u
  <1>4. ASSUME NEW k \in 0..Len(s), SubSeq(s, k + 1, Len(s)) = t
        PROVE  Suffix(t, s)
    <2>1. Len(t) = Len(s) - k /\ \A i \in 1..(Len(s) - k) : t[i] = s[k + i]
      BY <1>2, <1>4
    <2>2. Len(s) - Len(t) = k /\ Len(t) <= Len(s)
      BY <1>1, <2>1
    <2>. QED
      BY <2>1, <2>2 DEF Suffix
  <1>. QED
    BY <1>3, <1>4

\* The end of an end is an end.
LEMMA SuffixTrans ==
  ASSUME NEW X, NEW s \in Seq(X), NEW t \in Seq(X), NEW u \in Seq(X),
         Suffix(t, s), Suffix(u, t)
  PROVE  Suffix(u, s)
  <1>1. Len(s) \in Nat /\ Len(t) \in Nat /\ Len(u) \in Nat
    OBVIOUS
  <1>2. Len(u) <= Len(t) /\ Len(t) <= Len(s)
    BY DEF Suffix
  <1>3. ASSUME NEW i \in 1..Len(u)
        PROVE  u[i] = s[Len(s) - Len(u) + i]
    <2>1. u[i] = t[Len(t) - Len(u) + i] /\ Len(t) - Len(u) + i \in 1..Len(t)
      BY <1>1, <1>2 DEF Suffix
    <2>2. t[Len(t) - Len(u) + i] = s[Len(s) - Len(t) + (Len(t) - Len(u) + i)]
      BY <2>1 DEF Suffix
    <2>. QED
      BY <1>1, <2>1, <2>2
  <1>. QED
    BY <1>1, <1>2, <1>3 DEF Suffix

\* Appending to both keeps an end an end.
LEMMA SuffixAppend ==
  ASSUME NEW X, NEW s \in Seq(X), NEW t \in Seq(X), NEW e \in X, Suffix(t, s)
  PROVE  Suffix(Append(t, e), Append(s, e))
  <1>. DEFINE a == Append(t, e)
              b == Append(s, e)
  <1>1. /\ Len(s) \in Nat /\ Len(t) \in Nat /\ Len(t) <= Len(s)
        /\ Len(a) = Len(t) + 1 /\ Len(b) = Len(s) + 1
        /\ a[Len(t) + 1] = e /\ b[Len(s) + 1] = e
    BY DEF Suffix
  <1>2. /\ \A i \in 1..Len(t) : a[i] = t[i]
        /\ \A i \in 1..Len(s) : b[i] = s[i]
    OBVIOUS
  <1>. HIDE DEF a, b
  <1>3. ASSUME NEW i \in 1..Len(a)
        PROVE  a[i] = b[Len(b) - Len(a) + i]
    <2>1. CASE i = Len(t) + 1
      <3>1. Len(b) - Len(a) + i = Len(s) + 1
        BY <1>1, <2>1
      <3>. QED
        BY <1>1, <2>1, <3>1
    <2>2. CASE i # Len(t) + 1
      <3>1. i \in 1..Len(t) /\ Len(b) - Len(a) + i = Len(s) - Len(t) + i
        BY <1>1, <2>2
      <3>2. Len(s) - Len(t) + i \in 1..Len(s) /\ t[i] = s[Len(s) - Len(t) + i]
        BY <1>1, <3>1 DEF Suffix
      <3>. QED
        BY <1>2, <3>1, <3>2
    <2>. QED
      BY <2>1, <2>2
  <1>4. Suffix(a, b)
    BY <1>1, <1>3 DEF Suffix
  <1>. QED
    BY <1>4 DEF a, b

\* The cap keeps the end, with the event that came last.
LEMMA NewestElems ==
  ASSUME NEW X, NEW s \in Seq(X)
  PROVE  /\ Newest(s) \in Seq(X) /\ Suffix(Newest(s), s)
         /\ s # <<>> => s[Len(s)] \in Elems(Newest(s))
  <1>. USE OutboxAssumption
  <1>0. Len(s) \in Nat /\ (s # <<>> => Len(s) # 0)
    OBVIOUS
  <1>1. CASE Len(s) > Cap
    <2>. DEFINE t == SubSeq(s, Len(s) - Cap + 1, Len(s))
    <2>1. Newest(s) = t
      BY <1>1 DEF Newest
    <2>2. t \in Seq(X) /\ Len(t) = Cap /\ \A i \in 1..Cap : t[i] = s[Len(s) - Cap + i]
      BY <1>1
    <2>. HIDE DEF t
    <2>3. Suffix(t, s)
      BY <1>0, <1>1, <2>2 DEF Suffix
    <2>4. s[Len(s)] \in Elems(t)
      <3>1. Cap \in 1..Len(t) /\ t[Cap] = s[Len(s)]
        BY <1>0, <1>1, <2>2
      <3>. QED
        BY <3>1 DEF Elems
    <2>. QED
      BY <2>1, <2>2, <2>3, <2>4
  <1>2. CASE ~(Len(s) > Cap)
    <2>1. Newest(s) = s
      BY <1>2 DEF Newest
    <2>2. Suffix(s, s)
      BY <1>0 DEF Suffix
    <2>. QED
      BY <1>0, <2>1, <2>2 DEF Elems
  <1>. QED
    BY <1>1, <1>2

\* One more event at the end.
LEMMA AppendElems ==
  ASSUME NEW X, NEW s \in Seq(X), NEW e \in X
  PROVE  /\ Append(s, e) \in Seq(X) /\ Len(Append(s, e)) = Len(s) + 1
         /\ Elems(Append(s, e)) = Elems(s) \cup {e}
  <1>1. /\ Append(s, e) \in Seq(X) /\ Len(Append(s, e)) = Len(s) + 1 /\ Len(s) \in Nat
        /\ \A i \in 1..Len(s) : Append(s, e)[i] = s[i]
        /\ Append(s, e)[Len(s) + 1] = e
    OBVIOUS
  <1>2. 1..(Len(s) + 1) = (1..Len(s)) \cup {Len(s) + 1}
    BY <1>1
  <1>. HIDE DEF Append
  <1>3. {Append(s, e)[i] : i \in (1..Len(s)) \cup {Len(s) + 1}} = {s[i] : i \in 1..Len(s)} \cup {e}
    BY <1>1, ZenonT(40)
  <1>. QED
    BY <1>1, <1>2, <1>3 DEF Elems

\* One sequence behind another.
LEMMA ConcatElems ==
  ASSUME NEW X, NEW s \in Seq(X), NEW t \in Seq(X)
  PROVE  s \o t \in Seq(X) /\ Elems(s \o t) = Elems(s) \cup Elems(t)
  <1>1. /\ s \o t \in Seq(X) /\ Len(s \o t) = Len(s) + Len(t)
        /\ Len(s) \in Nat /\ Len(t) \in Nat
        /\ \A i \in 1..Len(s) : (s \o t)[i] = s[i]
        /\ \A i \in 1..Len(t) : (s \o t)[Len(s) + i] = t[i]
        /\ \A i \in 1..(Len(s) + Len(t)) :
             (s \o t)[i] = IF i <= Len(s) THEN s[i] ELSE t[i - Len(s)]
    OBVIOUS
  <1>2. \A x \in Elems(s) \cup Elems(t) : x \in Elems(s \o t)
    <2>1. \A i \in 1..Len(s) : i \in 1..Len(s \o t)
      BY <1>1
    <2>2. \A i \in 1..Len(t) : Len(s) + i \in 1..Len(s \o t)
      BY <1>1
    <2>3. \A x \in Elems(s) : x \in Elems(s \o t)
      BY <1>1, <2>1 DEF Elems
    <2>4. ASSUME NEW i \in 1..Len(t)
          PROVE  t[i] \in Elems(s \o t)
      <3>. DEFINE j == Len(s) + i
      <3>1. j \in 1..Len(s \o t) /\ (s \o t)[j] = t[i]
        BY <1>1, <2>2
      <3>. HIDE DEF j
      <3>. QED
        BY <3>1 DEF Elems
    <2>5. \A x \in Elems(t) : \E i \in 1..Len(t) : x = t[i]
      BY DEF Elems
    <2>. QED
      BY <2>3, <2>4, <2>5
  <1>3. \A x \in Elems(s \o t) : x \in Elems(s) \cup Elems(t)
    BY <1>1 DEF Elems
  <1>. QED
    BY <1>1, <1>2, <1>3

\* A part of a sequence has nothing new, and two parts miss nothing.
LEMMA SubSeqElems ==
  ASSUME NEW X, NEW s \in Seq(X), NEW k \in 0..Len(s)
  PROVE  /\ SubSeq(s, 1, k) \in Seq(X) /\ Len(SubSeq(s, 1, k)) = k
         /\ SubSeq(s, k + 1, Len(s)) \in Seq(X)
         /\ Elems(s) = Elems(SubSeq(s, 1, k)) \cup Elems(SubSeq(s, k + 1, Len(s)))
  <1>. DEFINE a == SubSeq(s, 1, k)
              b == SubSeq(s, k + 1, Len(s))
  <1>1. Len(s) \in Nat /\ \A i \in 1..Len(s) : s[i] \in X
    OBVIOUS
  <1>2. a \in Seq(X) /\ Len(a) = k /\ \A i \in 1..k : a[i] = s[i]
    BY <1>1
  <1>3. /\ b \in Seq(X) /\ Len(b) = Len(s) - k
        /\ \A i \in 1..(Len(s) - k) : b[i] = s[k + i]
    BY <1>1
  <1>. HIDE DEF a, b
  <1>4. \A x \in Elems(s) : x \in Elems(a) \cup Elems(b)
    <2>. SUFFICES ASSUME NEW i \in 1..Len(s)
                  PROVE  s[i] \in Elems(a) \cup Elems(b)
      BY DEF Elems
    <2>1. CASE i <= k
      BY <1>1, <1>2, <2>1 DEF Elems
    <2>2. CASE i > k
      <3>1. i - k \in 1..(Len(s) - k) /\ b[i - k] = s[i]
        BY <1>1, <1>3, <2>2
      <3>. QED
        BY <1>3, <3>1 DEF Elems
    <2>. QED
      BY <1>1, <2>1, <2>2
  <1>5. \A x \in Elems(a) \cup Elems(b) : x \in Elems(s)
    BY <1>1, <1>2, <1>3 DEF Elems
  <1>. QED
    BY <1>2, <1>3, <1>4, <1>5 DEF a, b

\* The first event and the others.
LEMMA TailElems ==
  ASSUME NEW X, NEW s \in Seq(X), s # <<>>
  PROVE  /\ Head(s) \in X /\ Tail(s) \in Seq(X)
         /\ Elems(s) = {Head(s)} \cup Elems(Tail(s))
  <1>1. /\ Len(s) \in Nat \ {0} /\ Head(s) = s[1] /\ s[1] \in X
        /\ Tail(s) \in Seq(X) /\ Len(Tail(s)) = Len(s) - 1
        /\ \A i \in 1..(Len(s) - 1) : Tail(s)[i] = s[i + 1]
    OBVIOUS
  <1>2. \A x \in Elems(s) : x = Head(s) \/ x \in Elems(Tail(s))
    <2>. SUFFICES ASSUME NEW i \in 1..Len(s), i # 1
                  PROVE  s[i] \in Elems(Tail(s))
      BY <1>1 DEF Elems
    <2>1. i - 1 \in 1..(Len(s) - 1) /\ Tail(s)[i - 1] = s[i]
      BY <1>1
    <2>. QED
      BY <1>1, <2>1 DEF Elems
  <1>3. \A x \in Elems(Tail(s)) : x \in Elems(s)
    BY <1>1 DEF Elems
  <1>4. Head(s) \in Elems(s)
    BY <1>1 DEF Elems
  <1>. QED
    BY <1>1, <1>2, <1>3, <1>4

-----------------------------------------------------------------------------
(* The file *)

FileType == [lines : Seq(Event \cup {Torn}), tail : {"clean", "torn"}]

\* What FileHoldsCache asks of a file and an outbox.
Mirror(f, b) ==
    f.tail = "clean" /\ Len(f.lines) = b.lines /\ Suffix(b.events, f.lines)

\* A torn line is no event.
LEMMA TornNoEvent == Torn \notin Event
  BY DEF Torn, Event

\* The two ways of saying it agree.
LEMMA MirrorHolds ==
  ASSUME NEW f \in FileType, NEW b \in Box
  PROVE  Mirror(f, b) <=>
           /\ f.tail = "clean" /\ Len(f.lines) = b.lines
           /\ \E k \in 0..Len(f.lines) :
                SubSeq(f.lines, k + 1, Len(f.lines)) = b.events
  <1>1. f.lines \in Seq(Event \cup {Torn}) /\ b.events \in Seq(Event)
    BY DEF FileType, Box
  <1>2. b.events \in Seq(Event \cup {Torn})
    BY <1>1
  <1>3. Suffix(b.events, f.lines)
          <=> \E k \in 0..Len(f.lines) : SubSeq(f.lines, k + 1, Len(f.lines)) = b.events
    BY <1>1, <1>2, SuffixSubSeq, ZenonT(40)
  <1>. QED
    BY <1>3, ZenonT(40) DEF Mirror

\* A rewritten file has exactly the queue it was written from.
LEMMA RewrittenFile ==
  ASSUME NEW events \in Seq(Event)
  PROVE  /\ Rewritten(events) \in FileType
         /\ OnDisk(Rewritten(events)) \subseteq Elems(events)
         /\ \A b : b.events = events /\ b.lines = Len(events)
                     => Mirror(Rewritten(events), b)
  <1>1. events \in Seq(Event \cup {Torn})
    OBVIOUS
  <1>2. Suffix(events, events)
    BY DEF Suffix
  <1>. QED
    BY <1>1, <1>2 DEF Rewritten, FileType, OnDisk, Mirror

\* An append adds its line and no other, whatever the tail was.
LEMMA AppendedFile ==
  ASSUME NEW f \in FileType, NEW e \in Event \cup {Torn}
  PROVE  /\ Appended(f, e) \in FileType
         /\ OnDisk(Appended(f, e)) \subseteq OnDisk(f) \cup {e}
         /\ Torn \notin OnDisk(Appended(f, e))
         /\ f.tail = "clean" => Appended(f, e) = [lines |-> Append(f.lines, e), tail |-> "clean"]
  <1>. DEFINE s == f.lines
              X == Event \cup {Torn}
              t == [s EXCEPT ![Len(s)] = Torn]
  <1>1. s \in Seq(X) /\ f.tail \in {"clean", "torn"} /\ Len(s) \in Nat
    BY DEF FileType
  <1>2. CASE f.tail = "clean"
    <2>1. Appended(f, e) = [lines |-> Append(s, e), tail |-> "clean"]
      BY <1>2 DEF Appended
    <2>2. Append(s, e) \in Seq(X) /\ Elems(Append(s, e)) = Elems(s) \cup {e}
      BY <1>1, AppendElems
    <2>. QED
      BY <2>1, <2>2 DEF FileType, OnDisk
  <1>3. CASE f.tail # "clean"
    <2>1. Appended(f, e) = [lines |-> t, tail |-> "clean"]
      BY <1>3 DEF Appended
    <2>2. t \in [1..Len(s) -> X] /\ \A i \in 1..Len(s) : t[i] = s[i] \/ t[i] = Torn
      <3>1. s \in [1..Len(s) -> X] /\ Torn \in X
        BY <1>1
      <3>. HIDE DEF s, X
      <3>. QED
        BY ZenonT(40), <3>1
    <2>3. t \in Seq(X) /\ Len(t) = Len(s)
      BY <1>1, <2>2, FunctionSeq
    <2>. HIDE DEF t
    <2>4. Elems(t) \subseteq Elems(s) \cup {Torn}
      BY <2>2, <2>3 DEF Elems
    <2>. QED
      BY <1>3, <2>1, <2>3, <2>4 DEF FileType, OnDisk
  <1>. QED
    BY <1>2, <1>3

\* Nor does one that stops part-way.
LEMMA PartlyFile ==
  ASSUME NEW f \in FileType, NEW e \in Event, NEW g \in PartlyAppended(f, e)
  PROVE  g \in FileType /\ OnDisk(g) \subseteq OnDisk(f) \cup {e}
  <1>1. Torn \in Event \cup {Torn} /\ e \in Event \cup {Torn}
    OBVIOUS
  <1>2. /\ Appended(f, e) \in FileType /\ OnDisk(Appended(f, e)) \subseteq OnDisk(f) \cup {e}
        /\ Appended(f, Torn) \in FileType
        /\ OnDisk(Appended(f, Torn)) \subseteq OnDisk(f) \cup {e}
    BY <1>1, AppendedFile
  <1>3. \A x \in FileType : /\ [x EXCEPT !.tail = "torn"] \in FileType
                            /\ OnDisk([x EXCEPT !.tail = "torn"]) = OnDisk(x)
    BY DEF FileType, OnDisk
  <1>4. \/ g = f
        \/ g = [Appended(f, e) EXCEPT !.tail = "torn"]
        \/ g = [Appended(f, Torn) EXCEPT !.tail = "torn"]
    BY DEF PartlyAppended
  <1>. QED
    BY <1>2, <1>3, <1>4, ZenonT(40)

-----------------------------------------------------------------------------
(* Operations of the outbox *)

\* What a write by h does to the file, the outboxes and their debts.
Wrote(h) ==
    /\ file' \in FileType /\ box' \in [Hosts -> Box] /\ lag' \in [Hosts -> {"yes", "no"}]
    /\ \A g \in Hosts : g # h => box'[g] = box[g] /\ lag'[g] = lag[g]
    /\ box'[h].closed = box[h].closed /\ box'[h].loaded = box[h].loaded
    /\ lag'[h] = "no" => Mirror(file', box'[h])
    /\ OnDisk(file') \subseteq OnDisk(file) \cup Elems(box'[h].events)

\* An outbox with another queue is one, open or closed as before.
Requeue(h, events, lines) == [box EXCEPT ![h].events = events, ![h].lines = lines]
LEMMA RequeuedBox ==
  ASSUME OutboxTypes, NEW h \in Hosts, NEW events \in Seq(Event), NEW lines \in Nat,
         box' = Requeue(h, events, lines)
  PROVE  /\ box' \in [Hosts -> Box]
         /\ \A g \in Hosts : g # h => box'[g] = box[g]
         /\ box'[h].closed = box[h].closed /\ box'[h].loaded = box[h].loaded
         /\ box'[h].events = events /\ box'[h].lines = lines
  <1>. DEFINE b == [box[h] EXCEPT !.events = events, !.lines = lines]
  <1>1. box[h] \in Box /\ box \in [Hosts -> Box]
    BY DEF OutboxTypes
  <1>2. /\ b \in Box /\ b.closed = box[h].closed /\ b.loaded = box[h].loaded
        /\ b.events = events /\ b.lines = lines
    BY <1>1, ZenonT(40) DEF Box
  <1>3. box' = [box EXCEPT ![h] = b]
    BY <1>1, ZenonT(40) DEF Requeue
  <1>. HIDE DEF b
  <1>. QED
    BY <1>1, <1>2, <1>3, ZenonT(40)

\* rewriteLocked, whether it succeeds or leaves the file f.
LEMMA RewriteStep ==
  ASSUME OutboxTypes, NEW h \in Hosts, NEW events \in Seq(Event),
         NEW f \in FileType, NEW lines \in Nat,
         OnDisk(f) \subseteq OnDisk(file) \cup Elems(events),
         rewriteLocked(h, events, f, lines)
  PROVE  Wrote(h) /\ box'[h].events = events /\ luck' \in 0..Trouble
  <1>1. Len(events) \in Nat
    OBVIOUS
  <1>2. CASE /\ Smooth /\ file' = Rewritten(events)
             /\ box' = [box EXCEPT ![h].events = events, ![h].lines = Len(events)]
             /\ lag' = [lag EXCEPT ![h] = "no"]
    <2>1. /\ box' \in [Hosts -> Box]
          /\ \A g \in Hosts : g # h => box'[g] = box[g]
          /\ box'[h].closed = box[h].closed /\ box'[h].loaded = box[h].loaded
          /\ box'[h].events = events /\ box'[h].lines = Len(events)
      <3>1. box' = Requeue(h, events, Len(events))
        BY <1>2 DEF Requeue
      <3>. QED
        BY <1>1, <3>1, RequeuedBox
    <2>2. /\ file' \in FileType /\ OnDisk(file') \subseteq Elems(events)
          /\ Mirror(file', box'[h])
      BY <1>2, <2>1, RewrittenFile, ZenonT(40)
    <2>3. lag' \in [Hosts -> {"yes", "no"}] /\ \A g \in Hosts : g # h => lag'[g] = lag[g]
      BY <1>2 DEF OutboxTypes
    <2>4. luck' \in 0..Trouble
      BY <1>2 DEF OutboxTypes, Smooth
    <2>. QED
      BY <2>1, <2>2, <2>3, <2>4 DEF Wrote
  <1>3. CASE /\ GoesWrong /\ file' = f
             /\ box' = [box EXCEPT ![h].events = events, ![h].lines = lines]
             /\ lag' = [lag EXCEPT ![h] = "yes"]
    <2>1. /\ box' \in [Hosts -> Box]
          /\ \A g \in Hosts : g # h => box'[g] = box[g]
          /\ box'[h].closed = box[h].closed /\ box'[h].loaded = box[h].loaded
          /\ box'[h].events = events
      <3>1. box' = Requeue(h, events, lines)
        BY <1>3 DEF Requeue
      <3>. QED
        BY <3>1, RequeuedBox
    <2>2. /\ lag' \in [Hosts -> {"yes", "no"}] /\ lag'[h] = "yes"
          /\ \A g \in Hosts : g # h => lag'[g] = lag[g]
      BY <1>3 DEF OutboxTypes
    <2>3. luck' \in 0..Trouble
      BY <1>3, OutboxAssumption DEF OutboxTypes, GoesWrong
    <2>. QED
      BY <1>3, <2>1, <2>2, <2>3 DEF Wrote
  <1>. QED
    BY <1>2, <1>3 DEF rewriteLocked

\* appendLocked: the event is queued, and what the cap takes is given up.
LEMMA AppendStep ==
  ASSUME OutboxTypes, NEW h \in Hosts, NEW e \in Event,
         lag[h] = "no" => Mirror(file, box[h]), appendLocked(h, e)
  PROVE  /\ Wrote(h) /\ luck' \in 0..Trouble
         /\ gone \subseteq gone' /\ gone' \subseteq Numbers
         /\ \A d \in Elems(box[h].events) \cup {e} :
              d \in Elems(box'[h].events) \/ d.n \in gone'
  <1>. DEFINE q == box[h].events
              all == Append(q, e)
              events == Newest(all)
              lines == box[h].lines + 1
  <1>1. q \in Seq(Event) /\ box[h].lines \in Nat /\ file \in FileType /\ lines \in Nat
    BY DEF OutboxTypes, Box, FileType
  <1>2. /\ all \in Seq(Event) /\ Elems(all) = Elems(q) \cup {e} /\ all # <<>>
        /\ all[Len(all)] = e /\ Len(all) \in Nat
    BY <1>1, AppendElems
  <1>3. events \in Seq(Event) /\ Suffix(events, all) /\ e \in Elems(events)
    BY ZenonT(40), <1>2, NewestElems
  <1>4. /\ Appended(file, e) \in FileType
        /\ OnDisk(Appended(file, e)) \subseteq OnDisk(file) \cup {e}
        /\ file.tail = "clean"
             => Appended(file, e) = [lines |-> Append(file.lines, e), tail |-> "clean"]
    BY <1>1, AppendedFile
  <1>5. /\ gone' = gone \cup {d.n : d \in Elems(all) \ Elems(events)}
        /\ \/ /\ lines > Compact
              /\ rewriteLocked(h, events, Appended(file, e), lines)
           \/ /\ lines <= Compact /\ Smooth
              /\ file' = Appended(file, e)
              /\ box' = [box EXCEPT ![h].events = events, ![h].lines = lines]
              /\ UNCHANGED lag
           \/ /\ GoesWrong /\ file' = Rewritten(events)
              /\ box' = [box EXCEPT ![h].events = events, ![h].lines = Len(events)]
              /\ lag' = [lag EXCEPT ![h] = "no"]
           \/ /\ GoesWrong /\ file' \in PartlyAppended(file, e)
              /\ box' = [box EXCEPT ![h].events = events, ![h].lines = lines]
              /\ lag' = [lag EXCEPT ![h] = "yes"]
    BY DEF appendLocked
  <1>6. lag[h] = "no" => \A b : b.events = events /\ b.lines = lines
                                  => Mirror(Appended(file, e), b)
    <2>. SUFFICES ASSUME lag[h] = "no", NEW b, b.events = events, b.lines = lines
                  PROVE  Mirror(Appended(file, e), b)
      OBVIOUS
    <2>1. Mirror(file, box[h]) /\ file.tail = "clean"
      BY DEF Mirror
    <2>. DEFINE X == Event \cup {Torn}
    <2>2. /\ file.lines \in Seq(X) /\ q \in Seq(X) /\ all \in Seq(X) /\ events \in Seq(X)
          /\ e \in X
      BY <1>1, <1>2, <1>3 DEF FileType
    <2>3. Suffix(all, Append(file.lines, e))
      BY <2>1, <2>2, SuffixAppend DEF Mirror
    <2>4. /\ Append(file.lines, e) \in Seq(X)
          /\ Len(Append(file.lines, e)) = Len(file.lines) + 1
      BY <2>2, AppendElems
    <2>. HIDE DEF X, all, events
    <2>5. Suffix(events, Append(file.lines, e))
      BY ZenonT(40), <1>3, <2>2, <2>3, <2>4, SuffixTrans
    <2>6. Len(Append(file.lines, e)) = lines
      BY <2>1, <2>4 DEF Mirror
    <2>7. /\ Appended(file, e).tail = "clean"
          /\ Appended(file, e).lines = Append(file.lines, e)
      BY <1>4, <2>1
    <2>. QED
      BY <2>5, <2>6, <2>7, ZenonT(40) DEF Mirror
  <1>7. \A d \in Event : d.n \in Numbers
    BY DEF Event, Numbers
  <1>8. \A x \in Elems(all) : x \in Event
    BY <1>2 DEF Elems
  <1>. HIDE DEF q, all, events, lines
  <1>9. gone \subseteq gone' /\ gone' \subseteq Numbers
    BY <1>5, <1>7, <1>8 DEF OutboxTypes
  <1>10. \A d \in Elems(q) \cup {e} : d \in Elems(events) \/ d.n \in gone'
    BY <1>2, <1>5
  <1>11. Wrote(h) /\ box'[h].events = events /\ luck' \in 0..Trouble
    <2>1. CASE rewriteLocked(h, events, Appended(file, e), lines)
      BY <1>1, <1>3, <1>4, <2>1, RewriteStep
    <2>2. CASE /\ Smooth /\ file' = Appended(file, e)
               /\ box' = [box EXCEPT ![h].events = events, ![h].lines = lines]
               /\ UNCHANGED lag
      <3>1. /\ box' \in [Hosts -> Box]
            /\ \A g \in Hosts : g # h => box'[g] = box[g]
            /\ box'[h].closed = box[h].closed /\ box'[h].loaded = box[h].loaded
            /\ box'[h].events = events /\ box'[h].lines = lines
        <4>1. box' = Requeue(h, events, lines)
          BY <2>2 DEF Requeue
        <4>. QED
          BY <1>1, <1>3, <4>1, RequeuedBox
      <3>2. lag'[h] = "no" => Mirror(file', box'[h])
        BY ZenonT(40), <1>6, <2>2, <3>1
      <3>3. luck' \in 0..Trouble /\ lag' \in [Hosts -> {"yes", "no"}]
        BY <2>2 DEF OutboxTypes, Smooth
      <3>. QED
        BY <1>3, <1>4, <2>2, <3>1, <3>2, <3>3 DEF Wrote
    <2>3. CASE /\ GoesWrong /\ file' = Rewritten(events)
               /\ box' = [box EXCEPT ![h].events = events, ![h].lines = Len(events)]
               /\ lag' = [lag EXCEPT ![h] = "no"]
      <3>1. /\ box' \in [Hosts -> Box]
            /\ \A g \in Hosts : g # h => box'[g] = box[g]
            /\ box'[h].closed = box[h].closed /\ box'[h].loaded = box[h].loaded
            /\ box'[h].events = events /\ box'[h].lines = Len(events)
        <4>1. box' = Requeue(h, events, Len(events)) /\ Len(events) \in Nat
          BY <1>3, <2>3 DEF Requeue
        <4>. QED
          BY <1>3, <4>1, RequeuedBox
      <3>2. /\ file' \in FileType /\ OnDisk(file') \subseteq Elems(events)
            /\ Mirror(file', box'[h])
        BY <1>3, <2>3, <3>1, RewrittenFile, ZenonT(40)
      <3>3. /\ lag' \in [Hosts -> {"yes", "no"}]
            /\ \A g \in Hosts : g # h => lag'[g] = lag[g]
        BY <2>3 DEF OutboxTypes
      <3>4. luck' \in 0..Trouble
        BY <2>3, OutboxAssumption DEF OutboxTypes, GoesWrong
      <3>. QED
        BY <3>1, <3>2, <3>3, <3>4 DEF Wrote
    <2>4. CASE /\ GoesWrong /\ file' \in PartlyAppended(file, e)
               /\ box' = [box EXCEPT ![h].events = events, ![h].lines = lines]
               /\ lag' = [lag EXCEPT ![h] = "yes"]
      <3>1. /\ box' \in [Hosts -> Box]
            /\ \A g \in Hosts : g # h => box'[g] = box[g]
            /\ box'[h].closed = box[h].closed /\ box'[h].loaded = box[h].loaded
            /\ box'[h].events = events
        <4>1. box' = Requeue(h, events, lines)
          BY <2>4 DEF Requeue
        <4>. QED
          BY <1>1, <1>3, <4>1, RequeuedBox
      <3>2. file' \in FileType /\ OnDisk(file') \subseteq OnDisk(file) \cup {e}
        BY <1>1, <2>4, PartlyFile
      <3>3. /\ lag' \in [Hosts -> {"yes", "no"}] /\ lag'[h] = "yes"
            /\ \A g \in Hosts : g # h => lag'[g] = lag[g]
        BY <2>4 DEF OutboxTypes
      <3>4. luck' \in 0..Trouble
        BY <2>4, OutboxAssumption DEF OutboxTypes, GoesWrong
      <3>. QED
        BY <1>3, <3>1, <3>2, <3>3, <3>4 DEF Wrote
    <2>. QED
      BY <1>5, <2>1, <2>2, <2>3, <2>4
  <1>. QED
    BY <1>9, <1>10, <1>11 DEF q

\* removeSent: what was sent leaves the queue of an open outbox.
LEMMA RemoveStep ==
  ASSUME SelectionSound, OutboxTypes, NEW h \in Hosts, NEW sent \in SUBSET Event, removeSent(h, sent)
  PROVE  /\ luck' \in 0..Trouble
         /\ \/ UNCHANGED <<box, file, lag>>
            \/ /\ box[h].closed = "no" /\ box[h].events # <<>> /\ Wrote(h)
               /\ Elems(box'[h].events) = Elems(box[h].events) \ sent
  <1>. DEFINE q == box[h].events
  <1>1. q \in Seq(Event) /\ box[h].lines \in Nat /\ file \in FileType
    BY DEF OutboxTypes, Box, FileType
  <1>2. CASE box[h].closed = "no" /\ Elems(q) \cap sent # {}
    <2>1. rewriteLocked(h, Without(q, sent), file, box[h].lines)
      BY <1>2 DEF removeSent
    <2>2. Without(q, sent) \in Seq(Event) /\ Elems(Without(q, sent)) = Elems(q) \ sent
      BY <1>1, WithoutElems
    <2>3. Wrote(h) /\ box'[h].events = Without(q, sent) /\ luck' \in 0..Trouble
      BY <1>1, <2>1, <2>2, RewriteStep
    <2>4. q # <<>>
      BY <1>2 DEF Elems
    <2>. QED
      BY <1>2, <2>2, <2>3, <2>4
  <1>3. CASE ~(box[h].closed = "no" /\ Elems(q) \cap sent # {})
    BY <1>3 DEF removeSent, OutboxTypes
  <1>. QED
    BY <1>2, <1>3

-----------------------------------------------------------------------------
(* The broker *)

SinkTypes ==
    /\ broken \in {"no", "yes", "down"}
    /\ pending \in Seq(Numbers) /\ taking \in Seq(Numbers) /\ log \in Seq(Numbers)
    /\ flushed \in 0..Len(log)
    /\ stored \subseteq Numbers /\ shed \subseteq Numbers

\* What a sequence holds is of its type.
LEMMA ElemsType ==
  ASSUME NEW X, NEW s \in Seq(X)
  PROVE  Elems(s) \subseteq X
  BY DEF Elems

\* A limit keeps records that were there.
LEMMA FittingType ==
  ASSUME NEW all \in Seq(Numbers), NEW limit \in Nat
  PROVE  Fitting(all, limit) \in Seq(Numbers)
  <1>. DEFINE k == limit \div RecordSize
  <1>1. k \in Nat
    BY IngestAssumption
  <1>. HIDE DEF k
  <1>2. Len(all) > k => SubSeq(all, Len(all) - k + 1, Len(all)) \in Seq(Numbers)
    BY <1>1
  <1>. QED
    BY <1>2 DEF Fitting, k

\* The records of a batch are the numbers of its events.
LEMMA InOrderElems ==
  ASSUME SelectionSound, NEW batch \in SUBSET Event
  PROVE  /\ Ids(batch) \subseteq Numbers
         /\ InOrder(batch) \in Seq(Numbers) /\ Elems(InOrder(batch)) = Ids(batch)
  <1>1. Ids(batch) \subseteq Numbers
    BY DEF Ids, Event, Numbers
  <1>2. InOrder(batch) \in Seq(Numbers) /\ Elems(InOrder(batch)) = Ids(batch)
    BY ZenonT(40) DEF SelectionSound
  <1>. QED
    BY <1>1, <1>2

\* The sink keeps a record, or sheds it.
LEMMA WriteStep ==
  ASSUME SinkTypes, NEW records \in Seq(Numbers), NEW ids \in SUBSET Numbers,
         WriteTelemetry(records, ids), UNCHANGED wiped
  PROVE  SinkTypes' /\ Received \cup Elems(records) \cup ids \subseteq Received'
  <1>1. CASE Buffered(records, ids)
    <2>1. /\ pending \o records \in Seq(Numbers)
          /\ Elems(pending \o records) = Elems(pending) \cup Elems(records)
      BY ConcatElems DEF SinkTypes
    <2>. QED
      BY <1>1, <2>1 DEF Buffered, SinkTypes, Received
  <1>2. CASE Logged(records, ids)
    <2>. DEFINE all == log \o records
    <2>1. all \in Seq(Numbers) /\ Elems(all) = Elems(log) \cup Elems(records)
      BY ConcatElems DEF SinkTypes
    <2>2. Elems(all) \subseteq Numbers /\ Len(log) <= Len(all)
      BY <2>1, ElemsType DEF SinkTypes
    <2>3. dropOldestOverBudget(all) \in Seq(Numbers)
      BY <2>1, FittingType, IngestAssumption, ZenonT(40) DEF dropOldestOverBudget
    <2>4. /\ \/ log' = compactLocked(all) /\ flushed' = Len(log')
             \/ log' = all /\ flushed' = flushed
          /\ shed' = shed \cup ids \cup (Elems(all) \ Elems(log'))
          /\ UNCHANGED <<pending, taking, stored, broken>>
      BY <1>2 DEF Logged, Shed
    <2>. HIDE DEF all
    <2>5. log' \in Seq(Numbers) /\ flushed' \in 0..Len(log')
      BY <2>1, <2>2, <2>3, <2>4 DEF SinkTypes, compactLocked
    <2>6. SinkTypes'
      BY <2>2, <2>4, <2>5 DEF SinkTypes
    <2>. QED
      BY <2>1, <2>4, <2>6 DEF Received
  <1>. QED
    BY <1>1, <1>2 DEF WriteTelemetry

\* A write that fails leaves some of its records in the log.
LEMMA LogFailsStep ==
  ASSUME SinkTypes, NEW records \in Seq(Numbers), LogFails(records), UNCHANGED wiped
  PROVE  SinkTypes' /\ Received \subseteq Received'
  <1>1. PICK k \in 0..Len(records) : log' = log \o SubSeq(records, 1, k)
    BY DEF LogFails
  <1>2. SubSeq(records, 1, k) \in Seq(Numbers)
    BY SubSeqElems
  <1>3. log' \in Seq(Numbers) /\ Elems(log) \subseteq Elems(log') /\ Len(log) <= Len(log')
    <2>. DEFINE some == SubSeq(records, 1, k)
    <2>1. log \in Seq(Numbers) /\ some \in Seq(Numbers) /\ log' = log \o some
      BY <1>1, <1>2 DEF SinkTypes
    <2>. HIDE DEF some
    <2>2. log' \in Seq(Numbers) /\ Elems(log') = Elems(log) \cup Elems(some)
      BY <2>1, ConcatElems
    <2>3. Len(log') = Len(log) + Len(some) /\ Len(log) \in Nat /\ Len(some) \in Nat
      BY <2>1
    <2>. QED
      BY <2>2, <2>3
  <1>. QED
    BY <1>3 DEF LogFails, SinkTypes, Received

\* An accepted batch has been received.
LEMMA AcceptedStep ==
  ASSUME SelectionSound, IngestTypes, CountInv, NEW batch \in SUBSET Event, Accepted(batch),
         UNCHANGED <<backend, wiped>>
  PROVE  /\ SinkTypes' /\ Received \cup Ids(batch) \subseteq Received'
         /\ counted' \in [Numbers -> Nat] /\ CountInv'
  <1>. DEFINE kept == gateUnknownRelayTelemetry(batch)
  <1>0. SinkTypes
    BY DEF IngestTypes, SinkTypes
  <1>1. kept \in SUBSET Event /\ batch \ kept \in SUBSET Event
    BY DEF gateUnknownRelayTelemetry
  <1>2. /\ HeldBack(batch) \in SUBSET Numbers
        /\ Ids(batch) = Ids(kept) \cup HeldBack(batch)
    BY <1>1, InOrderElems, ZenonT(40) DEF HeldBack, Ids, gateUnknownRelayTelemetry
  <1>3. CASE kept = {}
    <2>1. /\ shed' = shed \cup HeldBack(batch)
          /\ UNCHANGED <<pending, taking, stored, log, flushed, broken, counted>>
      BY <1>3 DEF Accepted
    <2>2. Ids(kept) = {}
      BY <1>3 DEF Ids
    <2>. QED
      BY <1>0, <1>2, <2>1, <2>2 DEF SinkTypes, Received, IngestTypes, CountInv
  <1>4. CASE kept # {}
    <2>1. WriteTelemetry(InOrder(kept), HeldBack(batch)) /\ RecordRelayTelemetry(kept)
      BY <1>4 DEF Accepted
    <2>2. InOrder(kept) \in Seq(Numbers) /\ Elems(InOrder(kept)) = Ids(kept)
      BY <1>1, InOrderElems
    <2>3. SinkTypes' /\ Received \cup Ids(kept) \cup HeldBack(batch) \subseteq Received'
      BY <1>0, <1>2, <2>1, <2>2, WriteStep
    <2>4. counted' \in [Numbers -> Nat] /\ CountInv'
      BY <2>1 DEF RecordRelayTelemetry, IngestTypes, CountInv, Postgres, insertMetric,
                  recordRelayTelemetryLocked
    <2>. QED
      BY <1>2, <2>3, <2>4
  <1>. QED
    BY <1>3, <1>4

\* What the handler answers, it has done.
LEMMA HandlerStep ==
  ASSUME SelectionSound, IngestTypes, CountInv, NEW batch \in SUBSET Event, NEW answer,
         telemetryHandler(batch, answer), UNCHANGED <<backend, wiped>>,
         luck \in 0..Trouble
  PROVE  /\ SinkTypes' /\ Received \subseteq Received'
         /\ answer = "ok" => Ids(batch) \subseteq Received'
         /\ answer = "failed" => luck' \in 0..Trouble
         /\ counted' \in [Numbers -> Nat] /\ CountInv'
  <1>. DEFINE kept == gateUnknownRelayTelemetry(batch)
  <1>7. answer = "failed" => luck' \in 0..Trouble
    BY OutboxAssumption DEF telemetryHandler, Smooth, GoesWrong
  <1>. SUFFICES /\ SinkTypes' /\ Received \subseteq Received'
                /\ answer = "ok" => Ids(batch) \subseteq Received'
                /\ counted' \in [Numbers -> Nat] /\ CountInv'
    BY <1>7
  <1>0. SinkTypes
    BY DEF IngestTypes, SinkTypes
  <1>1. kept \in SUBSET Event
    BY DEF gateUnknownRelayTelemetry
  <1>2. InOrder(kept) \in Seq(Numbers)
    BY <1>1, InOrderElems
  <1>. HIDE DEF kept
  <1>3. CASE answer # "ok" /\ UNCHANGED <<sinkVars, counted>>
    BY <1>0, <1>3 DEF sinkVars, SinkTypes, Received, IngestTypes, CountInv
  <1>4. CASE answer # "ok" /\ WriteTelemetry(InOrder(kept), {}) /\ UNCHANGED counted
    <2>1. SinkTypes' /\ Received \subseteq Received'
      BY <1>0, <1>2, <1>4, WriteStep
    <2>. QED
      BY <1>4, <2>1 DEF IngestTypes, CountInv
  <1>5. CASE answer # "ok" /\ LogFails(InOrder(kept)) /\ UNCHANGED counted
    <2>1. SinkTypes' /\ Received \subseteq Received'
      BY <1>0, <1>2, <1>5, LogFailsStep
    <2>. QED
      BY <1>5, <2>1 DEF IngestTypes, CountInv
  <1>6. CASE Accepted(batch)
    BY <1>6, AcceptedStep
  <1>. QED
    BY <1>3, <1>4, <1>5, <1>6 DEF telemetryHandler, kept

\* The sinks on their own: buffers move to where they are kept.
LEMMA SinkStep ==
  ASSUME SinkTypes, Sink \/ insertBatchFails, UNCHANGED wiped
  PROVE  SinkTypes' /\ Received \subseteq Received'
  <1>0. <<>> \in Seq(Numbers) /\ Elems(<<>>) = {}
    BY DEF Elems
  <1>1. Elems(pending) \subseteq Numbers /\ Elems(taking) \subseteq Numbers
    BY ElemsType DEF SinkTypes
  <1>2. CASE flush
    BY <1>0, <1>1, <1>2 DEF flush, SinkTypes, Received
  <1>3. CASE insertBatchFails
    BY <1>0, <1>1, <1>3 DEF insertBatchFails, SinkTypes, Received
  <1>4. CASE PutBack
    <2>. DEFINE all == taking \o pending
    <2>1. all \in Seq(Numbers) /\ Elems(all) = Elems(taking) \cup Elems(pending)
      BY ConcatElems DEF SinkTypes
    <2>2. dropOldestPendingOverCapLocked(all) \in Seq(Numbers)
      BY <2>1, FittingType, IngestAssumption, ZenonT(40) DEF dropOldestPendingOverCapLocked
    <2>3. /\ pending' = dropOldestPendingOverCapLocked(all)
          /\ shed' = shed \cup {} \cup (Elems(all) \ Elems(pending'))
          /\ taking' = <<>> /\ UNCHANGED <<stored, log, flushed, broken>>
      BY <1>4 DEF PutBack, Shed
    <2>. HIDE DEF all
    <2>4. SinkTypes'
      BY <1>0, <1>1, <2>1, <2>2, <2>3 DEF SinkTypes
    <2>. QED
      BY <2>1, <2>3, <2>4 DEF Received
  <1>5. CASE flushLocked
    BY <1>5 DEF flushLocked, SinkTypes, Received
  <1>. QED
    BY <1>2, <1>3, <1>4, <1>5 DEF Sink

\* A log that is read again is kept, or shed where it is over its budget.
LEMMA ReloadedStep ==
  ASSUME NEW lines \in Seq(Numbers), shed \subseteq Numbers, Reloaded(lines)
  PROVE  /\ log' \in Seq(Numbers) /\ flushed' \in 0..Len(log') /\ shed' \subseteq Numbers
         /\ shed \cup Elems(lines) \subseteq shed' \cup Elems(log')
  <1>1. dropOldestOverBudget(lines) \in Seq(Numbers)
    BY FittingType, IngestAssumption DEF dropOldestOverBudget
  <1>2. Elems(lines) \subseteq Numbers
    BY ElemsType
  <1>3. /\ log' = dropOldestOverBudget(lines) \/ log' = lines
        /\ flushed' = Len(log') /\ shed' = shed \cup {} \cup (Elems(lines) \ Elems(log'))
    BY DEF Reloaded, Shed
  <1>. QED
    BY <1>1, <1>2, <1>3

\* A broker that restarts accounts for what it had not written.
LEMMA RestartStep ==
  ASSUME IngestTypes, CountInv, BrokerRestart
  PROVE  IngestTypes' /\ CountInv' /\ Received \subseteq Received'
  <1>0. <<>> \in Seq(Numbers) /\ Elems(<<>>) = {}
    BY DEF Elems
  <1>1. Elems(pending) \subseteq Numbers /\ Elems(taking) \subseteq Numbers
    BY ElemsType DEF IngestTypes
  <1>. DEFINE lines == SubSeq(log, 1, flushed)
              rest == SubSeq(log, flushed + 1, Len(log))
  <1>2. /\ lines \in Seq(Numbers) /\ Len(lines) = flushed /\ rest \in Seq(Numbers)
        /\ Elems(log) = Elems(lines) \cup Elems(rest)
    BY SubSeqElems DEF IngestTypes
  <1>3. Elems(rest) \subseteq Numbers
    BY ZenonT(40), <1>2, ElemsType
  <1>4. Lost = Elems(pending) \cup Elems(taking) \cup Elems(rest)
    BY DEF Lost
  <1>. HIDE DEF lines, rest
  <1>5. /\ relay' \in {"known", "forgotten"} /\ counted' \in [Numbers -> Nat] /\ CountInv'
        /\ backend' = backend /\ late' = late
    BY DEF BrokerRestart, IngestTypes, CountInv
  <1>6. CASE BrokerCrash
    <2>1. /\ wiped' = wiped \cup Lost /\ pending' = <<>> /\ taking' = <<>> /\ stored' = stored
      BY <1>6 DEF BrokerCrash
    <2>2. CASE UNCHANGED <<log, flushed, broken, shed>>
      BY <1>0, <1>1, <1>3, <1>4, <1>5, <2>1, <2>2 DEF IngestTypes, Received
    <2>3. CASE broken' = "no" /\ Reloaded(lines)
      <3>1. /\ log' \in Seq(Numbers) /\ flushed' \in 0..Len(log') /\ shed' \subseteq Numbers
            /\ shed \cup Elems(lines) \subseteq shed' \cup Elems(log')
        BY <1>2, <2>3, ReloadedStep DEF IngestTypes
      <3>2. IngestTypes'
        BY <1>0, <1>1, <1>3, <1>4, <1>5, <2>1, <2>3, <3>1 DEF IngestTypes
      <3>. QED
        BY <1>2, <1>4, <1>5, <2>1, <3>1, <3>2 DEF Received
    <2>4. CASE broken' = "down" /\ log' = lines /\ UNCHANGED <<flushed, shed>>
      <3>1. IngestTypes'
        BY <1>0, <1>1, <1>2, <1>3, <1>4, <1>5, <2>1, <2>4 DEF IngestTypes
      <3>. QED
        BY <1>2, <1>4, <1>5, <2>1, <2>4, <3>1 DEF Received
    <2>. QED
      BY <1>6, <2>2, <2>3, <2>4 DEF BrokerCrash, loadRecent, lines
  <1>7. CASE CloseSink
    <2>1. /\ log' \in Seq(Numbers) /\ flushed' \in 0..Len(log') /\ shed' \subseteq Numbers
          /\ shed \cup Elems(log) \subseteq shed' \cup Elems(log')
      BY <1>7, ReloadedStep DEF CloseSink, IngestTypes
    <2>2. /\ stored' = stored \cup Elems(pending) /\ pending' = <<>>
          /\ UNCHANGED <<taking, broken, wiped>>
      BY <1>7 DEF CloseSink
    <2>3. IngestTypes'
      BY <1>0, <1>1, <1>5, <2>1, <2>2 DEF IngestTypes
    <2>. QED
      BY <1>5, <2>1, <2>2, <2>3 DEF Received
  <1>. QED
    BY <1>6, <1>7 DEF BrokerRestart

-----------------------------------------------------------------------------
(* What holds of the file and of the queues *)

QueueInv == OutboxTypes /\ OwnerInv /\ FileHoldsCache /\ StaleInv
SpeakInv == ManagerTypes /\ MemoryInv /\ OneIdentity

\* No event stops waiting unless it is settled, and a new one waits or is.
Carried == /\ Settled \subseteq Settled'
           /\ \A e \in Unsent : e \in Unsent' \/ e.n \in Settled'
Fresh   == made' = made \/ (made' = made + 1 /\ made + 1 \in Settled' \cup Ids(Unsent'))

\* Where an event waits.
LEMMA Waits ==
  /\ \A e : e \in Unsent <=>
       \/ e \in OnDisk(file)
       \/ \E g \in Hosts : e \in Elems(mem[g])
       \/ \E g \in Hosts : Available(g) /\ e \in Elems(box[g].events)
  /\ \A e : e \in Unsent' <=>
       \/ e \in OnDisk(file')
       \/ \E g \in Hosts : e \in Elems(mem'[g])
       \/ \E g \in Hosts : Available(g)' /\ e \in Elems(box'[g].events)
  <1>1. ASSUME NEW e
        PROVE  e \in Unsent <=>
                 \/ e \in OnDisk(file)
                 \/ \E g \in Hosts : e \in Elems(mem[g])
                 \/ \E g \in Hosts : Available(g) /\ e \in Elems(box[g].events)
    <2>. DEFINE A == UNION {Elems(mem[h]) : h \in Hosts}
                B == UNION {Elems(box[h].events) : h \in {g \in Hosts : Available(g)}}
    <2>1. e \in A <=> \E g \in Hosts : e \in Elems(mem[g])
      OBVIOUS
    <2>2. e \in B <=> \E g \in Hosts : Available(g) /\ e \in Elems(box[g].events)
      OBVIOUS
    <2>3. Unsent = OnDisk(file) \cup A \cup B
      BY DEF Unsent
    <2>. HIDE DEF A, B
    <2>. QED
      BY <2>1, <2>2, <2>3, ZenonT(40)
  <1>2. ASSUME NEW e
        PROVE  e \in Unsent' <=>
                 \/ e \in OnDisk(file')
                 \/ \E g \in Hosts : e \in Elems(mem'[g])
                 \/ \E g \in Hosts : Available(g)' /\ e \in Elems(box'[g].events)
    <2>. DEFINE A == UNION {Elems(mem'[h]) : h \in Hosts}
                B == UNION {Elems(box'[h].events) : h \in {g \in Hosts : Available(g)'}}
    <2>1. e \in A <=> \E g \in Hosts : e \in Elems(mem'[g])
      OBVIOUS
    <2>2. e \in B <=> \E g \in Hosts : Available(g)' /\ e \in Elems(box'[g].events)
      OBVIOUS
    <2>3. Unsent' = OnDisk(file') \cup A \cup B
      BY DEF Unsent
    <2>. HIDE DEF A, B
    <2>. QED
      BY <2>1, <2>2, <2>3, ZenonT(40)
  <1>. QED
    BY <1>1, <1>2

\* An open outbox in good order mirrors its file.
LEMMA MirrorNow ==
  ASSUME QueueInv, NEW h \in Hosts, Available(h), lag[h] = "no"
  PROVE  Mirror(file, box[h])
  <1>1. file \in FileType /\ box[h] \in Box
    BY DEF QueueInv, OutboxTypes, FileType
  <1>. QED
    BY <1>1, MirrorHolds DEF QueueInv, FileHoldsCache

\* A write by its owner keeps the file in step with the queue, if what leaves
\* the queue is settled.
LEMMA WriteKeeps ==
  ASSUME QueueInv, NEW h \in Hosts, Available(h),
         Wrote(h), UNCHANGED lock, Settled \subseteq Settled',
         \A d \in Elems(box[h].events) : d \in Elems(box'[h].events) \/ d.n \in Settled',
         \A g \in Hosts : \A e \in Elems(mem[g]) :
            e \in Elems(mem'[g]) \/ e \in Elems(box'[h].events) \/ e.n \in Settled'
  PROVE  /\ OwnerInv' /\ FileHoldsCache' /\ StaleInv' /\ Carried
         /\ Elems(box'[h].events) \subseteq Unsent'
  <1>. USE DEF QueueInv
  <1>1. lock = h
    BY DEF OwnerInv
  <1>2. \A g \in Hosts : Available(g) => g = h
    BY <1>1 DEF OwnerInv
  <1>3. \A g \in Hosts : Available(g)' <=> g = h
    BY <1>2 DEF Wrote, Available
  <1>4. OwnerInv'
    BY <1>1, <1>3 DEF OwnerInv, Wrote, Available
  <1>5. FileHoldsCache'
    <2>1. file' \in FileType /\ box'[h] \in Box
      BY ZenonT(40) DEF Wrote
    <2>2. ASSUME lag'[h] = "no"
          PROVE  /\ file'.tail = "clean" /\ Len(file'.lines) = box'[h].lines
                 /\ \E k \in 0..Len(file'.lines) :
                      SubSeq(file'.lines, k + 1, Len(file'.lines)) = box'[h].events
      BY <2>1, <2>2, MirrorHolds, ZenonT(40) DEF Wrote
    <2>. QED
      BY <1>1, <1>3, <2>2, ZenonT(40) DEF FileHoldsCache
  <1>6. \A e \in OnDisk(file) : e \in Elems(box'[h].events) \/ e.n \in Settled'
    BY DEF StaleInv
  <1>7. StaleInv'
    BY <1>3, <1>6 DEF StaleInv, Wrote
  <1>8. /\ Elems(box'[h].events) \subseteq Unsent'
        /\ \A g \in Hosts : Elems(mem'[g]) \subseteq Unsent'
    BY <1>3, Waits, ZenonT(40)
  <1>9. ASSUME NEW e \in Unsent
        PROVE  e \in Unsent' \/ e.n \in Settled'
    <2>1. CASE e \in OnDisk(file)
      BY <1>6, <1>8, <2>1
    <2>2. CASE \E g \in Hosts : e \in Elems(mem[g])
      BY <1>8, <2>2
    <2>3. CASE \E g \in Hosts : Available(g) /\ e \in Elems(box[g].events)
      BY <1>2, <1>8, <2>3
    <2>. QED
      BY <2>1, <2>2, <2>3, Waits, ZenonT(40)
  <1>. QED
    BY <1>4, <1>5, <1>7, <1>8, <1>9 DEF Carried

\* Where nobody touches the outboxes, only what is settled may grow.
LEMMA StillKeeps ==
  ASSUME QueueInv, UNCHANGED <<file, box, lag, lock>>, Settled \subseteq Settled',
         \A g \in Hosts : \A e \in Elems(mem[g]) : e \in Elems(mem'[g]) \/ e.n \in Settled'
  PROVE  OwnerInv' /\ FileHoldsCache' /\ StaleInv' /\ Carried
  <1>. USE DEF QueueInv
  <1>1. \A g \in Hosts : Available(g)' <=> Available(g)
    BY DEF Available
  <1>2. OwnerInv' /\ FileHoldsCache'
    BY <1>1 DEF OwnerInv, FileHoldsCache
  <1>3. StaleInv'
    BY <1>1 DEF StaleInv
  <1>4. ASSUME NEW e \in Unsent
        PROVE  e \in Unsent' \/ e.n \in Settled'
    <2>1. CASE e \in OnDisk(file)
      BY <2>1, Waits, ZenonT(40)
    <2>2. CASE \E g \in Hosts : e \in Elems(mem[g])
      BY <2>2, Waits, ZenonT(40)
    <2>3. CASE \E g \in Hosts : Available(g) /\ e \in Elems(box[g].events)
      BY <1>1, <2>3, Waits, ZenonT(40)
    <2>. QED
      BY <2>1, <2>2, <2>3, Waits, ZenonT(40)
  <1>. QED
    BY <1>2, <1>3, <1>4 DEF Carried

\* What was sent, or given up, may leave a queue.
LEMMA RemoveKeeps ==
  ASSUME SelectionSound, QueueInv, NEW h \in Hosts, NEW sent \in SUBSET Event, removeSent(h, sent),
         UNCHANGED <<lock, made>>, Settled \subseteq Settled', gone' \subseteq Numbers,
         \A d \in sent : d.n \in Settled',
         \A g \in Hosts : \A e \in Elems(mem[g]) : e \in Elems(mem'[g]) \/ e.n \in Settled'
  PROVE  QueueInv' /\ Carried
  <1>1. luck' \in 0..Trouble
    BY RemoveStep DEF QueueInv
  <1>2. CASE UNCHANGED <<box, file, lag>>
    <2>1. OwnerInv' /\ FileHoldsCache' /\ StaleInv' /\ Carried
      BY ZenonT(40), <1>2, StillKeeps
    <2>. QED
      BY <1>1, <1>2, <2>1, ZenonT(40) DEF QueueInv, OutboxTypes
  <1>3. CASE /\ box[h].closed = "no" /\ box[h].events # <<>> /\ Wrote(h)
             /\ Elems(box'[h].events) = Elems(box[h].events) \ sent
    <2>1. Available(h)
      BY <1>3 DEF QueueInv, OwnerInv, Available, OutboxTypes, Box
    <2>2. OwnerInv' /\ FileHoldsCache' /\ StaleInv' /\ Carried
      BY <1>3, <2>1, WriteKeeps
    <2>. QED
      BY <1>1, <1>3, <2>2, ZenonT(40) DEF QueueInv, OutboxTypes, Wrote, FileType
  <1>. QED
    BY <1>2, <1>3, RemoveStep DEF QueueInv

-----------------------------------------------------------------------------
(* The manager *)

\* A request still speaks for one session while the session of its host stays.
LEMMA IdentityFrame ==
  ASSUME OneIdentity, up' = up,
         \A g \in Hosts : up[g].at = "post" => sess'[g].id = sess[g].id
  PROVE  OneIdentity'
  <1>1. SUFFICES ASSUME NEW g \in Hosts, up[g].at = "post",
                        NEW e \in up[g].batch, NEW f \in up[g].batch
                 PROVE  e.sess = f.sess /\ (up[g].beat = "yes" => e.sess = sess'[g].id)
    BY ZenonT(40) DEF OneIdentity
  <1>. QED
    BY <1>1, ZenonT(40) DEF OneIdentity

\* The identity of a request matters for the host that makes it.
LEMMA IdentityKept ==
  ASSUME OneIdentity, NEW h \in Hosts,
         \A g \in Hosts : sess'[g].id = sess[g].id /\ (g # h => up'[g] = up[g]),
         up'[h].at = "post" =>
           \A e, f \in up'[h].batch :
             e.sess = f.sess /\ (up'[h].beat = "yes" => e.sess = sess[h].id)
  PROVE  OneIdentity'
  <1>. SUFFICES ASSUME NEW g \in Hosts, up'[g].at = "post",
                       NEW e \in up'[g].batch, NEW f \in up'[g].batch
                PROVE  e.sess = f.sess /\ (up'[g].beat = "yes" => e.sess = sess'[g].id)
    BY DEF OneIdentity
  <1>1. CASE g = h
    BY <1>1
  <1>2. CASE g # h
    BY <1>2 DEF OneIdentity
  <1>. QED
    BY <1>1, <1>2

LEMMA IdentitySame ==
  ASSUME OneIdentity, UNCHANGED <<sess, up>>
  PROVE  OneIdentity'
  BY DEF OneIdentity

\* A request that is posted speaks for one session.
LEMMA PostStep ==
  ASSUME SpeakInv, NEW h \in Hosts, NEW via \in {"store", "memory"},
         NEW beat \in {"yes", "no"}, NEW batch \in SUBSET Event,
         Post(h, via, beat, batch), UNCHANGED <<begun, sess, mem>>,
         \A e, f \in batch : e.sess = f.sess /\ (beat = "yes" => e.sess = sess[h].id)
  PROVE  SpeakInv'
  <1>. DEFINE u == [at |-> "post", via |-> via, beat |-> beat, batch |-> batch]
  <1>1. u \in Upload /\ u.batch = batch /\ u.beat = beat
    BY DEF Upload
  <1>2. up' = [up EXCEPT ![h] = u]
    BY DEF Post
  <1>. HIDE DEF u
  <1>3. /\ up' \in [Hosts -> Upload] /\ up'[h] = u
        /\ \A g \in Hosts : g # h => up'[g] = up[g]
    BY <1>1, <1>2 DEF SpeakInv, ManagerTypes
  <1>4. ManagerTypes' /\ MemoryInv'
    BY <1>3 DEF SpeakInv, ManagerTypes, MemoryInv, Active
  <1>5. OneIdentity'
    BY <1>1, <1>3, IdentityKept, Zenon DEF SpeakInv
  <1>. QED
    BY <1>4, <1>5 DEF SpeakInv

\* No request on its way.
LEMMA GoStep ==
  ASSUME SpeakInv, NEW h \in Hosts, NEW point \in {"idle", "drain"}, Go(h, point),
         \A g \in Hosts : sess'[g].id = sess[g].id
  PROVE  up' \in [Hosts -> Upload] /\ OneIdentity'
  <1>. DEFINE u == [Idle EXCEPT !.at = point]
  <1>1. u \in Upload /\ u.at # "post"
    BY DEF Upload, Idle
  <1>2. up' = [up EXCEPT ![h] = u]
    BY DEF Go
  <1>. HIDE DEF u
  <1>3. /\ up' \in [Hosts -> Upload] /\ up'[h] = u
        /\ \A g \in Hosts : g # h => up'[g] = up[g]
    BY <1>1, <1>2 DEF SpeakInv, ManagerTypes
  <1>. QED
    BY <1>1, <1>3, IdentityKept, Zenon DEF SpeakInv

\* What outboxUploadBatch takes is of the session at the head of the queue.
LEMMA BatchOneSession ==
  ASSUME NEW q \in Seq(Event), NEW limit
  PROVE  /\ outboxUploadBatch(q, limit) \in SUBSET Event
         /\ Oversized(q, limit) \in SUBSET Event
         /\ \A e \in outboxUploadBatch(q, limit) : e.sess = q[1].sess
  <1>1. \A i \in Prefix(q) : i \in 1..Len(q) /\ q[i].sess = q[1].sess /\ q[i] \in Event
    BY DEF Prefix
  <1>2. \A e \in outboxUploadBatch(q, limit) : \E i \in Prefix(q) : e = q[i]
    BY DEF outboxUploadBatch
  <1>3. \A e \in Oversized(q, limit) : \E i \in Prefix(q) : e = q[i]
    BY DEF Oversized
  <1>. QED
    BY <1>1, <1>2, <1>3

\* The numbers of events are numbers.
LEMMA IdsType ==
  ASSUME NEW S \in SUBSET Event
  PROVE  Ids(S) \subseteq Numbers /\ \A e \in S : e.n \in Ids(S)
  BY DEF Ids, Event, Numbers

\* What is queued are events.
LEMMA QueuedType ==
  ASSUME OutboxTypes, ManagerTypes, NEW h \in Hosts
  PROVE  /\ box[h].events \in Seq(Event) /\ Elems(box[h].events) \in SUBSET Event
         /\ mem[h] \in Seq(Event) /\ Elems(mem[h]) \in SUBSET Event
  <1>1. box[h].events \in Seq(Event) /\ mem[h] \in Seq(Event)
    BY DEF OutboxTypes, ManagerTypes, Box
  <1>. QED
    BY <1>1, ElemsType

\* An operation that finds no outbox uses up luck, at most.
LEMMA UnavailableLuck ==
  ASSUME OutboxTypes, NEW h, Unavailable(h)
  PROVE  luck' \in 0..Trouble
  BY OutboxAssumption DEF OutboxTypes, Unavailable, Smooth, GoesWrong

\* storeEventLocked: a new event is queued in the outbox or in memory.
LEMMA StoreStep ==
  ASSUME QueueInv, SpeakInv, NEW h \in Hosts, NEW kind \in EventKinds, Active(h),
         storeEventLocked(h, kind), UNCHANGED Received
  PROVE  /\ QueueInv' /\ Carried /\ Fresh
         /\ mem' \in [Hosts -> Seq(Event)]
         /\ \A g \in Hosts : \A d \in Elems(mem'[g]) : d.sess = sess[g].id
  <1>. DEFINE e == [n |-> made + 1, sess |-> sess[h].id, kind |-> kind]
  <1>1. e \in Event /\ e.n = made + 1 /\ e.sess = sess[h].id
    BY SMTT(30), OutboxAssumption DEF storeEventLocked, QueueInv, OutboxTypes, SpeakInv, ManagerTypes,
       Session, Event
  <1>2. made' = made + 1 /\ made' \in 0..MaxEvents /\ UNCHANGED lock
    <2>1. made' = made + 1 /\ made < MaxEvents /\ UNCHANGED lock
      BY ZenonT(40) DEF storeEventLocked
    <2>. QED
      BY <2>1, OutboxAssumption DEF QueueInv, OutboxTypes
  <1>3. \/ Available(h) /\ mem[h] = <<>> /\ appendLocked(h, e) /\ UNCHANGED mem
        \/ Unavailable(h) /\ enqueueLocked(h, e) /\ UNCHANGED <<file, box, lag>>
    BY ZenonT(40) DEF storeEventLocked
  <1>. HIDE DEF e
  <1>4. CASE Available(h) /\ appendLocked(h, e) /\ UNCHANGED mem
    <2>1. /\ Wrote(h) /\ luck' \in 0..Trouble /\ gone \subseteq gone' /\ gone' \subseteq Numbers
          /\ \A d \in Elems(box[h].events) \cup {e} :
               d \in Elems(box'[h].events) \/ d.n \in gone'
      BY <1>1, <1>4, MirrorNow, AppendStep, ZenonT(40) DEF QueueInv
    <2>2. Settled \subseteq Settled' /\ gone' \subseteq Settled'
      BY <2>1 DEF Settled
    <2>3. /\ OwnerInv' /\ FileHoldsCache' /\ StaleInv' /\ Carried
          /\ Elems(box'[h].events) \subseteq Unsent'
      BY ZenonT(40), <1>2, <1>4, <2>1, <2>2, WriteKeeps
    <2>4. QueueInv'
      BY <1>2, <2>1, <2>3, ZenonT(40) DEF QueueInv, OutboxTypes, Wrote, FileType
    <2>5. Fresh
      BY <1>1, <1>2, <2>1, <2>2, <2>3, ZenonT(40) DEF Fresh, Ids
    <2>. QED
      BY <1>4, <2>3, <2>4, <2>5 DEF SpeakInv, ManagerTypes, MemoryInv
  <1>5. CASE Unavailable(h) /\ enqueueLocked(h, e) /\ UNCHANGED <<file, box, lag>>
    <2>. DEFINE all == Append(mem[h], e)
    <2>1. mem[h] \in Seq(Event)
      BY DEF SpeakInv, ManagerTypes
    <2>2. /\ all \in Seq(Event) /\ Elems(all) = Elems(mem[h]) \cup {e}
          /\ all # <<>> /\ all[Len(all)] = e
      BY SMTT(30), <1>1, <2>1, AppendElems
    <2>3. Newest(all) \in Seq(Event) /\ e \in Elems(Newest(all)) /\ Suffix(Newest(all), all)
      BY ZenonT(40), <2>2, NewestElems
    <2>4. Elems(all) \in SUBSET Event
      BY <2>2, ElemsType
    <2>5. /\ mem' = [mem EXCEPT ![h] = Newest(all)]
          /\ gone' = gone \cup Ids(Elems(all) \ Elems(Newest(all)))
      BY <1>5 DEF enqueueLocked
    <2>. HIDE DEF all
    <2>6. Elems(Newest(all)) \subseteq Elems(all)
      <3>. DEFINE kept == Newest(all)
      <3>1. Len(all) \in Nat /\ Len(kept) \in Nat
        BY SMTT(30), <2>2, <2>3
      <3>2. /\ Len(kept) <= Len(all)
            /\ \A i \in 1..Len(kept) : kept[i] = all[Len(all) - Len(kept) + i]
        BY <2>3 DEF Suffix
      <3>. HIDE DEF kept
      <3>3. \A i \in 1..Len(kept) : \E j \in 1..Len(all) : kept[i] = all[j]
        BY <3>1, <3>2
      <3>. QED
        BY <3>3, ZenonT(40) DEF Elems, kept
    <2>7. gone' \subseteq Numbers /\ \A d \in Elems(all) \ Elems(Newest(all)) : d.n \in gone'
      BY <2>4, <2>5, IdsType DEF QueueInv, OutboxTypes
    <2>8. /\ mem' \in [Hosts -> Seq(Event)] /\ mem'[h] = Newest(all)
          /\ \A g \in Hosts : g # h => mem'[g] = mem[g]
      BY <2>3, <2>5 DEF SpeakInv, ManagerTypes
    <2>9. Settled \subseteq Settled' /\ gone' \subseteq Settled'
      BY <2>5 DEF Settled
    <2>10. OwnerInv' /\ FileHoldsCache' /\ StaleInv' /\ Carried
      BY ZenonT(40), <1>2, <1>5, <2>2, <2>7, <2>8, <2>9, StillKeeps
    <2>11. luck' \in 0..Trouble
      BY <1>5, UnavailableLuck DEF QueueInv
    <2>12. QueueInv'
      BY <1>2, <1>5, <2>7, <2>10, <2>11, ZenonT(40) DEF QueueInv, OutboxTypes
    <2>13. Fresh
      BY <1>1, <1>2, <2>3, <2>8, ZenonT(40) DEF Fresh, Ids, Unsent
    <2>14. \A g \in Hosts : \A d \in Elems(mem'[g]) : d.sess = sess[g].id
      BY <1>1, <2>2, <2>6, <2>8, ZenonT(40) DEF SpeakInv, MemoryInv
    <2>. QED
      BY ZenonT(40), <2>8, <2>10, <2>12, <2>13, <2>14
  <1>. QED
    BY ZenonT(40), <1>3, <1>4, <1>5

\* What every step of a host keeps.
HostKeeps == QueueInv' /\ SpeakInv' /\ Carried /\ Fresh

\* A step that leaves the outboxes alone and only the goroutine's point moves.
LEMMA PointStep ==
  ASSUME QueueInv, SpeakInv, UNCHANGED <<outboxVars, Received, begun, mem>>,
         sess' \in [Hosts -> Session], up' \in [Hosts -> Upload], OneIdentity',
         \A g \in Hosts : /\ sess'[g].id = sess[g].id
                          /\ sess'[g].at \in {"on", "up"} => sess[g].at \in {"on", "up"}
  PROVE  HostKeeps
  <1>1. UNCHANGED <<file, lock, box, lag, made, gone, luck>> /\ Settled \subseteq Settled'
    BY DEF outboxVars, Settled
  <1>2. OwnerInv' /\ FileHoldsCache' /\ StaleInv' /\ Carried
    BY <1>1, StillKeeps
  <1>3. QueueInv' /\ Fresh
    BY <1>1, <1>2, ZenonT(40) DEF QueueInv, OutboxTypes, Fresh
  <1>4. SpeakInv'
    BY DEF SpeakInv, ManagerTypes, MemoryInv, Active
  <1>. QED
    BY <1>2, <1>3, <1>4, ZenonT(40) DEF HostKeeps

\* A session's own steps, with the record calls of the engine.
LEMMA SessionStep ==
  ASSUME QueueInv, SpeakInv, NEW h \in Hosts, UNCHANGED Received,
         BeginSession(h) \/ MarkConnected(h) \/ Record(h) \/ Flush(h) \/ EndSession(h)
  PROVE  HostKeeps
  <1>1. CASE BeginSession(h)
    <2>1. Elems(mem[h]) \in SUBSET Event
      BY QueuedType DEF QueueInv, SpeakInv
    <2>2. /\ begun' \in 0..MaxSessions /\ begun + 1 \in 1..MaxSessions
          /\ sess' = [sess EXCEPT ![h] = [id |-> begun + 1, at |-> "on"]]
          /\ mem' = [mem EXCEPT ![h] = <<>>] /\ up[h].at = "idle"
          /\ UNCHANGED <<up, file, lock, box, lag, made, luck>>
      <3>1. begun < MaxSessions /\ begun' = begun + 1 /\ begun \in 0..MaxSessions
        BY <1>1, ZenonT(40) DEF BeginSession, SpeakInv, ManagerTypes
      <3>2. begun + 1 \in 0..MaxSessions /\ begun + 1 \in 1..MaxSessions
        BY <3>1, OutboxAssumption
      <3>. QED
        BY <1>1, <3>1, <3>2, ZenonT(40) DEF BeginSession
    <2>3. /\ gone' \subseteq Numbers /\ gone \subseteq gone'
          /\ \A e \in Elems(mem[h]) : e.n \in gone'
      BY <1>1, <2>1, IdsType, ZenonT(40) DEF BeginSession, QueueInv, OutboxTypes
    <2>4. /\ sess' \in [Hosts -> Session] /\ sess'[h] = [id |-> begun + 1, at |-> "on"]
          /\ \A g \in Hosts : g # h => sess'[g] = sess[g]
      <3>1. sess \in [Hosts -> Session]
        BY ZenonT(40) DEF SpeakInv, ManagerTypes
      <3>2. begun + 1 \in 0..MaxSessions
        BY SMTT(30), <2>2, OutboxAssumption
      <3>3. [id |-> begun + 1, at |-> "on"] \in Session
        BY <3>2 DEF Session
      <3>. QED
        BY <2>2, <3>1, <3>3
    <2>5. /\ mem' \in [Hosts -> Seq(Event)] /\ mem'[h] = <<>>
          /\ \A g \in Hosts : g # h => mem'[g] = mem[g]
      BY <2>2 DEF SpeakInv, ManagerTypes
    <2>6. Settled \subseteq Settled' /\ gone' \subseteq Settled'
      BY <2>3 DEF Settled
    <2>7. OwnerInv' /\ FileHoldsCache' /\ StaleInv' /\ Carried
      BY ZenonT(40), <2>2, <2>3, <2>5, <2>6, StillKeeps
    <2>8. QueueInv' /\ Fresh
      BY <2>2, <2>3, <2>7, ZenonT(40) DEF QueueInv, OutboxTypes, Fresh
    <2>9. sess'[h].id # 0 /\ Elems(mem'[h]) = {}
      <3>1. begun + 1 # 0
        <4>1. begun + 1 \in 1..MaxSessions
          BY <2>2, ZenonT(40)
        <4>. QED
          BY <4>1, OutboxAssumption
      <3>4. sess'[h] = [id |-> begun + 1, at |-> "on"]
        BY <2>4, ZenonT(40)
      <3>5. [id |-> begun + 1, at |-> "on"].id = begun + 1
        OBVIOUS
      <3>3. sess'[h].id = begun + 1
        BY <3>4, <3>5, ZenonT(40)
      <3>2. Elems(<<>>) = {}
        BY DEF Elems
      <3>. QED
        BY <2>5, <3>1, <3>2, <3>3
    <2>10. ManagerTypes' /\ MemoryInv'
      <3>1. \A g \in Hosts : Active(g)' => sess'[g].id # 0
        BY <2>4, <2>9, ZenonT(40) DEF Active, SpeakInv, ManagerTypes
      <3>2. ManagerTypes'
        BY <2>2, <2>4, <2>5, <3>1, ZenonT(40) DEF SpeakInv, ManagerTypes
      <3>3. MemoryInv'
        BY <2>4, <2>5, <2>9, ZenonT(40) DEF SpeakInv, MemoryInv
      <3>. QED
        BY <3>2, <3>3
    <2>11. OneIdentity'
      BY <2>2, <2>4, IdentityFrame, ZenonT(40) DEF SpeakInv
    <2>. QED
      BY <2>7, <2>8, <2>10, <2>11 DEF HostKeeps, SpeakInv
  <1>2. CASE MarkConnected(h)
    <2>1. /\ sess[h].at = "on" /\ sess' = [sess EXCEPT ![h].at = "up"]
          /\ Go(h, IF Waiting(h) THEN "drain" ELSE "idle")
          /\ UNCHANGED <<begun, mem, outboxVars>>
      BY <1>2 DEF MarkConnected, Enter
    <2>2. /\ sess' \in [Hosts -> Session]
          /\ \A g \in Hosts : /\ sess'[g].id = sess[g].id
                              /\ sess'[g].at \in {"on", "up"} => sess[g].at \in {"on", "up"}
      BY <2>1, ZenonT(40) DEF SpeakInv, ManagerTypes, Session
    <2>3. up' \in [Hosts -> Upload] /\ OneIdentity'
      BY <2>1, <2>2, GoStep
    <2>. QED
      BY <2>1, <2>2, <2>3, PointStep
  <1>3. CASE Record(h)
    <2>1. Kinds[made + 1] \in EventKinds
      BY <1>3, KindsAssumption, OutboxAssumption DEF Record, QueueInv, OutboxTypes
    <2>2. /\ QueueInv' /\ Carried /\ Fresh /\ mem' \in [Hosts -> Seq(Event)]
          /\ \A g \in Hosts : \A d \in Elems(mem'[g]) : d.sess = sess[g].id
      BY <1>3, <2>1, StoreStep, ZenonT(40) DEF Record
    <2>3. UNCHANGED <<begun, sess, up>>
      BY <1>3 DEF Record
    <2>4. SpeakInv'
      <3>1. ManagerTypes'
        BY <2>2, <2>3 DEF SpeakInv, ManagerTypes, Active
      <3>2. MemoryInv'
        BY <2>2, <2>3, Zenon DEF MemoryInv
      <3>3. OneIdentity'
        BY <2>3, IdentitySame DEF SpeakInv
      <3>. QED
        BY <3>1, <3>2, <3>3 DEF SpeakInv
    <2>. QED
      BY <2>2, <2>4, ZenonT(40) DEF HostKeeps
  <1>4. CASE Flush(h)
    <2>1. Go(h, "drain") /\ UNCHANGED <<begun, sess, mem, outboxVars>>
      BY <1>4, ZenonT(40) DEF Flush
    <2>2. up' \in [Hosts -> Upload] /\ OneIdentity'
      BY <2>1, GoStep
    <2>. QED
      BY <2>1, <2>2, PointStep DEF SpeakInv, ManagerTypes
  <1>5. CASE EndSession(h)
    <2>1. /\ Active(h) /\ sess' = [sess EXCEPT ![h].at = "ended"] /\ Go(h, "drain")
          /\ UNCHANGED begun
          /\ \/ storeEventLocked(h, "ended")
             \/ UNCHANGED <<mem, outboxVars>>
      BY <1>5 DEF EndSession, Enter
    <2>2. /\ sess' \in [Hosts -> Session]
          /\ \A g \in Hosts : /\ sess'[g].id = sess[g].id
                              /\ sess'[g].at \in {"on", "up"} => sess[g].at \in {"on", "up"}
      BY <2>1, ZenonT(40) DEF SpeakInv, ManagerTypes, Session
    <2>3. up' \in [Hosts -> Upload] /\ OneIdentity'
      BY <2>1, <2>2, GoStep
    <2>4. CASE UNCHANGED <<mem, outboxVars>>
      BY <2>1, <2>2, <2>3, <2>4, PointStep
    <2>5. CASE storeEventLocked(h, "ended")
      <3>1. /\ QueueInv' /\ Carried /\ Fresh /\ mem' \in [Hosts -> Seq(Event)]
            /\ \A g \in Hosts : \A d \in Elems(mem'[g]) : d.sess = sess[g].id
        BY <2>1, <2>5, StoreStep DEF EventKinds
      <3>2. SpeakInv'
        BY <2>1, <2>2, <2>3, <3>1 DEF SpeakInv, ManagerTypes, MemoryInv, Active
      <3>. QED
        BY <3>1, <3>2 DEF HostKeeps
    <2>. QED
      BY <2>1, <2>4, <2>5
  <1>. QED
    BY <1>1, <1>2, <1>3, <1>4, <1>5

\* The outbox's own steps: the geo back-patch, Close and the first operation.
LEMMA OutboxStep ==
  ASSUME SelectionSound, QueueInv, SpeakInv, NEW h \in Hosts, UNCHANGED <<managerVars, Received>>,
         ApplySessionAttributes(h, sess[h].id) \/ Close(h) \/ loadLocked(h)
  PROVE  HostKeeps
  <1>0. SpeakInv' /\ UNCHANGED mem
    <2>1. UNCHANGED <<begun, sess, mem, up>>
      BY DEF managerVars
    <2>. QED
      <3>1. ManagerTypes'
        BY <2>1 DEF SpeakInv, ManagerTypes, Active
      <3>2. MemoryInv' /\ OneIdentity'
        BY <2>1, IdentitySame, ZenonT(40) DEF SpeakInv, MemoryInv
      <3>. QED
        BY <2>1, <3>1, <3>2 DEF SpeakInv
  <1>1. /\ box[h].events \in Seq(Event) /\ Elems(box[h].events) \in SUBSET Event
        /\ box[h].lines \in Nat /\ file \in FileType /\ box[h] \in Box
    BY QueuedType, ZenonT(40) DEF QueueInv, SpeakInv, OutboxTypes, Box, FileType
  <1>2. CASE ApplySessionAttributes(h, sess[h].id)
    <2>1. /\ Available(h) /\ rewriteLocked(h, box[h].events, file, box[h].lines)
          /\ UNCHANGED <<lock, made, gone>>
      BY <1>2 DEF ApplySessionAttributes
    <2>2. Wrote(h) /\ box'[h].events = box[h].events /\ luck' \in 0..Trouble
      BY <1>1, <2>1, RewriteStep, ZenonT(40) DEF QueueInv
    <2>3. Settled \subseteq Settled'
      BY <2>1 DEF Settled
    <2>4. OwnerInv' /\ FileHoldsCache' /\ StaleInv' /\ Carried
      BY ZenonT(40), <1>0, <2>1, <2>2, <2>3, WriteKeeps
    <2>5. QueueInv' /\ Fresh
      BY <2>1, <2>2, <2>4, ZenonT(40) DEF QueueInv, OutboxTypes, Wrote, FileType, Fresh
    <2>. QED
      BY <1>0, <2>4, <2>5 DEF HostKeeps
  <1>3. CASE Close(h)
    <2>1. /\ box[h].closed = "no" /\ box' = [box EXCEPT ![h].closed = "yes"]
          /\ lock' = IF lock = h THEN None ELSE lock
          /\ gone' = gone \cup Ids(Elems(box[h].events) \ OnDisk(file))
          /\ UNCHANGED <<file, lag, made, luck>>
      BY <1>3 DEF Close, Ids
    <2>2. /\ gone' \subseteq Numbers /\ gone \subseteq gone'
          /\ \A e \in Elems(box[h].events) \ OnDisk(file) : e.n \in gone'
      BY <1>1, <2>1, IdsType, ZenonT(40) DEF QueueInv, OutboxTypes
    <2>3. /\ box' \in [Hosts -> Box] /\ box'[h].closed = "yes"
          /\ box'[h].events = box[h].events /\ box'[h].loaded = box[h].loaded
          /\ \A g \in Hosts : g # h => box'[g] = box[g]
      <3>. DEFINE b == [box[h] EXCEPT !.closed = "yes"]
      <3>1. box[h] \in Box /\ box \in [Hosts -> Box]
        BY DEF QueueInv, OutboxTypes
      <3>2. /\ b \in Box /\ b.closed = "yes" /\ b.events = box[h].events
            /\ b.loaded = box[h].loaded
        BY <3>1, ZenonT(40) DEF Box
      <3>3. box' = [box EXCEPT ![h] = b]
        BY <2>1, <3>1, ZenonT(40)
      <3>. HIDE DEF b
      <3>. QED
        BY <3>1, <3>2, <3>3, ZenonT(40)
    <2>4. \A g \in Hosts : Available(g)' => g # h /\ Available(g)
      BY <2>3, ZenonT(40) DEF Available
    <2>5. OwnerInv'
      BY <2>1, <2>3, <2>4 DEF QueueInv, OwnerInv
    <2>6. FileHoldsCache'
      BY <2>1, <2>3, <2>4, <2>5 DEF QueueInv, FileHoldsCache, OwnerInv
    <2>7. Settled \subseteq Settled' /\ gone' \subseteq Settled'
      BY <2>2, ZenonT(40) DEF Settled
    <2>8. StaleInv'
      BY <2>1, <2>3, <2>4, <2>7 DEF QueueInv, StaleInv
    <2>9. \A g \in Hosts : g # h => (Available(g)' <=> Available(g))
      BY <2>3 DEF Available
    <2>10. ASSUME NEW e \in Unsent
           PROVE  e \in Unsent' \/ e.n \in Settled'
      <3>1. OnDisk(file) \subseteq Unsent' /\ \A g \in Hosts : Elems(mem[g]) \subseteq Unsent'
        BY <1>0, <2>1, Waits, ZenonT(40)
      <3>2. ASSUME NEW g \in Hosts, Available(g), e \in Elems(box[g].events)
            PROVE  e \in Unsent' \/ e.n \in Settled'
        <4>1. CASE g = h
          BY <2>2, <2>7, <3>1, <3>2, <4>1
        <4>2. CASE g # h
          BY <2>3, <2>9, <3>2, <4>2, Waits, ZenonT(40)
        <4>. QED
          BY <4>1, <4>2
      <3>. QED
        BY <3>1, <3>2, Waits, ZenonT(40)
    <2>11. QueueInv' /\ Fresh
      BY <2>1, <2>2, <2>3, <2>5, <2>6, <2>8, ZenonT(40) DEF QueueInv, OutboxTypes, Fresh
    <2>. QED
      BY <1>0, <2>7, <2>10, <2>11 DEF HostKeeps, Carried
  <1>4. CASE loadLocked(h)
    <2>. DEFINE events == Newest(Decoded(file.lines))
    <2>1. events \in Seq(Event)
      BY <1>1, DecodedElems, NewestElems DEF FileType
    <2>2. Elems(events) \in SUBSET Event /\ Len(events) \in Nat
      BY <2>1, ElemsType
    <2>3. OnDisk(file) \in SUBSET Event
      BY <1>1, ElemsType DEF FileType, OnDisk
    <2>4. /\ box[h].closed = "no" /\ box[h].loaded = "no" /\ lock \in {None, h} /\ lock' = h
          /\ UNCHANGED made
          /\ \/ /\ Smooth
                /\ box' = [box EXCEPT ![h].loaded = "yes", ![h].events = events,
                                      ![h].lines = Len(events)]
                /\ file' = IF Dirty(file) THEN Rewritten(events) ELSE file
                /\ gone' = gone \cup Ids(OnDisk(file) \ Elems(events))
                /\ lag' = [lag EXCEPT ![h] = "no"]
             \/ GoesWrong /\ UNCHANGED <<box, file, gone, lag>>
      BY <1>4 DEF loadLocked, Ids
    <2>5. \A g \in Hosts : ~Available(g)
      BY <2>4, OutboxAssumption DEF QueueInv, OwnerInv, Available
    <2>6. CASE GoesWrong /\ UNCHANGED <<box, file, gone, lag>>
      <3>1. \A g \in Hosts : ~Available(g)'
        BY <2>5, <2>6 DEF Available
      <3>2. OwnerInv' /\ FileHoldsCache' /\ StaleInv'
        BY <2>6, <3>1, ZenonT(40) DEF QueueInv, OwnerInv, FileHoldsCache, StaleInv
      <3>3. OutboxTypes' /\ Fresh
        BY <2>4, <2>6, OutboxAssumption DEF QueueInv, OutboxTypes, GoesWrong, Fresh
      <3>4. Unsent \subseteq Unsent'
        BY <1>0, <2>5, <2>6, Waits, ZenonT(40)
      <3>5. Settled \subseteq Settled'
        BY <2>6 DEF Settled
      <3>. QED
        BY <1>0, <3>2, <3>3, <3>4, <3>5 DEF HostKeeps, QueueInv, Carried
    <2>7. CASE /\ Smooth
               /\ box' = [box EXCEPT ![h].loaded = "yes", ![h].events = events,
                                     ![h].lines = Len(events)]
               /\ file' = IF Dirty(file) THEN Rewritten(events) ELSE file
               /\ gone' = gone \cup Ids(OnDisk(file) \ Elems(events))
               /\ lag' = [lag EXCEPT ![h] = "no"]
      <3>. HIDE DEF events
      <3>1. /\ box' \in [Hosts -> Box] /\ box'[h].closed = "no" /\ box'[h].loaded = "yes"
            /\ box'[h].events = events /\ box'[h].lines = Len(events)
            /\ \A g \in Hosts : g # h => box'[g] = box[g]
        <4>. DEFINE n == Len(events)
                    b == [box[h] EXCEPT !.loaded = "yes", !.events = events, !.lines = n]
        <4>1. box[h] \in Box /\ box \in [Hosts -> Box] /\ n \in Nat
          BY <2>2 DEF QueueInv, OutboxTypes
        <4>2. box' = [box EXCEPT ![h].loaded = "yes", ![h].events = events, ![h].lines = n]
          BY <2>7, ZenonT(40)
        <4>. HIDE DEF n
        <4>3. /\ b \in Box /\ b.closed = box[h].closed /\ b.loaded = "yes"
              /\ b.events = events /\ b.lines = n
          BY <2>1, <4>1, ZenonT(40) DEF Box
        <4>4. box' = [box EXCEPT ![h] = b]
          BY <4>1, <4>2, ZenonT(40)
        <4>. HIDE DEF b
        <4>5. /\ box' \in [Hosts -> Box] /\ box'[h] = b
              /\ \A g \in Hosts : g # h => box'[g] = box[g]
          BY <4>1, <4>3, <4>4, ZenonT(40)
        <4>. QED
          BY <2>4, <4>3, <4>5, ZenonT(40) DEF n
      <3>2. lag' \in [Hosts -> {"yes", "no"}] /\ luck' \in 0..Trouble
        BY <2>7 DEF QueueInv, OutboxTypes, Smooth
      <3>3. /\ file' \in FileType /\ OnDisk(file') \subseteq Elems(events)
            /\ Mirror(file', box'[h])
        <4>1. CASE Dirty(file)
          BY <2>1, <2>7, <3>1, <4>1, RewrittenFile, ZenonT(40)
        <4>2. CASE ~Dirty(file)
          <5>1. file' = file /\ file.tail = "clean" /\ file.lines = events
            BY <1>1, <2>7, <4>2 DEF Dirty, FileType, events
          <5>2. Suffix(events, events)
            BY <2>2 DEF Suffix
          <5>. QED
            BY <1>1, <3>1, <5>1, <5>2, ZenonT(40) DEF Mirror, OnDisk
        <4>. QED
          BY ZenonT(40), <4>1, <4>2
      <3>4. \A g \in Hosts : Available(g)' <=> g = h
        BY <2>5, <3>1, ZenonT(40) DEF Available
      <3>5. OwnerInv'
        BY <2>4, <3>1, <3>4 DEF QueueInv, OwnerInv
      <3>6. FileHoldsCache'
        <4>1. /\ file'.tail = "clean" /\ Len(file'.lines) = box'[h].lines
              /\ \E k \in 0..Len(file'.lines) :
                   SubSeq(file'.lines, k + 1, Len(file'.lines)) = box'[h].events
          BY ZenonT(40), <3>1, <3>3, MirrorHolds
        <4>. QED
          BY <2>4, <3>4, <4>1, ZenonT(40) DEF FileHoldsCache
      <3>7. StaleInv'
        BY <3>1, <3>3, <3>4, ZenonT(40) DEF StaleInv
      <3>8. /\ gone' \subseteq Numbers /\ gone \subseteq gone' /\ gone' \subseteq Settled'
            /\ Settled \subseteq Settled'
            /\ \A e \in OnDisk(file) \ Elems(events) : e.n \in gone'
        BY <2>3, <2>7, IdsType DEF QueueInv, OutboxTypes, Settled
      <3>9. /\ Elems(events) \subseteq Unsent'
            /\ \A g \in Hosts : Elems(mem[g]) \subseteq Unsent'
        BY <1>0, <3>1, <3>4, Waits, ZenonT(40)
      <3>10. ASSUME NEW e \in Unsent
             PROVE  e \in Unsent' \/ e.n \in Settled'
        <4>1. e \in OnDisk(file) \/ \E g \in Hosts : e \in Elems(mem[g])
          BY <2>5, Waits, ZenonT(40)
        <4>. QED
          BY ZenonT(40), <3>8, <3>9, <4>1
      <3>11. QueueInv' /\ Fresh
        BY <2>4, <3>1, <3>2, <3>3, <3>5, <3>6, <3>7, <3>8
        DEF QueueInv, OutboxTypes, FileType, Fresh
      <3>. QED
        BY <1>0, <3>8, <3>10, <3>11, ZenonT(40) DEF HostKeeps, Carried
    <2>. QED
      BY ZenonT(40), <2>4, <2>6, <2>7
  <1>. QED
    BY <1>2, <1>3, <1>4

\* What memory holds moves to the outbox, one event at a time.
LEMMA MigrateStep ==
  ASSUME QueueInv, SpeakInv, NEW h \in Hosts, UNCHANGED Received, migrateFallbackLocked(h)
  PROVE  HostKeeps
  <1>1. /\ mem[h] # <<>> /\ Available(h) /\ appendLocked(h, Head(mem[h]))
        /\ mem' = [mem EXCEPT ![h] = Tail(mem[h])]
        /\ UNCHANGED <<lock, made, begun, sess, up>>
    BY DEF migrateFallbackLocked
  <1>2. mem[h] \in Seq(Event)
    BY DEF SpeakInv, ManagerTypes
  <1>3. /\ Head(mem[h]) \in Event /\ Tail(mem[h]) \in Seq(Event)
        /\ Elems(mem[h]) = {Head(mem[h])} \cup Elems(Tail(mem[h]))
    BY <1>1, <1>2, TailElems
  <1>4. /\ mem' \in [Hosts -> Seq(Event)] /\ mem'[h] = Tail(mem[h])
        /\ \A g \in Hosts : g # h => mem'[g] = mem[g]
    BY <1>1, <1>3 DEF SpeakInv, ManagerTypes
  <1>5. /\ Wrote(h) /\ luck' \in 0..Trouble /\ gone \subseteq gone' /\ gone' \subseteq Numbers
        /\ \A d \in Elems(box[h].events) \cup {Head(mem[h])} :
             d \in Elems(box'[h].events) \/ d.n \in gone'
    BY <1>1, <1>3, MirrorNow, AppendStep, ZenonT(40) DEF QueueInv
  <1>6. Settled \subseteq Settled' /\ gone' \subseteq Settled'
    BY <1>5 DEF Settled
  <1>7. OwnerInv' /\ FileHoldsCache' /\ StaleInv' /\ Carried
    BY ZenonT(40), <1>1, <1>3, <1>4, <1>5, <1>6, WriteKeeps
  <1>8. QueueInv' /\ Fresh
    BY <1>1, <1>5, <1>7, ZenonT(40) DEF QueueInv, OutboxTypes, Wrote, FileType, Fresh
  <1>9. MemoryInv'
    BY <1>1, <1>3, <1>4, ZenonT(40) DEF SpeakInv, MemoryInv
  <1>10. ManagerTypes' /\ OneIdentity'
    <2>1. ManagerTypes'
      BY <1>1, <1>4 DEF SpeakInv, ManagerTypes, Active
    <2>2. OneIdentity'
      BY <1>1, IdentityFrame DEF SpeakInv
    <2>. QED
      BY <2>1, <2>2
  <1>. QED
    BY <1>7, <1>8, <1>9, <1>10 DEF HostKeeps, SpeakInv

\* A batch from memory is of the session that is on.
LEMMA MemoryBatch ==
  ASSUME SpeakInv, NEW h \in Hosts, NEW limit
  PROVE  /\ snapshotLocked(h, limit) \in SUBSET Event
         /\ \A e \in snapshotLocked(h, limit) : e.sess = sess[h].id
  <1>1. snapshotLocked(h, limit) \subseteq Elems(mem[h])
    BY DEF snapshotLocked, Elems
  <1>2. mem[h] \in Seq(Event)
    BY DEF SpeakInv, ManagerTypes
  <1>3. Elems(mem[h]) \subseteq Event
    BY <1>2, ElemsType
  <1>. QED
    BY <1>1, <1>3 DEF SpeakInv, MemoryInv

\* The heartbeat and the flush: what is discarded is settled, what is posted
\* speaks for one session.
LEMMA SendStep ==
  ASSUME SelectionSound, QueueInv, SpeakInv, NEW h \in Hosts, UNCHANGED Received,
         Heartbeat(h) \/ FlushNextBatch(h)
  PROVE  HostKeeps
  <1>. DEFINE q == box[h].events
  <1>0. q \in Seq(Event)
    BY QueuedType DEF QueueInv, SpeakInv
  <1>1. UNCHANGED <<lock, made, begun, sess, mem>>
    BY ZenonT(40) DEF Heartbeat, FlushNextBatch
  <1>2. ASSUME NEW big \in SUBSET Event, removeSent(h, big), gone' = gone \cup Ids(big)
        PROVE  QueueInv' /\ Carried /\ Fresh
    <2>1. gone' \subseteq Numbers /\ \A d \in big : d.n \in gone'
      BY <1>2, IdsType, ZenonT(40) DEF QueueInv, OutboxTypes
    <2>2. Settled \subseteq Settled' /\ gone' \subseteq Settled'
      BY <1>2 DEF Settled
    <2>. QED
      BY <1>1, <1>2, <2>1, <2>2, RemoveKeeps DEF Fresh
  <1>3. ASSUME UNCHANGED <<box, file, lag, gone>>, luck' \in 0..Trouble
        PROVE  QueueInv' /\ Carried /\ Fresh
    <2>1. Settled \subseteq Settled'
      BY <1>3 DEF Settled
    <2>2. OwnerInv' /\ FileHoldsCache' /\ StaleInv' /\ Carried
      BY <1>1, <1>3, <2>1, StillKeeps
    <2>. QED
      BY <1>1, <1>3, <2>2 DEF QueueInv, OutboxTypes, Fresh
  <1>4. ASSUME NEW point \in {"idle", "drain"}, Go(h, point)
        PROVE  SpeakInv'
    <2>1. up' \in [Hosts -> Upload] /\ OneIdentity'
      BY <1>1, <1>4, GoStep
    <2>. QED
      BY <1>1, <2>1 DEF SpeakInv, ManagerTypes, MemoryInv, Active
  <1>5. ASSUME FlushMemory(h)
        PROVE  SpeakInv'
    <2>1. CASE mem[h] = <<>>
      BY <1>4, <1>5, <2>1 DEF FlushMemory
    <2>2. CASE mem[h] # <<>>
      <3>. DEFINE batch == snapshotLocked(h, BatchSize)
      <3>1. batch \in SUBSET Event /\ \A e \in batch : e.sess = sess[h].id
        BY MemoryBatch
      <3>2. Post(h, "memory", "no", batch)
        BY <1>5, <2>2, ZenonT(40) DEF FlushMemory
      <3>. HIDE DEF batch
      <3>3. \A e, f \in batch : e.sess = f.sess /\ ("no" = "yes" => e.sess = sess[h].id)
        BY <3>1, ZenonT(40)
      <3>. QED
        BY <1>1, <3>1, <3>2, <3>3, PostStep
    <2>. QED
      BY <2>1, <2>2
  <1>6. CASE Heartbeat(h)
    <2>1. CASE SendHeartbeat(h)
      <3>. DEFINE own == q # <<>> /\ q[1].sess = sess[h].id
                  big == IF own THEN Oversized(q, BatchSize - 1) ELSE {}
                  batch == IF own THEN outboxUploadBatch(q, BatchSize - 1) ELSE {}
      <3>1. Post(h, "store", "yes", batch) /\ removeSent(h, big) /\ gone' = gone \cup Ids(big)
        BY <2>1, ZenonT(40) DEF SendHeartbeat
      <3>2. /\ big \in SUBSET Event /\ batch \in SUBSET Event
            /\ \A e \in batch : e.sess = sess[h].id
        BY ZenonT(40), <1>0, BatchOneSession
      <3>. HIDE DEF own, big, batch
      <3>3. SpeakInv'
        <4>1. \A e, f \in batch : /\ e.sess = f.sess
                                 /\ "yes" = "yes" => e.sess = sess[h].id
          BY <3>2, ZenonT(40)
        <4>. QED
          BY <1>1, <3>1, <3>2, <4>1, PostStep, ZenonT(40)
      <3>. QED
        BY <1>2, <3>1, <3>2, <3>3, ZenonT(40) DEF HostKeeps
    <2>2. CASE /\ Unavailable(h)
               /\ Post(h, "memory", "yes", snapshotLocked(h, BatchSize - 1))
               /\ UNCHANGED <<box, file, lag, gone>>
      <3>. DEFINE batch == snapshotLocked(h, BatchSize - 1)
      <3>0. batch \in SUBSET Event /\ \A e \in batch : e.sess = sess[h].id
        BY MemoryBatch, ZenonT(40)
      <3>1. SpeakInv'
        <4>1. Post(h, "memory", "yes", batch)
          BY <2>2
        <4>. HIDE DEF batch
        <4>2. \A e, f \in batch : /\ e.sess = f.sess
                                 /\ "yes" = "yes" => e.sess = sess[h].id
          BY <3>0, ZenonT(40)
        <4>. QED
          BY <1>1, <3>0, <4>1, <4>2, PostStep, ZenonT(40)
      <3>2. luck' \in 0..Trouble
        BY <2>2, UnavailableLuck DEF QueueInv
      <3>. QED
        BY <1>3, <2>2, <3>1, <3>2 DEF HostKeeps
    <2>. QED
      BY <1>6, <2>1, <2>2, ZenonT(40) DEF Heartbeat
  <1>7. CASE FlushNextBatch(h)
    <2>. DEFINE big == Oversized(q, BatchSize)
                batch == outboxUploadBatch(q, BatchSize)
    <2>0. /\ big \in SUBSET Event /\ batch \in SUBSET Event
          /\ \A e \in batch : e.sess = q[1].sess
      BY <1>0, BatchOneSession
    <2>1. \/ Go(h, "idle") /\ UNCHANGED <<box, file, lag, luck, gone>>
          \/ Unavailable(h) /\ FlushMemory(h) /\ UNCHANGED <<box, file, lag, gone>>
          \/ FlushMemory(h) /\ UNCHANGED <<box, file, lag, luck, gone>>
          \/ /\ Go(h, "drain") \/ Post(h, "store", "no", batch)
             /\ removeSent(h, big) /\ gone' = gone \cup Ids(big)
      BY <1>7, ZenonT(40) DEF FlushNextBatch
    <2>. HIDE DEF q, big, batch
    <2>2. CASE Go(h, "idle") /\ UNCHANGED <<box, file, lag, luck, gone>>
      BY <1>3, <1>4, <2>2, ZenonT(40) DEF HostKeeps, QueueInv, OutboxTypes
    <2>3. CASE Unavailable(h) /\ FlushMemory(h) /\ UNCHANGED <<box, file, lag, gone>>
      BY <1>3, <1>5, <2>3, UnavailableLuck DEF HostKeeps, QueueInv
    <2>4. CASE FlushMemory(h) /\ UNCHANGED <<box, file, lag, luck, gone>>
      BY <1>3, <1>5, <2>4, ZenonT(40) DEF HostKeeps, QueueInv, OutboxTypes
    <2>5. CASE /\ Go(h, "drain") \/ Post(h, "store", "no", batch)
               /\ removeSent(h, big) /\ gone' = gone \cup Ids(big)
      <3>1. SpeakInv'
        <4>1. CASE Go(h, "drain")
          BY <1>4, <4>1
        <4>2. CASE Post(h, "store", "no", batch)
          <5>1. \A e, f \in batch : /\ e.sess = f.sess
                                   /\ "no" = "yes" => e.sess = sess[h].id
            <6>1. "no" # "yes"
              OBVIOUS
            <6>. QED
              BY <2>0, <6>1, ZenonT(40)
          <5>. QED
            BY <1>1, <2>0, <4>2, <5>1, PostStep, ZenonT(40)
        <4>. QED
          BY <2>5, <4>1, <4>2
      <3>. QED
        BY <1>2, <2>0, <2>5, <3>1, ZenonT(40) DEF HostKeeps
    <2>. QED
      BY <2>1, <2>2, <2>3, <2>4, <2>5
  <1>. QED
    BY <1>6, <1>7

\* An answer: what leaves a queue was received, or is discarded.
LEMMA AnsweredStep ==
  ASSUME SelectionSound, QueueInv, SpeakInv, NEW h \in Hosts, NEW answer, Answered(h, answer),
         answer = "failed" => luck' \in 0..Trouble,
         Received \subseteq Received',
         answer = "ok" => Ids(up[h].batch) \subseteq Received'
  PROVE  HostKeeps
  <1>. DEFINE u       == up[h]
              discard == answer = "rejected" /\ u.via = "store" /\ u.beat = "no"
              done    == answer = "ok" \/ discard
  <1>0. u.batch \in SUBSET Event
    BY DEF SpeakInv, ManagerTypes, Upload
  <1>1. /\ gone' = IF discard THEN gone \cup Ids(u.batch) ELSE gone
        /\ mem' = IF done /\ u.via = "memory"
                  THEN [mem EXCEPT ![h] = Without(mem[h], u.batch)] ELSE mem
        /\ UNCHANGED <<lock, made, begun, sess>>
    BY ZenonT(40) DEF Answered
  <1>2. \/ removeSent(h, u.batch) /\ done
        \/ UNCHANGED <<box, file, lag>> /\ (answer # "failed" => luck' = luck)
    BY ZenonT(40) DEF Answered, Smooth
  <1>3. \E point \in {"idle", "drain"} : Go(h, point)
    BY ZenonT(40) DEF Answered
  <1>. HIDE DEF u
  <1>4. gone \subseteq gone' /\ gone' \subseteq Numbers
    BY <1>0, <1>1, IdsType, ZenonT(40) DEF QueueInv, OutboxTypes
  <1>5. Settled \subseteq Settled'
    BY <1>4 DEF Settled
  <1>6. done => \A d \in u.batch : d.n \in Settled'
    <2>1. \A d \in u.batch : d.n \in Ids(u.batch)
      BY <1>0, IdsType
    <2>. QED
      BY <1>1, <2>1, ZenonT(40) DEF Settled, u
  <1>7. /\ mem' \in [Hosts -> Seq(Event)]
        /\ \A g \in Hosts : Elems(mem'[g]) \subseteq Elems(mem[g])
        /\ \A g \in Hosts : \A e \in Elems(mem[g]) : e \in Elems(mem'[g]) \/ e.n \in Settled'
    <2>1. mem \in [Hosts -> Seq(Event)] /\ mem[h] \in Seq(Event)
      BY DEF SpeakInv, ManagerTypes
    <2>2. CASE mem' = mem
      BY <2>1, <2>2
    <2>3. CASE done /\ mem' = [mem EXCEPT ![h] = Without(mem[h], u.batch)]
      <3>1. /\ Without(mem[h], u.batch) \in Seq(Event)
            /\ Elems(Without(mem[h], u.batch)) = Elems(mem[h]) \ u.batch
        BY ZenonT(40), <1>0, <2>1, WithoutElems
      <3>2. /\ mem' \in [Hosts -> Seq(Event)] /\ mem'[h] = Without(mem[h], u.batch)
            /\ \A g \in Hosts : g # h => mem'[g] = mem[g]
        BY <2>1, <2>3, <3>1
      <3>. QED
        BY ZenonT(40), <1>6, <2>3, <3>1, <3>2
    <2>. QED
      BY ZenonT(40), <1>1, <2>2, <2>3
  <1>8. SpeakInv'
    <2>1. up' \in [Hosts -> Upload] /\ OneIdentity'
      BY ZenonT(40), <1>1, <1>3, GoStep
    <2>2. MemoryInv'
      BY <1>1, <1>7, ZenonT(40) DEF SpeakInv, MemoryInv
    <2>. QED
      BY <1>1, <1>7, <2>1, <2>2, ZenonT(40) DEF SpeakInv, ManagerTypes, Active
  <1>9. QueueInv' /\ Carried
    <2>1. CASE removeSent(h, u.batch) /\ done
      BY ZenonT(40), <1>0, <1>1, <1>4, <1>5, <1>6, <1>7, <2>1, RemoveKeeps
    <2>2. CASE UNCHANGED <<box, file, lag>> /\ (answer # "failed" => luck' = luck)
      <3>1. OwnerInv' /\ FileHoldsCache' /\ StaleInv' /\ Carried
        BY ZenonT(40), <1>1, <1>5, <1>7, <2>2, StillKeeps
      <3>. QED
        BY <1>1, <1>4, <2>2, <3>1, ZenonT(40) DEF QueueInv, OutboxTypes
    <2>. QED
      BY <1>2, <2>1, <2>2
  <1>. QED
    BY <1>1, <1>8, <1>9, ZenonT(40) DEF HostKeeps, Fresh

\* A process that dies loses what only its memory had, and owns nothing.
LEMMA CrashStep ==
  ASSUME QueueInv, SpeakInv, NEW h \in Hosts, UNCHANGED Received, Crash(h)
  PROVE  HostKeeps
  <1>. DEFINE b == [NewOutbox EXCEPT !.closed = "yes"]
              queued == Elems(box[h].events) \cup Elems(mem[h])
  <1>1. /\ sess' = [sess EXCEPT ![h].at = "dead"] /\ box' = [box EXCEPT ![h] = b]
        /\ lock' = IF lock = h THEN None ELSE lock
        /\ gone' = gone \cup Ids(queued \ OnDisk(file'))
        /\ mem' = [mem EXCEPT ![h] = <<>>] /\ up' = [up EXCEPT ![h] = Idle]
        /\ UNCHANGED <<begun, lag, made>>
    BY DEF Crash, Enter
  <1>2. \/ file' = file
        \/ Available(h) /\ file' = [Appended(file, Torn) EXCEPT !.tail = "torn"]
    BY DEF Crash
  <1>3. luck' \in 0..Trouble
    BY OutboxAssumption DEF Crash, GoesWrong, QueueInv, OutboxTypes
  <1>4. queued \in SUBSET Event
    BY QueuedType DEF QueueInv, SpeakInv
  <1>5. file' \in FileType /\ OnDisk(file') \subseteq OnDisk(file)
    <2>1. file \in FileType
      BY DEF QueueInv, OutboxTypes, FileType
    <2>2. CASE file' = [Appended(file, Torn) EXCEPT !.tail = "torn"]
      <3>1. /\ Appended(file, Torn) \in FileType
            /\ OnDisk(Appended(file, Torn)) \subseteq OnDisk(file) \cup {Torn}
            /\ Torn \notin OnDisk(Appended(file, Torn))
        BY <2>1, AppendedFile
      <3>2. file' \in FileType /\ OnDisk(file') = OnDisk(Appended(file, Torn))
        BY <2>2, <3>1 DEF FileType, OnDisk
      <3>. QED
        BY <3>1, <3>2
    <2>. QED
      BY <1>2, <2>1, <2>2
  <1>6. b \in Box /\ b.closed = "yes" /\ b.loaded = "no" /\ b.events = <<>>
    <2>1. b = [loaded |-> "no", closed |-> "yes", events |-> <<>>, lines |-> 0]
      BY DEF NewOutbox
    <2>2. <<>> \in Seq(Event) /\ 0 \in Nat
      OBVIOUS
    <2>. QED
      BY <2>1, <2>2, ZenonT(40) DEF Box
  <1>. HIDE DEF b, queued
  <1>7. box' \in [Hosts -> Box] /\ box'[h] = b /\ \A g \in Hosts : g # h => box'[g] = box[g]
    BY <1>1, <1>6 DEF QueueInv, OutboxTypes
  <1>8. \A g \in Hosts : Available(g)' <=> g # h /\ Available(g)
    BY <1>6, <1>7 DEF Available
  <1>9. gone' \subseteq Numbers /\ \A e \in queued \ OnDisk(file') : e.n \in gone'
    BY <1>1, <1>4, IdsType DEF QueueInv, OutboxTypes
  <1>10. Settled \subseteq Settled' /\ gone' \subseteq Settled'
    BY <1>1 DEF Settled
  <1>11. OwnerInv'
    BY <1>1, <1>6, <1>7, <1>8 DEF QueueInv, OwnerInv
  <1>12. \A g \in Hosts : Available(g)' => file' = file /\ lock' = g /\ box'[g] = box[g]
    BY <1>2, <1>7, <1>8, <1>11 DEF QueueInv, OwnerInv
  <1>13. FileHoldsCache'
    BY <1>1, <1>8, <1>12, ZenonT(40) DEF QueueInv, FileHoldsCache
  <1>14. StaleInv'
    BY <1>8, <1>10, <1>12 DEF QueueInv, StaleInv
  <1>15. /\ mem' \in [Hosts -> Seq(Event)] /\ mem'[h] = <<>>
         /\ \A g \in Hosts : g # h => mem'[g] = mem[g]
    BY <1>1 DEF SpeakInv, ManagerTypes
  <1>16. ASSUME NEW e \in Unsent
         PROVE  e \in Unsent' \/ e.n \in Settled'
    <2>1. OnDisk(file') \subseteq Unsent' /\ \A g \in Hosts : Elems(mem'[g]) \subseteq Unsent'
      BY Waits, ZenonT(40)
    <2>2. CASE e \in queued
      BY <1>9, <1>10, <2>1, <2>2
    <2>3. CASE e \in OnDisk(file) /\ e \notin queued
      <3>1. CASE file' = file
        BY <2>1, <2>3, <3>1
      <3>2. CASE Available(h)
        BY <1>10, <2>3, <3>2 DEF QueueInv, StaleInv, queued
      <3>. QED
        BY <1>2, <3>1, <3>2
    <2>4. ASSUME NEW g \in Hosts, e \in Elems(mem[g])
          PROVE  e \in Unsent' \/ e.n \in Settled'
      BY <1>15, <2>1, <2>2, <2>4, ZenonT(40) DEF queued
    <2>5. ASSUME NEW g \in Hosts, Available(g), e \in Elems(box[g].events)
          PROVE  e \in Unsent' \/ e.n \in Settled'
      <3>1. CASE g # h
        <4>1. Available(g)' /\ box'[g] = box[g]
          BY <1>7, <1>8, <2>5, <3>1
        <4>2. e \in Elems(box'[g].events)
          BY <2>5, <4>1
        <4>. QED
          BY <4>1, <4>2, Waits, ZenonT(40)
      <3>. QED
        BY <2>2, <2>5, <3>1 DEF queued
    <2>. QED
      BY <2>2, <2>3, <2>4, <2>5, Waits, ZenonT(40)
  <1>17. QueueInv' /\ Fresh
    <2>1. lock' \in Hosts \cup {None}
      BY <1>1 DEF QueueInv, OutboxTypes
    <2>. QED
      BY ZenonT(40), <1>1, <1>3, <1>5, <1>7, <1>9, <1>11, <1>13, <1>14, <2>1
      DEF QueueInv, OutboxTypes, FileType, Fresh
  <1>18. /\ sess' \in [Hosts -> Session] /\ ~(sess'[h].at \in {"on", "up"})
         /\ \A g \in Hosts : sess'[g].id = sess[g].id /\ (g # h => sess'[g] = sess[g])
    BY <1>1 DEF SpeakInv, ManagerTypes, Session
  <1>19. /\ up' \in [Hosts -> Upload] /\ up'[h].at = "idle"
         /\ \A g \in Hosts : g # h => up'[g] = up[g]
    BY <1>1 DEF SpeakInv, ManagerTypes, Upload, Idle
  <1>20. Elems(mem'[h]) = {}
    BY <1>15 DEF Elems
  <1>21. ManagerTypes'
    BY <1>1, <1>15, <1>18, <1>19 DEF SpeakInv, ManagerTypes, Active
  <1>22. MemoryInv'
    BY <1>15, <1>18, <1>20 DEF SpeakInv, MemoryInv
  <1>23. OneIdentity'
    BY <1>18, <1>19, IdentityKept, Zenon DEF SpeakInv
  <1>. QED
    BY <1>10, <1>16, <1>17, <1>21, <1>22, <1>23 DEF HostKeeps, SpeakInv, Carried

-----------------------------------------------------------------------------
(* Hosts and broker together *)

\* What every step of the broker keeps.
BrokerKeeps == IngestTypes' /\ CountInv' /\ Received \subseteq Received'

\* A step that keeps both sides leaves every event accounted for.
LEMMA AccountedStep ==
  ASSUME TelemetryInv, HostKeeps, BrokerKeeps
  PROVE  TelemetryInv'
  <1>1. /\ Settled \subseteq Settled' /\ made \in 0..MaxEvents /\ made' \in 0..MaxEvents
        /\ \A e \in Unsent : e \in Unsent' \/ e.n \in Settled'
    BY DEF TelemetryInv, TypeOK, OutboxTypes, HostKeeps, Carried, QueueInv
  <1>2. ASSUME NEW n \in 1..made'
        PROVE  n \in Settled' \cup Ids(Unsent')
    <2>1. n \in 1..made \/ (n = made + 1 /\ made' = made + 1)
      BY <1>1 DEF HostKeeps, Fresh
    <2>2. CASE n \in 1..made
      <3>1. n \in Settled \/ n \in Ids(Unsent)
        BY <2>2 DEF TelemetryInv, Accounted, Settled
      <3>2. CASE n \in Ids(Unsent)
        <4>1. PICK e \in Unsent : n = e.n
          BY <3>2 DEF Ids
        <4>. QED
          BY <1>1, <4>1, ZenonT(40) DEF Ids
      <3>. QED
        BY <1>1, <3>1, <3>2
    <2>3. CASE n = made + 1 /\ made' = made + 1
      BY <1>1, <2>3 DEF HostKeeps, Fresh
    <2>. QED
      BY <2>1, <2>2, <2>3
  <1>3. ASSUME NEW n \in 1..made', backend' = "postgres"
        PROVE  counted'[n] <= 1
    <2>1. n \in Numbers
      BY <1>1, OutboxAssumption DEF Numbers
    <2>. QED
      BY <1>3, <2>1 DEF BrokerKeeps, CountInv
  <1>4. Accounted'
    BY <1>2, <1>3 DEF Accounted, Settled
  <1>. QED
    BY <1>4 DEF HostKeeps, BrokerKeeps, TelemetryInv, TypeOK, QueueInv, SpeakInv

\* Where no host moves and nothing that was received goes away.
LEMMA HostsStill ==
  ASSUME QueueInv, SpeakInv, Received \subseteq Received', luck' \in 0..Trouble,
         UNCHANGED <<file, lock, box, lag, made, gone, managerVars>>
  PROVE  HostKeeps
  <1>1. Settled \subseteq Settled' /\ UNCHANGED <<begun, sess, mem, up>>
    BY DEF Settled, managerVars
  <1>2. OwnerInv' /\ FileHoldsCache' /\ StaleInv' /\ Carried
    BY <1>1, StillKeeps
  <1>3. QueueInv' /\ Fresh
    BY <1>2 DEF QueueInv, OutboxTypes, Fresh
  <1>4. SpeakInv'
    <2>1. ManagerTypes' /\ MemoryInv'
      BY <1>1 DEF SpeakInv, ManagerTypes, MemoryInv, Active
    <2>2. OneIdentity'
      BY <1>1, IdentityFrame DEF SpeakInv
    <2>. QED
      BY <2>1, <2>2 DEF SpeakInv
  <1>. QED
    BY <1>2, <1>3, <1>4 DEF HostKeeps

\* Every step keeps the invariant.
LEMMA InvariantStep ==
  ASSUME SelectionSound, TelemetryInv, [Next]_vars
  PROVE  TelemetryInv'
  <1>0. /\ QueueInv /\ SpeakInv /\ IngestTypes /\ CountInv /\ SinkTypes
        /\ luck \in 0..Trouble
    BY DEF TelemetryInv, TypeOK, QueueInv, SpeakInv, IngestTypes, SinkTypes, OutboxTypes
  <1>1. ASSUME UNCHANGED ingestVars
        PROVE  BrokerKeeps /\ UNCHANGED Received
    BY <1>0, <1>1
    DEF BrokerKeeps, ingestVars, sinkVars, IngestTypes, CountInv, Received
  <1>2. ASSUME SinkTypes', Received \subseteq Received', CountInv',
               counted' \in [Numbers -> Nat], late' \subseteq SUBSET Event,
               UNCHANGED <<backend, relay, wiped>>
        PROVE  BrokerKeeps
    BY <1>0, <1>2 DEF BrokerKeeps, IngestTypes, SinkTypes
  <1>3. ASSUME NEW h \in Hosts, Recorder(h) \/ Uploader(h), UNCHANGED ingestVars
        PROVE  TelemetryInv'
    <2>1. UNCHANGED Received /\ BrokerKeeps
      BY <1>1, <1>3
    <2>2. CASE BeginSession(h) \/ MarkConnected(h) \/ Record(h) \/ Flush(h) \/ EndSession(h)
      BY <1>0, <2>1, <2>2, SessionStep, AccountedStep
    <2>3. CASE /\ ApplySessionAttributes(h, sess[h].id) \/ Close(h) \/ loadLocked(h)
               /\ UNCHANGED managerVars
      BY <1>0, <2>1, <2>3, OutboxStep, AccountedStep
    <2>4. CASE migrateFallbackLocked(h)
      BY <1>0, <2>1, <2>4, MigrateStep, AccountedStep
    <2>5. CASE Heartbeat(h) \/ FlushNextBatch(h)
      BY <1>0, <2>1, <2>5, SendStep, AccountedStep
    <2>. QED
      BY <1>3, <2>2, <2>3, <2>4, <2>5, ZenonT(40) DEF Recorder, Uploader
  <1>4. ASSUME NEW h \in Hosts, Served(h)
        PROVE  TelemetryInv'
    <2>1. PICK answer : telemetryHandler(up[h].batch, answer) /\ Answered(h, answer)
      BY <1>4 DEF Served
    <2>2. UNCHANGED <<late, backend, relay, wiped>>
      BY <1>4 DEF Served, requestFrame
    <2>3. up[h].batch \in SUBSET Event /\ late \subseteq SUBSET Event
      BY <1>0 DEF SpeakInv, ManagerTypes, Upload, IngestTypes
    <2>4. /\ SinkTypes' /\ Received \subseteq Received'
          /\ answer = "ok" => Ids(up[h].batch) \subseteq Received'
          /\ answer = "failed" => luck' \in 0..Trouble
          /\ counted' \in [Numbers -> Nat] /\ CountInv'
      BY ZenonT(40), <1>0, <2>1, <2>2, <2>3, HandlerStep
    <2>5. HostKeeps
      BY <1>0, <2>1, <2>4, AnsweredStep
    <2>6. BrokerKeeps
      BY <1>2, <2>2, <2>3, <2>4
    <2>. QED
      BY <2>5, <2>6, AccountedStep
  <1>5. ASSUME NEW h \in Hosts, Unanswered(h)
        PROVE  TelemetryInv'
    <2>1. GoesWrong /\ Answered(h, "failed") /\ UNCHANGED <<backend, relay, wiped>>
      BY <1>5 DEF Unanswered, requestFrame
    <2>2. up[h].batch \in SUBSET Event /\ late \subseteq SUBSET Event
      BY <1>0 DEF SpeakInv, ManagerTypes, Upload, IngestTypes
    <2>3. luck' \in 0..Trouble
      BY <1>0, <2>1, OutboxAssumption DEF GoesWrong
    <2>4. CASE Accepted(up[h].batch) /\ UNCHANGED late
      <3>1. /\ SinkTypes' /\ Received \subseteq Received'
            /\ counted' \in [Numbers -> Nat] /\ CountInv'
        BY <1>0, <2>1, <2>2, <2>4, AcceptedStep
      <3>2. HostKeeps
        BY <1>0, <2>1, <2>3, <3>1, AnsweredStep
      <3>3. BrokerKeeps
        BY <1>2, <2>1, <2>2, <2>4, <3>1
      <3>. QED
        BY <3>2, <3>3, AccountedStep
    <2>5. CASE late' = late \cup {up[h].batch} /\ UNCHANGED <<sinkVars, counted>>
      <3>1. SinkTypes' /\ Received' = Received
        BY <1>0, <2>1, <2>5 DEF sinkVars, SinkTypes, Received
      <3>2. counted' \in [Numbers -> Nat] /\ CountInv' /\ late' \subseteq SUBSET Event
        BY <1>0, <2>1, <2>2, <2>5, ZenonT(40) DEF CountInv, IngestTypes
      <3>3. HostKeeps
        BY <1>0, <2>1, <2>3, <3>1, AnsweredStep
      <3>4. BrokerKeeps
        BY <1>2, <2>1, <3>1, <3>2
      <3>. QED
        BY <3>3, <3>4, AccountedStep
    <2>. QED
      BY <1>5, <2>4, <2>5 DEF Unanswered
  <1>6. ASSUME NEW h \in Hosts, Dies(h)
        PROVE  TelemetryInv'
    <2>1. /\ Crash(h) /\ UNCHANGED <<backend, relay, wiped, counted, sinkVars>>
          /\ late' = late \/ late' = late \cup {up[h].batch}
      BY <1>6 DEF Dies, requestFrame
    <2>2. up[h].batch \in SUBSET Event /\ late \subseteq SUBSET Event
      BY <1>0 DEF SpeakInv, ManagerTypes, Upload, IngestTypes
    <2>3. SinkTypes' /\ UNCHANGED Received
      BY <1>0, <2>1 DEF sinkVars, SinkTypes, Received
    <2>4. counted' \in [Numbers -> Nat] /\ CountInv' /\ late' \subseteq SUBSET Event
      BY <1>0, <2>1, <2>2, ZenonT(40) DEF CountInv, IngestTypes
    <2>5. HostKeeps
      BY <1>0, <2>1, <2>3, CrashStep
    <2>6. BrokerKeeps
      BY ZenonT(40), <1>2, <2>1, <2>3, <2>4
    <2>. QED
      BY <2>5, <2>6, AccountedStep
  <1>7. ASSUME NEW batch \in late, ServedLate(batch)
        PROVE  TelemetryInv'
    <2>1. /\ late' = late \ {batch}
          /\ UNCHANGED <<backend, relay, wiped, file, lock, box, lag, made, gone, managerVars>>
      BY <1>7 DEF ServedLate, requestFrame
    <2>2. PICK answer : telemetryHandler(batch, answer) /\ (answer # "failed" => Smooth)
      BY <1>7 DEF ServedLate
    <2>3. batch \in SUBSET Event /\ late' \subseteq SUBSET Event
      BY <1>0, <2>1 DEF IngestTypes
    <2>4. /\ SinkTypes' /\ Received \subseteq Received'
          /\ answer = "failed" => luck' \in 0..Trouble
          /\ counted' \in [Numbers -> Nat] /\ CountInv'
      BY <1>0, <2>1, <2>2, <2>3, HandlerStep
    <2>5. luck' \in 0..Trouble
      BY <1>0, <2>2, <2>4 DEF Smooth
    <2>6. HostKeeps
      BY <1>0, <2>1, <2>4, <2>5, HostsStill
    <2>7. BrokerKeeps
      BY <1>2, <2>1, <2>3, <2>4
    <2>. QED
      BY <2>6, <2>7, AccountedStep
  <1>8. ASSUME Sink \/ insertBatchFails, UNCHANGED brokerFrame
        PROVE  TelemetryInv'
    <2>1. UNCHANGED <<backend, relay, wiped, counted, late, file, lock, box, lag, made, gone,
                      managerVars>>
      BY <1>8 DEF brokerFrame
    <2>2. SinkTypes' /\ Received \subseteq Received'
      BY <1>0, <1>8, <2>1, SinkStep
    <2>3. counted' \in [Numbers -> Nat] /\ CountInv' /\ late' \subseteq SUBSET Event
      BY <1>0, <2>1 DEF CountInv, IngestTypes
    <2>4. luck' \in 0..Trouble
      <3>1. Smooth \/ GoesWrong
        BY <1>8, ZenonT(40)
        DEF Sink, flush, PutBack, flushLocked, insertBatchFails, Smooth
      <3>. QED
        BY <1>0, <3>1, OutboxAssumption DEF Smooth, GoesWrong
    <2>5. HostKeeps
      BY <1>0, <2>1, <2>2, <2>4, HostsStill
    <2>6. BrokerKeeps
      BY <1>2, <2>1, <2>2, <2>3
    <2>. QED
      BY <2>5, <2>6, AccountedStep
  <1>9. ASSUME RelayReturns, UNCHANGED <<outboxVars, managerVars>>
        PROVE  TelemetryInv'
    <2>1. /\ relay' = "known" /\ UNCHANGED <<backend, sinkVars, wiped, counted, late>>
          /\ UNCHANGED <<file, lock, box, lag, made, gone, luck, managerVars>>
      BY <1>9 DEF RelayReturns, outboxVars
    <2>2. BrokerKeeps /\ UNCHANGED Received
      BY <1>0, <2>1 DEF BrokerKeeps, sinkVars, IngestTypes, CountInv, Received
    <2>3. HostKeeps
      BY <1>0, <2>1, <2>2, HostsStill
    <2>. QED
      BY <2>2, <2>3, AccountedStep
  <1>10. ASSUME BrokerRestart,
                UNCHANGED <<file, lock, box, lag, made, gone, managerVars>>
         PROVE  TelemetryInv'
    <2>1. BrokerKeeps
      BY <1>0, <1>10, RestartStep DEF BrokerKeeps
    <2>2. luck' \in 0..Trouble
      BY <1>0, <1>10, OutboxAssumption DEF BrokerRestart, GoesWrong
    <2>3. HostKeeps
      BY <1>0, <1>10, <2>1, <2>2, HostsStill DEF BrokerKeeps
    <2>. QED
      BY <2>1, <2>3, AccountedStep
  <1>11. CASE UNCHANGED vars
    <2>1. UNCHANGED <<file, lock, box, lag, made, gone, luck, managerVars, ingestVars>>
      BY <1>11 DEF vars, outboxVars
    <2>2. BrokerKeeps /\ UNCHANGED Received
      BY <1>1, <2>1
    <2>3. HostKeeps
      BY <1>0, <2>1, <2>2, HostsStill
    <2>. QED
      BY <2>2, <2>3, AccountedStep
  <1>. QED
    BY <1>3, <1>4, <1>5, <1>6, <1>7, <1>8, <1>9, <1>10, <1>11 DEF Next
=============================================================================

--------------------------- MODULE EventStreamProofs ---------------------------
(* What the way of an event to a remote browser promises, for every size of    *)
(* its three buffers and every number of events: nothing is lost in silence,   *)
(* and previews arrive in order. The second is needed for the first: what the  *)
(* relay coalesces is made up for by the newer preview only if it is newer.    *)
EXTENDS EventStream, SequenceTheorems, WellFoundedInduction, TLAPS

--------------------------------------------------------------------------------
(* Sequences.                                                                  *)
LEMMA AppendRange ==
  ASSUME NEW S, NEW s \in Seq(S), NEW e \in S
  PROVE  /\ Append(s, e) \in Seq(S) /\ Append(s, e) # <<>>
         /\ Len(Append(s, e)) = Len(s) + 1
         /\ \A i \in 1..Len(s) : Append(s, e)[i] = s[i]
         /\ Append(s, e)[Len(s) + 1] = e
         /\ Range(Append(s, e)) = Range(s) \cup {e}
<1>1. /\ Append(s, e) \in Seq(S) /\ Append(s, e) # <<>>
      /\ Len(Append(s, e)) = Len(s) + 1
      /\ \A i \in 1..Len(s) : Append(s, e)[i] = s[i]
      /\ Append(s, e)[Len(s) + 1] = e
  OBVIOUS
<1>2. DOMAIN Append(s, e) = 1..(Len(s) + 1) /\ DOMAIN s = 1..Len(s) /\ Len(s) \in Nat
  OBVIOUS
<1>3. \A i \in 1..(Len(s) + 1) : i \in 1..Len(s) \/ i = Len(s) + 1
  BY <1>2
<1>4. Range(Append(s, e)) \subseteq Range(s) \cup {e}
  BY <1>1, <1>2, <1>3 DEF Range
<1>5. Range(s) \subseteq Range(Append(s, e))
  BY <1>1, <1>2 DEF Range
<1>6. e \in Range(Append(s, e))
  BY <1>1, <1>2 DEF Range
<1> QED BY <1>1, <1>4, <1>5, <1>6

LEMMA TailRange ==
  ASSUME NEW S, NEW s \in Seq(S), s # <<>>
  PROVE  /\ Tail(s) \in Seq(S) /\ Head(s) \in S /\ Len(Tail(s)) + 1 = Len(s) /\ Head(s) = s[1]
         /\ \A i \in 1..Len(Tail(s)) : Tail(s)[i] = s[i + 1] /\ i + 1 \in 1..Len(s)
         /\ Range(s) = Range(Tail(s)) \cup {Head(s)}
<1>1. /\ Tail(s) \in Seq(S) /\ Head(s) \in S /\ Len(Tail(s)) + 1 = Len(s) /\ Head(s) = s[1]
      /\ \A i \in 1..Len(Tail(s)) : Tail(s)[i] = s[i + 1] /\ i + 1 \in 1..Len(s)
  OBVIOUS
<1>2. DOMAIN Tail(s) = 1..Len(Tail(s)) /\ DOMAIN s = 1..Len(s) /\ Len(s) \in Nat /\ Len(Tail(s)) \in Nat
  BY <1>1
<1>3. Range(Tail(s)) \subseteq Range(s)
  BY <1>1, <1>2 DEF Range
<1>4. Head(s) \in Range(s)
  BY <1>1, <1>2 DEF Range
<1>5. ASSUME NEW i \in 1..Len(s), i # 1
      PROVE  s[i] \in Range(Tail(s))
  <2>1. i - 1 \in 1..Len(Tail(s)) /\ (i - 1) + 1 = i
    BY <1>1, <1>2, <1>5
  <2>2. Tail(s)[i - 1] = s[i]
    BY <1>1, <2>1
  <2> QED BY <1>2, <2>1, <2>2 DEF Range
<1>6. Range(s) \subseteq Range(Tail(s)) \cup {Head(s)}
  BY <1>1, <1>2, <1>5 DEF Range
<1> QED BY <1>1, <1>3, <1>4, <1>6

LEMMA RemoveAtRange ==
  ASSUME NEW S, NEW s \in Seq(S), NEW i \in 1..Len(s)
  PROVE  /\ RemoveAt(s, i) \in Seq(S) /\ Len(RemoveAt(s, i)) + 1 = Len(s)
         /\ \A j \in 1..Len(RemoveAt(s, i)) :
              RemoveAt(s, i)[j] = IF j < i THEN s[j] ELSE s[j + 1]
<1> DEFINE a == SubSeq(s, 1, i - 1)
           b == SubSeq(s, i + 1, Len(s))
<1>1. a \in Seq(S) /\ Len(a) = i - 1 /\ \A j \in 1..Len(a) : a[j] = s[j]
  OBVIOUS
<1>2. b \in Seq(S) /\ Len(b) = Len(s) - i /\ \A j \in 1..Len(b) : b[j] = s[i + j]
  OBVIOUS
<1>3. RemoveAt(s, i) = a \o b
  BY DEF RemoveAt
<1> HIDE DEF a, b
<1>4. /\ a \o b \in Seq(S) /\ Len(a \o b) = Len(a) + Len(b)
      /\ \A j \in 1..(Len(a) + Len(b)) : (a \o b)[j] = IF j <= Len(a) THEN a[j] ELSE b[j - Len(a)]
  BY <1>1, <1>2, ConcatProperties
<1>5. Len(s) \in Nat /\ Len(a) + Len(b) + 1 = Len(s) /\ Len(a) + Len(b) \in Nat
  BY <1>1, <1>2
<1>6. ASSUME NEW j \in 1..(Len(a) + Len(b))
      PROVE  (a \o b)[j] = IF j < i THEN s[j] ELSE s[j + 1]
  <2>1. CASE j < i
    <3>1. j \in 1..Len(a) /\ j <= Len(a)
      BY <1>1, <1>5, <2>1
    <3>2. (a \o b)[j] = a[j]
      BY <1>4, <3>1
    <3> QED BY <1>1, <2>1, <3>1, <3>2
  <2>2. CASE ~(j < i)
    <3>1. j - Len(a) \in 1..Len(b) /\ ~(j <= Len(a)) /\ i + (j - Len(a)) = j + 1
      BY <1>1, <1>2, <1>5, <2>2
    <3>2. (a \o b)[j] = b[j - Len(a)]
      BY <1>4, <3>1
    <3> QED BY <1>2, <2>2, <3>1, <3>2
  <2> QED BY <2>1, <2>2
<1> QED BY <1>3, <1>4, <1>5, <1>6

(* A set of naturals has a least member, and one of 1..n a greatest.           *)
LEMMA NatMin ==
  ASSUME NEW S \in SUBSET Nat, S # {}
  PROVE  \E i \in S : \A j \in S : i <= j
<1> DEFINE R == OpToRel(<, Nat)
<1>1. \E i \in S : \A j \in S : ~(<<j, i>> \in R)
  BY WFMin, NatLessThanWellFounded
<1>2. \A i, j \in Nat : j < i => <<j, i>> \in R
  BY DEF OpToRel
<1> HIDE DEF R
<1>3. PICK i \in S : \A j \in S : ~(<<j, i>> \in R)
  BY <1>1
<1>4. ASSUME NEW j \in S PROVE i <= j
  <2>1. i \in Nat /\ j \in Nat /\ ~(<<j, i>> \in R)
    BY <1>3
  <2>2. ~(j < i)
    BY <1>2, <2>1
  <2> QED BY <2>1, <2>2
<1> QED BY <1>4

LEMMA NatMax ==
  ASSUME NEW n \in Nat, NEW S \in SUBSET (1..n), S # {}
  PROVE  \E i \in S : \A j \in S : j <= i
<1> DEFINE T == {n - i : i \in S}
<1>1. T \in SUBSET Nat /\ T # {}
  <2>1. \A i \in S : n - i \in Nat
    OBVIOUS
  <2> QED BY <2>1
<1>2. PICK k \in T : \A j \in T : k <= j
  BY <1>1, NatMin
<1>3. PICK i \in S : k = n - i
  BY <1>2
<1>4. ASSUME NEW j \in S PROVE j <= i
  <2>1. n - j \in T
    OBVIOUS
  <2>2. k <= n - j
    BY <1>2, <2>1
  <2> QED BY <1>3, <2>2
<1> QED BY <1>4
--------------------------------------------------------------------------------
(* Types. Events are numbers from 1, a marker is 0.                            *)
Entries == [seq : Nat, ev : Nat]
Hands == [at : {"get", "marker", "gap", "event"}, ev : Nat]

TypeInv ==
  /\ kind \in Seq(Kinds)
  /\ handoff \in Seq(Nat) /\ queue \in Seq(Entries)
  /\ seq \in Nat /\ nextSeq \in Nat
  /\ ws \in Hands /\ owes \in BOOLEAN
  /\ wire \in Seq(Nat) /\ buffer \in Seq(Nat) /\ gapPending \in BOOLEAN
  /\ pump \in Hands
  /\ delivered \in Seq(Nat) /\ covered \in Nat

(* The numbers of the subscription: those queued are the last ones given, and  *)
(* the next one expected is not past the first of them.                        *)
Numbered ==
  /\ \A i \in 1..Len(queue) : queue[i].seq + Len(queue) = seq + i
  /\ nextSeq + Len(queue) <= seq + 1

(* A marker that the guard owes goes ahead of every event but a marker.        *)
OwedAhead == ws.at = "event" /\ owes => ws.ev = Marker

(* The order of the previews along the way. *)
Before(x, y) == Coalesced(x) /\ Coalesced(y) => x < y
Precede(A, B) == \A x \in A, y \in B : Before(x, y)
Sorted(s) == \A i, j \in 1..Len(s) : i < j => Before(s[i], s[j])
QueueSorted == \A i, j \in 1..Len(queue) : i < j => Before(queue[i].ev, queue[j].ev)

QueueEvs == {q.ev : q \in Range(queue)}
PastWs == QueueEvs
PastWire == InHand(ws) \cup PastWs
PastBuffer == Range(wire) \cup PastWire
PastPump == Range(buffer) \cup PastBuffer
PastBrowser == InHand(pump) \cup PastPump
OnTheWay == Range(delivered) \cup PastBrowser

InOrder ==
  /\ Sorted(delivered) /\ Sorted(buffer) /\ Sorted(wire) /\ QueueSorted
  /\ Precede(Range(delivered), PastBrowser)
  /\ Precede(InHand(pump), PastPump)
  /\ Precede(Range(buffer), PastBuffer)
  /\ Precede(Range(wire), PastWire)
  /\ Precede(InHand(ws), PastWs)

(* What other threads publish is not coalesced; what is on the way has been    *)
(* published.                                                                  *)
Published ==
  /\ \A x \in OnTheWay : x \in Nat /\ x <= Len(kind)
  /\ \A x \in Range(handoff) : x \in Nat /\ x <= Len(kind) /\ ~Coalesced(x)

StreamInv == TypeInv /\ Numbered /\ OwedAhead /\ Published /\ InOrder /\ NoSilentLoss

--------------------------------------------------------------------------------
(* What the operations do to the queue and to the buffer.                      *)
LEMMA InQueue ==
  ASSUME TypeInv
  PROVE  /\ \A i \in 1..Len(queue) : queue[i] \in Entries /\ queue[i].ev \in QueueEvs
         /\ \A x \in QueueEvs : \E i \in 1..Len(queue) : queue[i].ev = x
BY DEF TypeInv, QueueEvs, Range

LEMMA EntryOf ==
  ASSUME NEW s \in Seq(Entries), NEW i \in 1..Len(s)
  PROVE  s[i] \in Entries /\ s[i].seq \in Nat /\ s[i].ev \in Nat
<1>1. s[i] \in Entries
  OBVIOUS
<1> QED BY <1>1 DEF Entries

(* _offer: the event is last in the queue; what was there stays, or the oldest *)
(* is gone and the numbers show it.                                            *)
LEMMA Offered ==
  ASSUME TypeInv, Numbered, NEW e \in Nat, Offer(e)
  PROVE  /\ queue' \in Seq(Entries) /\ seq' \in Nat /\ nextSeq' = nextSeq
         /\ Numbered' /\ queue' # <<>>
         /\ QueueEvs' \subseteq QueueEvs \cup {e} /\ e \in QueueEvs'
         /\ \/ /\ QueueEvs' = QueueEvs \cup {e}
               /\ queue # <<>> => Head(queue') = Head(queue)
            \/ Head(queue').seq # nextSeq
         /\ \A i, j \in 1..Len(queue') : i < j =>
              \/ queue'[i].ev \in QueueEvs /\ queue'[j].ev = e
              \/ \E k, l \in 1..Len(queue) : k < l /\ queue'[i] = queue[k] /\ queue'[j] = queue[l]
<1> DEFINE x == [seq |-> seq + 1, ev |-> e]
<1>1. /\ queue \in Seq(Entries) /\ seq \in Nat /\ nextSeq \in Nat /\ x \in Entries
      /\ Len(queue) \in Nat /\ x.seq = seq + 1 /\ x.ev = e /\ seq' = seq + 1 /\ nextSeq' = nextSeq
  BY DEF TypeInv, Offer, Entries
<1>2. CASE Len(queue) < SubscriberMax
  <2>1. queue' = Append(queue, x)
    BY <1>2 DEF Offer
  <2> HIDE DEF x
  <2>2. /\ queue' \in Seq(Entries) /\ queue' # <<>> /\ Len(queue') = Len(queue) + 1
        /\ \A i \in 1..Len(queue) : queue'[i] = queue[i]
        /\ queue'[Len(queue) + 1] = x
        /\ Range(queue') = Range(queue) \cup {x}
    BY <1>1, <2>1, AppendRange
  <2>3. QueueEvs' = QueueEvs \cup {e}
    BY <1>1, <2>2 DEF QueueEvs
  <2>4. \A i \in 1..Len(queue') : i \in 1..Len(queue) \/ i = Len(queue) + 1
    BY <1>1, <2>2
  <2>5. Numbered'
    <3>1. \A i \in 1..Len(queue') : queue'[i].seq + Len(queue') = seq' + i
      <4> SUFFICES ASSUME NEW i \in 1..Len(queue')
                   PROVE  queue'[i].seq + Len(queue') = seq' + i
        OBVIOUS
      <4>1. CASE i \in 1..Len(queue)
        <5>1. queue[i].seq + Len(queue) = seq + i
          BY <4>1 DEF Numbered
        <5>2. queue[i].seq \in Nat /\ queue'[i].seq = queue[i].seq /\ i \in Nat
          BY <1>1, <2>2, <4>1, EntryOf
        <5>3. Len(queue') = Len(queue) + 1 /\ seq' = seq + 1 /\ Len(queue) \in Nat /\ seq \in Nat
          BY <1>1, <2>2
        <5> QED BY <5>1, <5>2, <5>3
      <4>2. CASE i = Len(queue) + 1
        BY <1>1, <2>2, <4>2
      <4> QED BY <2>4, <4>1, <4>2
    <3>2. nextSeq' + Len(queue') <= seq' + 1
      BY <1>1, <2>2 DEF Numbered
    <3> QED BY <3>1, <3>2 DEF Numbered
  <2>6. queue # <<>> => Head(queue') = Head(queue)
    BY <1>1, <2>2
  <2>7. ASSUME NEW i \in 1..Len(queue'), NEW j \in 1..Len(queue'), i < j
        PROVE  \/ queue'[i].ev \in QueueEvs /\ queue'[j].ev = e
               \/ \E k, l \in 1..Len(queue) : k < l /\ queue'[i] = queue[k] /\ queue'[j] = queue[l]
    <3>1. i \in 1..Len(queue)
      BY <1>1, <2>2, <2>7
    <3>2. CASE j \in 1..Len(queue)
      BY <2>2, <2>7, <3>1, <3>2
    <3>3. CASE j = Len(queue) + 1
      <4>1. queue'[i] = queue[i] /\ queue'[j] = x
        BY <2>2, <3>1, <3>3
      <4> QED BY <1>1, <3>1, <4>1, InQueue
    <3> QED BY <2>4, <3>2, <3>3
  <2>8. \A i, j \in 1..Len(queue') : i < j =>
          \/ queue'[i].ev \in QueueEvs /\ queue'[j].ev = e
          \/ \E k, l \in 1..Len(queue) : k < l /\ queue'[i] = queue[k] /\ queue'[j] = queue[l]
    BY <2>7
  <2>9. /\ queue' \in Seq(Entries) /\ seq' \in Nat /\ nextSeq' = nextSeq /\ queue' # <<>>
        /\ QueueEvs' \subseteq QueueEvs \cup {e} /\ e \in QueueEvs'
    BY <1>1, <2>2, <2>3
  <2> QED BY <2>3, <2>5, <2>6, <2>8, <2>9
<1>3. CASE ~(Len(queue) < SubscriberMax)
  <2> DEFINE t == Tail(queue)
  <2>0. queue # <<>> /\ queue' = Append(t, x)
    BY <1>1, <1>3, EventStreamAssumption DEF Offer
  <2>1. /\ t \in Seq(Entries) /\ Len(t) + 1 = Len(queue) /\ Len(t) \in Nat
        /\ \A i \in 1..Len(t) : t[i] = queue[i + 1] /\ i + 1 \in 1..Len(queue)
        /\ Range(queue) = Range(t) \cup {Head(queue)}
    BY <1>1, <2>0, TailRange
  <2> HIDE DEF x, t
  <2>2. /\ queue' \in Seq(Entries) /\ queue' # <<>> /\ Len(queue') = Len(t) + 1
        /\ \A i \in 1..Len(t) : queue'[i] = t[i]
        /\ queue'[Len(t) + 1] = x
        /\ Range(queue') = Range(t) \cup {x}
    BY <1>1, <2>0, <2>1, AppendRange
  <2>3. QueueEvs' \subseteq QueueEvs \cup {e} /\ e \in QueueEvs'
    BY <1>1, <2>1, <2>2 DEF QueueEvs
  <2>4. \A i \in 1..Len(queue') : i \in 1..Len(t) \/ i = Len(t) + 1
    BY <2>1, <2>2
  <2>5. \A i \in 1..Len(queue') : queue'[i].seq + Len(queue') = seq' + i
    <3> SUFFICES ASSUME NEW i \in 1..Len(queue')
                 PROVE  queue'[i].seq + Len(queue') = seq' + i
      OBVIOUS
    <3>1. CASE i \in 1..Len(t)
      <4>1. queue'[i] = queue[i + 1] /\ i + 1 \in 1..Len(queue) /\ i \in Nat
        BY <2>1, <2>2, <3>1
      <4>2. queue[i + 1].seq + Len(queue) = seq + (i + 1)
        BY <4>1 DEF Numbered
      <4>3. queue[i + 1].seq \in Nat
        BY <1>1, <4>1, EntryOf
      <4>4. queue'[i].seq = queue[i + 1].seq /\ Len(queue') = Len(queue) /\ seq' = seq + 1
        BY <1>1, <2>1, <2>2, <4>1
      <4> QED BY <1>1, <4>1, <4>2, <4>3, <4>4
    <3>2. CASE i = Len(t) + 1
      BY <1>1, <2>1, <2>2, <3>2
    <3> QED BY <2>4, <3>1, <3>2
  <2>6. nextSeq + Len(queue) <= seq + 1
    BY DEF Numbered
  <2>7. nextSeq' + Len(queue') <= seq' + 1
    BY <1>1, <2>1, <2>2, <2>6
  <2>8. Head(queue').seq # nextSeq
    <3>0. 1 \in 1..Len(queue') /\ Head(queue') = queue'[1]
      BY <2>1, <2>2
    <3>1. Head(queue') = queue'[1] /\ 1 \in 1..Len(queue') /\ queue'[1].seq \in Nat
      BY <2>2, <3>0, EntryOf
    <3>2. queue'[1].seq + Len(queue') = seq' + 1
      BY <2>5, <3>1
    <3> QED BY <1>1, <2>1, <2>2, <2>6, <3>1, <3>2
  <2>9. ASSUME NEW i \in 1..Len(queue'), NEW j \in 1..Len(queue'), i < j
        PROVE  \/ queue'[i].ev \in QueueEvs /\ queue'[j].ev = e
               \/ \E k, l \in 1..Len(queue) : k < l /\ queue'[i] = queue[k] /\ queue'[j] = queue[l]
    <3>1. i \in 1..Len(t)
      BY <2>1, <2>2, <2>9
    <3>2. queue'[i] = queue[i + 1] /\ i + 1 \in 1..Len(queue)
      BY <2>1, <2>2, <3>1
    <3>3. CASE j \in 1..Len(t)
      <4>1. queue'[j] = queue[j + 1] /\ j + 1 \in 1..Len(queue) /\ i + 1 < j + 1
        BY <2>1, <2>2, <2>9, <3>3
      <4> QED BY <3>2, <4>1
    <3>4. CASE j = Len(t) + 1
      <4>1. queue'[j] = x
        BY <2>2, <3>4
      <4> QED BY <1>1, <3>2, <4>1, InQueue
    <3> QED BY <2>4, <3>3, <3>4
  <2> QED BY <1>1, <2>2, <2>3, <2>5, <2>7, <2>8, <2>9 DEF Numbered
<1> QED BY <1>2, <1>3

(* A read of the subscription, as _run_ws takes it. *)
LEMMA Taken ==
  ASSUME TypeInv, Numbered, WsTake
  PROVE  /\ queue' \in Seq(Entries) /\ nextSeq' \in Nat /\ Numbered' /\ NextRead \in Nat
         /\ \/ NextRead = Marker /\ queue' = queue
            \/ /\ queue' = Tail(queue) /\ Head(queue).seq = nextSeq
               /\ NextRead = Head(queue).ev /\ Head(queue) = queue[1]
               /\ QueueEvs = QueueEvs' \cup {NextRead}
<1>1. /\ queue \in Seq(Entries) /\ queue # <<>> /\ nextSeq \in Nat /\ seq \in Nat /\ seq' = seq
      /\ Len(queue) \in Nat
  BY DEF TypeInv, WsTake
<1>2. Head(queue) = queue[1] /\ 1 \in 1..Len(queue)
  BY <1>1
<1>3. queue[1].seq \in Nat /\ queue[1].ev \in Nat
  BY <1>1, <1>2, EntryOf
<1>4. queue[1].seq + Len(queue) = seq + 1
  BY <1>2 DEF Numbered
<1>5. CASE Head(queue).seq # nextSeq
  <2>1. NextRead = Marker /\ queue' = queue /\ nextSeq' = Head(queue).seq
    BY <1>5 DEF NextRead, WsTake
  <2>2. nextSeq' + Len(queue) <= seq + 1
    BY <1>1, <1>2, <1>3, <1>4, <2>1
  <2>3. Numbered'
    BY <1>1, <2>1, <2>2 DEF Numbered
  <2> QED BY <1>1, <1>2, <1>3, <2>1, <2>3 DEF Marker
<1>6. CASE Head(queue).seq = nextSeq
  <2>1. NextRead = Head(queue).ev /\ queue' = Tail(queue) /\ nextSeq' = Head(queue).seq + 1
    BY <1>6 DEF NextRead, WsTake
  <2>2. /\ queue' \in Seq(Entries) /\ Len(queue') + 1 = Len(queue) /\ Len(queue') \in Nat
        /\ \A i \in 1..Len(queue') : queue'[i] = queue[i + 1] /\ i + 1 \in 1..Len(queue)
        /\ Range(queue) = Range(queue') \cup {Head(queue)}
    BY <1>1, <2>1, TailRange
  <2>3. nextSeq' + Len(queue') <= seq' + 1
    BY <1>1, <1>2, <1>3, <1>4, <2>1, <2>2
  <2>4. \A i \in 1..Len(queue') : queue'[i].seq + Len(queue') = seq' + i
    <3> SUFFICES ASSUME NEW i \in 1..Len(queue')
                 PROVE  queue'[i].seq + Len(queue') = seq' + i
      OBVIOUS
    <3>1. queue'[i] = queue[i + 1] /\ i + 1 \in 1..Len(queue) /\ i \in Nat
      BY <2>2
    <3>2. queue[i + 1].seq + Len(queue) = seq + (i + 1)
      BY <3>1 DEF Numbered
    <3>3. queue[i + 1].seq \in Nat
      BY <1>1, <3>1, EntryOf
    <3>4. queue'[i].seq = queue[i + 1].seq /\ Len(queue') + 1 = Len(queue) /\ seq' = seq
          /\ Len(queue') \in Nat /\ seq \in Nat
      BY <1>1, <2>2, <3>1
    <3> QED BY <3>1, <3>2, <3>3, <3>4
  <2>5. Numbered'
    BY <2>3, <2>4 DEF Numbered
  <2>6. QueueEvs = QueueEvs' \cup {NextRead}
    BY <2>1, <2>2 DEF QueueEvs
  <2>7. nextSeq' \in Nat /\ NextRead \in Nat
    BY <1>2, <1>3, <2>1
  <2> QED BY <1>2, <1>6, <2>1, <2>2, <2>5, <2>6, <2>7
<1> QED BY <1>5, <1>6

(* _enqueue_viewer: put at the end; in the slot of the newest preview; or at   *)
(* the end, one dropped and a marker owed.                                     *)
Coalesces(e, n) ==
  /\ n \in 1..Len(buffer) /\ Coalesced(e) /\ Coalesced(buffer[n])
  /\ \A i \in 1..Len(buffer) : Coalesced(buffer[i]) => i <= n
  /\ buffer' = [buffer EXCEPT ![n] = e] /\ gapPending' = gapPending

Drops(e, n) ==
  /\ n \in 1..Len(buffer)
  /\ buffer' = Append(RemoveAt(buffer, n), e) /\ gapPending' = TRUE

LEMMA Enqueued ==
  ASSUME TypeInv, NEW e \in Nat, Enqueue(e)
  PROVE  \/ buffer' = Append(buffer, e) /\ gapPending' = gapPending
         \/ \E n \in 1..Len(buffer) : Coalesces(e, n)
         \/ \E n \in 1..Len(buffer) : Drops(e, n)
<1>0. buffer \in Seq(Nat) /\ Len(buffer) \in Nat /\ DOMAIN buffer = 1..Len(buffer)
  BY DEF TypeInv
<1> DEFINE same == {i \in DOMAIN buffer : Coalesced(buffer[i])}
           rest == {i \in DOMAIN buffer : ~Coalesced(buffer[i])}
<1>1. Slots(Coalesced) = same /\ Slots(LAMBDA x : ~Coalesced(x)) = rest
  BY DEF Slots
<1>2. CASE Len(buffer) < EgressMax
  BY <1>2 DEF Enqueue
<1>3. CASE ~(Len(buffer) < EgressMax) /\ Coalesced(e) /\ same # {}
  <2>1. same \in SUBSET (1..Len(buffer))
    BY <1>0
  <2>2. \E i \in same : \A j \in same : j <= i
    BY <1>0, <1>3, <2>1, NatMax
  <2>3. SlotFor(same) \in same /\ \A j \in same : j <= SlotFor(same)
    BY <2>2 DEF SlotFor, Greatest
  <2>4. buffer' = [buffer EXCEPT ![SlotFor(same)] = e] /\ gapPending' = gapPending
    BY <1>1, <1>3 DEF Enqueue
  <2>5. Coalesces(e, SlotFor(same))
    BY <1>0, <1>3, <2>3, <2>4 DEF Coalesces
  <2> QED BY <1>0, <2>3, <2>5
<1>4. CASE ~(Len(buffer) < EgressMax) /\ ~(Coalesced(e) /\ same # {})
  <2>1. buffer' = Append(RemoveAt(buffer, DropSlot), e) /\ gapPending' = TRUE
    BY <1>1, <1>4 DEF Enqueue
  <2>2. DropSlot = IF rest # {} THEN Least(rest) ELSE 1
    BY <1>1 DEF DropSlot
  <2>3. rest \in SUBSET (1..Len(buffer)) /\ rest \in SUBSET Nat
    BY <1>0
  <2>4. rest # {} => Least(rest) \in rest
    <3>1. rest # {} => \E i \in rest : \A j \in rest : i <= j
      BY <2>3, NatMin
    <3> QED BY <3>1 DEF Least
  <2>5. 1 \in 1..Len(buffer)
    BY <1>0, <1>4, EventStreamAssumption
  <2>6. DropSlot \in 1..Len(buffer)
    BY <2>2, <2>3, <2>4, <2>5
  <2> QED BY <2>1, <2>6 DEF Drops
<1> QED BY <1>2, <1>3, <1>4

--------------------------------------------------------------------------------
(* The order is kept by what is appended, taken, replaced and dropped.         *)
LEMMA SortedAppend ==
  ASSUME NEW s \in Seq(Nat), NEW e \in Nat, Sorted(s), Precede(Range(s), {e})
  PROVE  Sorted(Append(s, e))
<1>1. /\ Len(Append(s, e)) = Len(s) + 1 /\ Len(s) \in Nat
      /\ \A i \in 1..Len(s) : Append(s, e)[i] = s[i] /\ s[i] \in Range(s)
      /\ Append(s, e)[Len(s) + 1] = e
  BY AppendRange DEF Range
<1> SUFFICES ASSUME NEW i \in 1..(Len(s) + 1), NEW j \in 1..(Len(s) + 1), i < j
             PROVE  Before(Append(s, e)[i], Append(s, e)[j])
  BY <1>1 DEF Sorted
<1>2. i \in 1..Len(s) /\ (j \in 1..Len(s) \/ j = Len(s) + 1)
  BY <1>1
<1>3. Append(s, e)[i] = s[i] /\ s[i] \in Range(s)
  BY <1>1, <1>2
<1>4. CASE j \in 1..Len(s)
  BY <1>1, <1>2, <1>3, <1>4 DEF Sorted
<1>5. CASE j = Len(s) + 1
  BY <1>1, <1>3, <1>5 DEF Precede
<1> QED BY <1>2, <1>4, <1>5

LEMMA SortedTail ==
  ASSUME NEW s \in Seq(Nat), s # <<>>, Sorted(s)
  PROVE  Sorted(Tail(s)) /\ Precede({Head(s)}, Range(Tail(s)))
<1>1. /\ Tail(s) \in Seq(Nat) /\ Len(Tail(s)) + 1 = Len(s) /\ Head(s) = s[1] /\ Len(Tail(s)) \in Nat
      /\ \A i \in 1..Len(Tail(s)) : Tail(s)[i] = s[i + 1] /\ i + 1 \in 1..Len(s)
  BY TailRange
<1>2. ASSUME NEW i \in 1..Len(Tail(s)), NEW j \in 1..Len(Tail(s)), i < j
      PROVE  Before(Tail(s)[i], Tail(s)[j])
  <2>1. i + 1 < j + 1 /\ i + 1 \in 1..Len(s) /\ j + 1 \in 1..Len(s)
    BY <1>1, <1>2
  <2>2. Before(s[i + 1], s[j + 1])
    BY <2>1 DEF Sorted
  <2> QED BY <1>1, <2>2
<1>3. ASSUME NEW y \in Range(Tail(s))
      PROVE  Before(Head(s), y)
  <2>1. PICK i \in 1..Len(Tail(s)) : Tail(s)[i] = y
    BY <1>1, <1>3 DEF Range
  <2>2. 1 < i + 1 /\ 1 \in 1..Len(s) /\ i + 1 \in 1..Len(s)
    BY <1>1, <2>1
  <2>3. Before(s[1], s[i + 1])
    BY <2>2 DEF Sorted
  <2> QED BY <1>1, <2>1, <2>3
<1> QED BY <1>2, <1>3 DEF Sorted, Precede

LEMMA SortedReplace ==
  ASSUME NEW s \in Seq(Nat), NEW e \in Nat, NEW n \in 1..Len(s), Sorted(s), Precede(Range(s), {e}),
         \A i \in 1..Len(s) : Coalesced(s[i]) => i <= n
  PROVE  LET r == [s EXCEPT ![n] = e] IN
         /\ r \in Seq(Nat) /\ Sorted(r)
         /\ Range(r) \subseteq Range(s) \cup {e} /\ e \in Range(r)
         /\ \A x \in Range(s) : x \in Range(r) \/ x = s[n]
<1> DEFINE r == [s EXCEPT ![n] = e]
<1>1. /\ r \in Seq(Nat) /\ Len(r) = Len(s) /\ DOMAIN r = 1..Len(s) /\ DOMAIN s = 1..Len(s) /\ Len(s) \in Nat
      /\ \A i \in 1..Len(s) : r[i] = IF i = n THEN e ELSE s[i]
  OBVIOUS
<1> HIDE DEF r
<1>2. ASSUME NEW i \in 1..Len(s), NEW j \in 1..Len(s), i < j
      PROVE  Before(r[i], r[j])
  <2>0. Before(s[i], s[j]) /\ s[i] \in Range(s)
    BY <1>1, <1>2 DEF Sorted, Range
  <2>1. CASE j = n
    BY <1>1, <1>2, <2>0, <2>1 DEF Precede
  <2>2. CASE i = n
    <3>1. r[j] = s[j] /\ ~Coalesced(s[j])
      BY <1>1, <1>2, <2>2
    <3> QED BY <3>1 DEF Before
  <2>3. CASE i # n /\ j # n
    BY <1>1, <2>0, <2>3
  <2> QED BY <2>1, <2>2, <2>3
<1>3. Range(r) \subseteq Range(s) \cup {e} /\ e \in Range(r)
  BY <1>1 DEF Range
<1>4. \A x \in Range(s) : x \in Range(r) \/ x = s[n]
  BY <1>1 DEF Range
<1> QED BY <1>1, <1>2, <1>3, <1>4 DEF Sorted, r

LEMMA SortedDrop ==
  ASSUME NEW s \in Seq(Nat), NEW n \in 1..Len(s), Sorted(s)
  PROVE  /\ RemoveAt(s, n) \in Seq(Nat) /\ Sorted(RemoveAt(s, n))
         /\ Range(RemoveAt(s, n)) \subseteq Range(s)
<1> DEFINE r == RemoveAt(s, n)
           o(j) == IF j < n THEN j ELSE j + 1
<1>1. /\ r \in Seq(Nat) /\ Len(r) + 1 = Len(s) /\ Len(r) \in Nat /\ DOMAIN r = 1..Len(r)
      /\ DOMAIN s = 1..Len(s)
      /\ \A j \in 1..Len(r) : r[j] = IF j < n THEN s[j] ELSE s[j + 1]
  BY RemoveAtRange
<1>2. \A j \in 1..Len(r) : o(j) \in 1..Len(s) /\ r[j] = s[o(j)]
  BY <1>1
<1>3. \A i, j \in 1..Len(r) : i < j => o(i) < o(j)
  <2>1. n \in Int /\ \A i \in 1..Len(r) : i \in Int
    BY <1>1
  <2>2. \A i, j \in Int : i < j => o(i) < o(j)
    BY <2>1
  <2> HIDE DEF r, o
  <2> QED BY <2>1, <2>2
<1> HIDE DEF r, o
<1>4. Sorted(r)
  <2> SUFFICES ASSUME NEW i \in 1..Len(r), NEW j \in 1..Len(r), i < j
               PROVE  Before(r[i], r[j])
    BY DEF Sorted
  <2>1. o(i) \in 1..Len(s) /\ o(j) \in 1..Len(s) /\ o(i) < o(j)
    BY <1>2, <1>3
  <2>2. Before(s[o(i)], s[o(j)])
    BY <2>1 DEF Sorted
  <2> QED BY <1>2, <2>2
<1>5. Range(r) \subseteq Range(s)
  BY <1>1, <1>2 DEF Range
<1> QED BY <1>1, <1>4, <1>5 DEF r

(* InOrder of the next state, where nothing is published in the step.          *)
InOrderNext ==
  /\ Sorted(delivered') /\ Sorted(buffer') /\ Sorted(wire')
  /\ \A i, j \in 1..Len(queue') : i < j => Before(queue'[i].ev, queue'[j].ev)
  /\ Precede(Range(delivered'), PastBrowser')
  /\ Precede(InHand(pump'), PastPump')
  /\ Precede(Range(buffer'), PastBuffer')
  /\ Precede(Range(wire'), PastWire')
  /\ Precede(InHand(ws'), PastWs')

LEMMA StillInOrder ==
  ASSUME kind' = kind, InOrderNext
  PROVE  InOrder'
<1>1. \A x : Coalesced(x)' <=> Coalesced(x)
  BY DEF Coalesced, Kind
<1>2. \A x, y : Before(x, y)' <=> Before(x, y)
  BY <1>1 DEF Before
<1>3. Sorted(delivered)' /\ Sorted(buffer)' /\ Sorted(wire)' /\ QueueSorted'
  BY <1>2 DEF InOrderNext, Sorted, QueueSorted
<1>4. /\ Precede(Range(delivered), PastBrowser)'
      /\ Precede(InHand(pump), PastPump)'
      /\ Precede(Range(buffer), PastBuffer)'
  BY <1>2 DEF InOrderNext, Precede
<1>5. /\ Precede(Range(wire), PastWire)'
      /\ Precede(InHand(ws), PastWs)'
  BY <1>2 DEF InOrderNext, Precede
<1> QED BY <1>3, <1>4, <1>5 DEF InOrder

LEMMA StillPublished ==
  ASSUME TypeInv, Published, kind' = kind, OnTheWay' \subseteq OnTheWay \cup Range(handoff) \cup {Marker},
         Range(handoff') \subseteq Range(handoff)
  PROVE  Published'
<1>1. \A x : Coalesced(x)' <=> Coalesced(x)
  BY DEF Coalesced, Kind
<1>2. Len(kind) \in Nat
  BY DEF TypeInv
<1> QED BY <1>1, <1>2 DEF Published, Marker

--------------------------------------------------------------------------------
(* What is neither lost nor made up for. *)
Accounted == Range(handoff) \cup OnTheWay

LEMMA AccountedIs ==
  /\ Travelling \cup Range(delivered) = Accounted
  /\ (Travelling \cup Range(delivered) = Accounted)'
<1>1. Travelling \cup Range(delivered) = Accounted
  BY DEF Travelling, Accounted, OnTheWay, PastBrowser, PastPump, PastBuffer, PastWire, PastWs, QueueEvs
<1>2. (Travelling \cup Range(delivered) = Accounted)'
  BY DEF Travelling, Accounted, OnTheWay, PastBrowser, PastPump, PastBuffer, PastWire, PastWs, QueueEvs
<1> QED BY <1>1, <1>2

(* A step after which all is still on its way, but for what a newer preview    *)
(* makes up for, loses nothing.                                                *)
LEMMA StillTold ==
  ASSUME TypeInv, Published, NoSilentLoss,
         \A x \in 0..Len(kind) : Coalesced(x)' <=> Coalesced(x),
         DOMAIN kind' \subseteq DOMAIN kind \cup Accounted',
         covered' = covered, open' => open, GapOwed => GapOwed',
         \A x \in Accounted :
           \/ x \in Accounted'
           \/ Coalesced(x) /\ \E d \in Accounted' : d \in 0..Len(kind) /\ d > x /\ Coalesced(d)
  PROVE  NoSilentLoss'
<1>0. Len(kind) \in Nat /\ DOMAIN kind = 1..Len(kind) /\ Accounted \subseteq 0..Len(kind)
  <2>1. Len(kind) \in Nat /\ DOMAIN kind = 1..Len(kind)
    BY DEF TypeInv
  <2> QED BY <2>1 DEF Published, Accounted
<1> SUFFICES ASSUME open', NEW e \in DOMAIN kind', Lost(e)'
             PROVE  GapOwed'
  BY DEF NoSilentLoss
<1>1. e > covered /\ e \notin Accounted' /\ ~Superseded(e)'
  BY AccountedIs DEF Lost
<1>2. e \in DOMAIN kind /\ e \in 0..Len(kind)
  BY <1>0, <1>1
<1>3. Coalesced(e)' <=> Coalesced(e)
  BY <1>2
<1>4. Superseded(e)' <=> Coalesced(e)' /\ \E d \in Accounted' : d > e /\ Coalesced(d)'
  BY AccountedIs DEF Superseded
<1>5. Superseded(e) <=> Coalesced(e) /\ \E d \in Accounted : d > e /\ Coalesced(d)
  BY AccountedIs DEF Superseded
<1>6. ASSUME Coalesced(e), NEW d \in Accounted', d \in 0..Len(kind), d > e, Coalesced(d)
      PROVE  FALSE
  <2>1. Coalesced(d)' /\ Coalesced(e)'
    BY <1>3, <1>6
  <2> QED BY <1>1, <1>4, <1>6, <2>1
<1>7. ASSUME Superseded(e) PROVE FALSE
  <2>1. PICK d \in Accounted : d > e /\ Coalesced(d)
    BY <1>5, <1>7
  <2>2. Coalesced(e) /\ d \in 0..Len(kind)
    BY <1>0, <1>5, <1>7, <2>1
  <2>3. CASE d \in Accounted'
    BY <1>6, <2>1, <2>2, <2>3
  <2>4. CASE \E c \in Accounted' : c \in 0..Len(kind) /\ c > d /\ Coalesced(c)
    <3>1. PICK c \in Accounted' : c \in 0..Len(kind) /\ c > d /\ Coalesced(c)
      BY <2>4
    <3>2. c > e
      BY <1>0, <1>2, <2>1, <2>2, <3>1
    <3> QED BY <1>6, <2>2, <3>1, <3>2
  <2> QED BY <2>1, <2>3, <2>4
<1>8. e \notin Accounted
  <2> SUFFICES ASSUME e \in Accounted PROVE FALSE
    OBVIOUS
  <2>1. Coalesced(e) /\ \E d \in Accounted' : d \in 0..Len(kind) /\ d > e /\ Coalesced(d)
    BY <1>1
  <2> QED BY <1>6, <2>1
<1>9. Lost(e) /\ open
  BY <1>1, <1>7, <1>8, AccountedIs DEF Lost
<1> QED BY <1>2, <1>9 DEF NoSilentLoss

(* A step in which events are offered to the queue keeps the order, when what  *)
(* it offers is no preview or newer than all of them.                          *)
LEMMA StillInOrderOffering ==
  ASSUME TypeInv, InOrder, NEW e,
         UNCHANGED <<ws, wire, buffer, pump, delivered>>,
         QueueEvs' \subseteq QueueEvs \cup {e},
         \A i, j \in 1..Len(queue') : i < j =>
           \/ queue'[i].ev \in QueueEvs /\ queue'[j].ev = e
           \/ \E k, l \in 1..Len(queue) : k < l /\ queue'[i] = queue[k] /\ queue'[j] = queue[l],
         \A x, y \in OnTheWay : Before(x, y) => Before(x, y)',
         \A x \in OnTheWay : Before(x, e)'
  PROVE  InOrder'
<1>1. /\ Range(delivered) \subseteq OnTheWay /\ InHand(pump) \subseteq OnTheWay
      /\ Range(buffer) \subseteq OnTheWay /\ Range(wire) \subseteq OnTheWay
      /\ InHand(ws) \subseteq OnTheWay /\ QueueEvs \subseteq OnTheWay
  BY DEF OnTheWay, PastBrowser, PastPump, PastBuffer, PastWire, PastWs
<1>2. ASSUME NEW s \in Seq(Nat), Range(s) \subseteq OnTheWay, Sorted(s)
      PROVE  \A i, j \in 1..Len(s) : i < j => Before(s[i], s[j])'
  <2>1. \A i \in 1..Len(s) : s[i] \in Range(s)
    BY DEF Range
  <2> QED BY <1>2, <2>1 DEF Sorted
<1>3. Sorted(delivered)' /\ Sorted(buffer)' /\ Sorted(wire)'
  <2>1. /\ delivered \in Seq(Nat) /\ buffer \in Seq(Nat) /\ wire \in Seq(Nat)
        /\ Sorted(delivered) /\ Sorted(buffer) /\ Sorted(wire)
        /\ delivered' = delivered /\ buffer' = buffer /\ wire' = wire
    BY DEF TypeInv, InOrder
  <2>2. \A i, j \in 1..Len(delivered) : i < j => Before(delivered[i], delivered[j])'
    BY <1>1, <1>2, <2>1
  <2>3. \A i, j \in 1..Len(buffer) : i < j => Before(buffer[i], buffer[j])'
    BY <1>1, <1>2, <2>1
  <2>4. \A i, j \in 1..Len(wire) : i < j => Before(wire[i], wire[j])'
    BY <1>1, <1>2, <2>1
  <2> QED BY <2>1, <2>2, <2>3, <2>4 DEF Sorted
<1>4. QueueSorted'
  <2> SUFFICES ASSUME NEW i \in 1..Len(queue'), NEW j \in 1..Len(queue'), i < j
               PROVE  Before(queue[i].ev, queue[j].ev)'
    BY DEF QueueSorted
  <2>0. ASSUME NEW x, NEW y, x = queue'[i].ev, y = queue'[j].ev, Before(x, y)'
        PROVE  Before(queue[i].ev, queue[j].ev)'
    BY <2>0 DEF Before, Coalesced, Kind
  <2>1. CASE queue'[i].ev \in QueueEvs /\ queue'[j].ev = e
    <3>1. PICK x \in QueueEvs : x = queue'[i].ev
      BY <2>1
    <3>2. Before(x, e)'
      BY <1>1
    <3> QED BY <2>0, <2>1, <3>1, <3>2
  <2>2. CASE \E k, l \in 1..Len(queue) : k < l /\ queue'[i] = queue[k] /\ queue'[j] = queue[l]
    <3>1. PICK k \in 1..Len(queue), l \in 1..Len(queue) :
                k < l /\ queue'[i] = queue[k] /\ queue'[j] = queue[l]
      BY <2>2
    <3>2. Before(queue[k].ev, queue[l].ev) /\ queue[k].ev \in QueueEvs /\ queue[l].ev \in QueueEvs
      BY <3>1, InQueue DEF InOrder, QueueSorted
    <3>3. PICK x \in QueueEvs, y \in QueueEvs : x = queue[k].ev /\ y = queue[l].ev
      BY <3>2
    <3>4. Before(x, y)'
      BY <1>1, <3>2, <3>3
    <3> QED BY <2>0, <3>1, <3>3, <3>4
  <2> QED BY <2>1, <2>2
<1>5. ASSUME NEW A, NEW B, NEW C, Precede(A, B), A \subseteq OnTheWay, B \subseteq OnTheWay,
             C \subseteq B \cup {e}
      PROVE  \A x \in A, y \in C : Before(x, y)'
  BY <1>5 DEF Precede
<1>6. /\ PastWs' \subseteq PastWs \cup {e} /\ PastWire' \subseteq PastWire \cup {e}
      /\ PastBuffer' \subseteq PastBuffer \cup {e} /\ PastPump' \subseteq PastPump \cup {e}
      /\ PastBrowser' \subseteq PastBrowser \cup {e}
  <2>1. InHand(ws)' = InHand(ws) /\ InHand(pump)' = InHand(pump)
    BY DEF InHand
  <2> QED BY <2>1 DEF PastBrowser, PastPump, PastBuffer, PastWire, PastWs
<1>7. /\ PastWs \subseteq OnTheWay /\ PastWire \subseteq OnTheWay /\ PastBuffer \subseteq OnTheWay
      /\ PastPump \subseteq OnTheWay /\ PastBrowser \subseteq OnTheWay
  BY DEF OnTheWay, PastBrowser, PastPump, PastBuffer, PastWire
<1>8. Precede(Range(delivered), PastBrowser)'
  <2>1. \A x \in Range(delivered), y \in PastBrowser' : Before(x, y)'
    BY <1>1, <1>5, <1>6, <1>7 DEF InOrder
  <2> QED BY <2>1 DEF Precede
<1>9. Precede(InHand(pump), PastPump)'
  <2>1. \A x \in InHand(pump), y \in PastPump' : Before(x, y)'
    BY <1>1, <1>5, <1>6, <1>7 DEF InOrder
  <2> QED BY <2>1 DEF Precede
<1>10. Precede(Range(buffer), PastBuffer)'
  <2>1. \A x \in Range(buffer), y \in PastBuffer' : Before(x, y)'
    BY <1>1, <1>5, <1>6, <1>7 DEF InOrder
  <2> QED BY <2>1 DEF Precede
<1>11. Precede(Range(wire), PastWire)'
  <2>1. \A x \in Range(wire), y \in PastWire' : Before(x, y)'
    BY <1>1, <1>5, <1>6, <1>7 DEF InOrder
  <2> QED BY <2>1 DEF Precede
<1>12. Precede(InHand(ws), PastWs)'
  <2>1. \A x \in InHand(ws), y \in PastWs' : Before(x, y)'
    BY <1>1, <1>5, <1>6, <1>7 DEF InOrder
  <2> QED BY <2>1 DEF Precede
<1> QED BY <1>3, <1>4, <1>8, <1>9, <1>10, <1>11, <1>12 DEF InOrder

--------------------------------------------------------------------------------
(* Publication. *)
LEMMA Grown ==
  ASSUME TypeInv, NEW k \in Kinds, kind' = Append(kind, k)
  PROVE  /\ kind' \in Seq(Kinds) /\ Len(kind) \in Nat /\ Len(kind') = Len(kind) + 1
         /\ DOMAIN kind' \subseteq DOMAIN kind \cup {Len(kind) + 1}
         /\ \A x \in 0..Len(kind) : Coalesced(x)' <=> Coalesced(x)
<1>1. /\ kind \in Seq(Kinds) /\ Len(kind) \in Nat /\ DOMAIN kind = 1..Len(kind)
  BY DEF TypeInv
<1>2. /\ kind' \in Seq(Kinds) /\ Len(kind') = Len(kind) + 1
      /\ \A i \in 1..Len(kind) : kind'[i] = kind[i]
  BY <1>1, AppendRange
<1>3. DOMAIN kind' = 1..(Len(kind) + 1)
  BY <1>2
<1>4. DOMAIN kind' \subseteq DOMAIN kind \cup {Len(kind) + 1}
  BY <1>1, <1>3
<1>5. \A x \in 0..Len(kind) : x = Marker \/ x \in 1..Len(kind)
  BY <1>1 DEF Marker
<1>6. \A x \in 0..Len(kind) : Kind(x)' = Kind(x)
  BY <1>2, <1>5 DEF Kind
<1> QED BY <1>1, <1>2, <1>4, <1>6 DEF Coalesced

LEMMA SameKinds ==
  ASSUME kind' = kind
  PROVE  /\ \A x : Coalesced(x)' <=> Coalesced(x)
         /\ \A x, y : Before(x, y)' <=> Before(x, y)
<1>1. \A x : Coalesced(x)' <=> Coalesced(x)
  BY DEF Coalesced, Kind
<1> QED BY <1>1 DEF Before

LEMMA Beyond ==
  ASSUME TypeInv, Published, \A x \in 0..Len(kind) : Coalesced(x)' <=> Coalesced(x)
  PROVE  /\ OnTheWay \subseteq 0..Len(kind) /\ Range(handoff) \subseteq 0..Len(kind)
         /\ \A x, y \in OnTheWay : Before(x, y) => Before(x, y)'
<1>1. Len(kind) \in Nat
  BY DEF TypeInv
<1>2. OnTheWay \subseteq 0..Len(kind) /\ Range(handoff) \subseteq 0..Len(kind)
  BY <1>1 DEF Published
<1> QED BY <1>2 DEF Before

LEMMA OfferStep ==
  ASSUME StreamInv, NEW e \in Nat, Offer(e),
         UNCHANGED <<ws, owes, wire, buffer, gapPending, pump, open, delivered, covered>>,
         kind' \in Seq(Kinds), Len(kind') >= Len(kind), e <= Len(kind'),
         DOMAIN kind' \subseteq DOMAIN kind \cup {e},
         \A x \in 0..Len(kind) : Coalesced(x)' <=> Coalesced(x),
         handoff' \in Seq(Nat), Range(handoff') \subseteq Range(handoff),
         Range(handoff) \subseteq Range(handoff') \cup {e},
         \A x \in OnTheWay : Before(x, e)'
  PROVE  StreamInv'
<1>0. TypeInv /\ Numbered /\ Published /\ InOrder /\ NoSilentLoss /\ OwedAhead
  BY DEF StreamInv
<1>1. /\ queue' \in Seq(Entries) /\ seq' \in Nat /\ nextSeq' = nextSeq
      /\ Numbered' /\ queue' # <<>>
      /\ QueueEvs' \subseteq QueueEvs \cup {e} /\ e \in QueueEvs'
  BY <1>0, Offered
<1>2. \/ /\ QueueEvs' = QueueEvs \cup {e}
         /\ queue # <<>> => Head(queue') = Head(queue)
      \/ Head(queue').seq # nextSeq
  BY <1>0, Offered
<1>3. \A i, j \in 1..Len(queue') : i < j =>
        \/ queue'[i].ev \in QueueEvs /\ queue'[j].ev = e
        \/ \E k, l \in 1..Len(queue) : k < l /\ queue'[i] = queue[k] /\ queue'[j] = queue[l]
  BY <1>0, Offered
<1>4. TypeInv'
  BY <1>0, <1>1 DEF TypeInv
<1>5. OwedAhead'
  BY <1>0 DEF OwedAhead
<1>6. InOrder'
  BY <1>0, <1>1, <1>3, Beyond, StillInOrderOffering
<1>7. InHand(ws)' = InHand(ws) /\ InHand(pump)' = InHand(pump)
  BY DEF InHand
<1>8. OnTheWay' \subseteq OnTheWay \cup {e}
  BY <1>1, <1>7 DEF OnTheWay, PastBrowser, PastPump, PastBuffer, PastWire, PastWs
<1>9. Published'
  <2>1. Len(kind) \in Nat /\ Len(kind') \in Nat
    BY <1>0, <1>4 DEF TypeInv
  <2>2. \A x \in OnTheWay' : x \in Nat /\ x <= Len(kind')
    BY <1>0, <1>8, <2>1 DEF Published
  <2>3. \A x \in Range(handoff') : x \in Nat /\ x <= Len(kind') /\ ~Coalesced(x)'
    BY <1>0, <2>1 DEF Published
  <2> QED BY <2>2, <2>3 DEF Published
<1>10. CASE Head(queue').seq # nextSeq
  <2>1. GapOwed'
    BY <1>1, <1>10 DEF GapOwed
  <2> QED BY <1>1, <1>4, <1>5, <1>6, <1>9, <2>1 DEF NoSilentLoss, StreamInv
<1>11. CASE /\ QueueEvs' = QueueEvs \cup {e}
            /\ queue # <<>> => Head(queue') = Head(queue)
  <2>1. OnTheWay' = OnTheWay \cup {e}
    BY <1>7, <1>11 DEF OnTheWay, PastBrowser, PastPump, PastBuffer, PastWire, PastWs
  <2>2. Accounted \subseteq Accounted' /\ e \in Accounted'
    BY <2>1 DEF Accounted
  <2>3. Travelling \subseteq Travelling'
    BY <1>7, <1>11 DEF Travelling, QueueEvs
  <2>4. GapOwed => GapOwed'
    BY <1>1, <1>11, <2>3 DEF GapOwed, Marker
  <2>5. NoSilentLoss'
    BY <1>0, <2>2, <2>4, StillTold
  <2> QED BY <1>1, <1>4, <1>5, <1>6, <1>9, <2>5 DEF StreamInv
<1> QED BY <1>2, <1>10, <1>11

LEMMA PublishStep ==
  ASSUME StreamInv, NEW k \in Kinds, Publish(k)
  PROVE  StreamInv'
<1>0. TypeInv /\ Published
  BY DEF StreamInv
<1> DEFINE e == Len(kind) + 1
<1>1. /\ kind' = Append(kind, k) /\ Offer(e) /\ handoff' = handoff
      /\ UNCHANGED <<ws, owes, wire, buffer, gapPending, pump, open, delivered, covered>>
  BY DEF Publish
<1>2. /\ kind' \in Seq(Kinds) /\ Len(kind) \in Nat /\ Len(kind') = Len(kind) + 1
      /\ DOMAIN kind' \subseteq DOMAIN kind \cup {e}
      /\ \A x \in 0..Len(kind) : Coalesced(x)' <=> Coalesced(x)
  BY <1>0, <1>1, Grown
<1>3. \A x \in OnTheWay : x < e
  BY <1>0, <1>2 DEF Published
<1>4. e \in Nat /\ e <= Len(kind') /\ Len(kind') >= Len(kind) /\ e = Len(kind) + 1
  BY <1>2
<1>5. handoff' \in Seq(Nat) /\ Range(handoff') = Range(handoff)
  BY <1>0, <1>1 DEF TypeInv
<1>6. PICK c \in Nat : c = e
  BY <1>4
<1> HIDE DEF e
<1>7. \A x \in OnTheWay : Before(x, c)'
  BY <1>3, <1>6 DEF Before
<1>8. Offer(c) /\ c <= Len(kind') /\ DOMAIN kind' \subseteq DOMAIN kind \cup {c} 
  BY <1>1, <1>2, <1>4, <1>6
<1> QED BY <1>1, <1>2, <1>4, <1>5, <1>7, <1>8, OfferStep

LEMMA OfferAllStep ==
  ASSUME StreamInv, OfferAll
  PROVE  StreamInv'
<1>0. TypeInv /\ Published
  BY DEF StreamInv
<1>1. /\ kind' = kind /\ handoff # <<>> /\ Offer(Head(handoff)) /\ handoff' = Tail(handoff)
      /\ UNCHANGED <<ws, owes, wire, buffer, gapPending, pump, open, delivered, covered>>
  BY DEF OfferAll
<1>2. /\ handoff' \in Seq(Nat) /\ Head(handoff) \in Nat
      /\ Range(handoff) = Range(handoff') \cup {Head(handoff)}
  BY <1>0, <1>1, TailRange DEF TypeInv
<1>3. PICK c \in Nat : c = Head(handoff)
  BY <1>2
<1>4. c <= Len(kind) /\ ~Coalesced(c) /\ Len(kind) \in Nat /\ kind \in Seq(Kinds)
  BY <1>0, <1>2, <1>3 DEF Published, TypeInv
<1>5. \A x \in 0..Len(kind) : Coalesced(x)' <=> Coalesced(x)
  BY <1>1, SameKinds
<1>6. ~Coalesced(c)'
  BY <1>1, <1>4, SameKinds
<1>7. \A x : Before(x, c)'
  BY <1>6 DEF Before
<1>8. /\ kind' \in Seq(Kinds) /\ Len(kind') >= Len(kind) /\ c <= Len(kind')
      /\ DOMAIN kind' \subseteq DOMAIN kind \cup {c} /\ Offer(c)
      /\ Range(handoff') \subseteq Range(handoff) /\ Range(handoff) \subseteq Range(handoff') \cup {c}
  BY <1>1, <1>2, <1>3, <1>4
<1> QED BY <1>1, <1>2, <1>5, <1>7, <1>8, OfferStep

LEMMA PublishElsewhereStep ==
  ASSUME StreamInv, PublishElsewhere
  PROVE  StreamInv'
<1>0. TypeInv /\ Numbered /\ Published /\ InOrder /\ NoSilentLoss /\ OwedAhead
  BY DEF StreamInv
<1> DEFINE e == Len(kind) + 1
<1>1. /\ kind' = Append(kind, "status") /\ handoff' = Append(handoff, e)
      /\ UNCHANGED <<queue, seq, nextSeq, ws, owes, wire, buffer, gapPending, pump, open, delivered, covered>>
  BY DEF PublishElsewhere
<1>2. /\ kind' \in Seq(Kinds) /\ Len(kind) \in Nat /\ Len(kind') = Len(kind) + 1
      /\ DOMAIN kind' \subseteq DOMAIN kind \cup {e}
      /\ \A x \in 0..Len(kind) : Coalesced(x)' <=> Coalesced(x)
  BY <1>0, <1>1, Grown DEF Kinds
<1>3. handoff' \in Seq(Nat) /\ Range(handoff') = Range(handoff) \cup {e}
  BY <1>0, <1>1, <1>2, AppendRange DEF TypeInv
<1>4. e \in Nat /\ e # Marker /\ kind'[e] = "status"
  BY <1>0, <1>1, <1>2, AppendRange DEF Marker, TypeInv, Kinds
<1>5. TypeInv' /\ OwedAhead' /\ Numbered'
  BY <1>0, <1>1, <1>2, <1>3 DEF TypeInv, OwedAhead, Numbered
<1>6. InHand(ws)' = InHand(ws) /\ InHand(pump)' = InHand(pump) /\ QueueEvs' = QueueEvs
  BY <1>1 DEF InHand, QueueEvs
<1>7. OnTheWay' = OnTheWay /\ Travelling \subseteq Travelling'
  BY <1>1, <1>3, <1>6 DEF OnTheWay, PastBrowser, PastPump, PastBuffer, PastWire, PastWs, Travelling, QueueEvs
<1>8. PICK c \in Nat : c = e
  BY <1>4
<1>9. ~Coalesced(c)'
  BY <1>4, <1>8 DEF Coalesced, Kind
<1>10. InOrder'
  <2>1. \A x : Before(x, c)'
    BY <1>9 DEF Before
  <2>2. \A x, y \in OnTheWay : Before(x, y) => Before(x, y)'
    BY <1>0, <1>2, Beyond
  <2>3. \A i, j \in 1..Len(queue') : i < j =>
          \E k, l \in 1..Len(queue) : k < l /\ queue'[i] = queue[k] /\ queue'[j] = queue[l]
    BY <1>1
  <2> QED BY <1>0, <1>1, <1>6, <2>1, <2>2, <2>3, StillInOrderOffering
<1>11. Published'
  <2>1. \A x \in OnTheWay' : x \in Nat /\ x <= Len(kind')
    BY <1>0, <1>2, <1>7 DEF Published
  <2>2. \A x \in Range(handoff') : x \in Nat /\ x <= Len(kind') /\ ~Coalesced(x)'
    <3>1. \A x \in Range(handoff) : x \in 0..Len(kind) /\ ~Coalesced(x)'
      BY <1>0, <1>2 DEF Published
    <3> QED BY <1>2, <1>3, <1>8, <1>9, <3>1
  <2> QED BY <2>1, <2>2 DEF Published
<1>12. Accounted \subseteq Accounted' /\ DOMAIN kind' \subseteq DOMAIN kind \cup Accounted'
  BY <1>2, <1>3, <1>7 DEF Accounted
<1>13. GapOwed => GapOwed'
  BY <1>1, <1>7 DEF GapOwed, Marker
<1> HIDE DEF e
<1>14. NoSilentLoss'
  BY <1>0, <1>1, <1>2, <1>12, <1>13, StillTold
<1> QED BY <1>5, <1>10, <1>11, <1>14 DEF StreamInv

--------------------------------------------------------------------------------
(* The steps that carry what is published. *)
LEMMA Unpublished == \A x : Before(Marker, x) /\ Before(x, Marker)
BY DEF Before, Coalesced, Kind

LEMMA StillStream ==
  ASSUME StreamInv, kind' = kind, handoff' = handoff, OnTheWay' \subseteq OnTheWay \cup {Marker},
         TypeInv', Numbered', OwedAhead', InOrderNext, NoSilentLoss'
  PROVE  StreamInv'
BY StillInOrder, StillPublished DEF StreamInv

LEMMA StillCarried ==
  ASSUME StreamInv, kind' = kind, handoff' = handoff, covered' = covered, open' => open,
         GapOwed => GapOwed', OnTheWay \subseteq OnTheWay'
  PROVE  NoSilentLoss'
<1>1. \A x \in 0..Len(kind) : Coalesced(x)' <=> Coalesced(x)
  BY SameKinds
<1>2. DOMAIN kind' \subseteq DOMAIN kind \cup Accounted' /\ Accounted \subseteq Accounted'
  BY DEF Accounted
<1> QED BY <1>1, <1>2, StillTold DEF StreamInv

LEMMA WsTakeStep ==
  ASSUME StreamInv, WsTake
  PROVE  StreamInv'
<1>0. TypeInv /\ Numbered /\ Published /\ InOrder /\ NoSilentLoss /\ OwedAhead
  BY DEF StreamInv
<1>1. /\ kind' = kind /\ handoff' = handoff /\ seq' = seq /\ wire' = wire /\ buffer' = buffer
      /\ gapPending' = gapPending /\ pump' = pump /\ open' = open
      /\ delivered' = delivered /\ covered' = covered /\ ws.at = "get" /\ queue # <<>>
  BY DEF WsTake
<1>2. \/ Kind(NextRead) = "oversize" /\ owes' = TRUE /\ ws' = ws
      \/ /\ Kind(NextRead) # "oversize" /\ owes' = owes
         /\ ws' = [at |-> IF owes /\ NextRead # Marker THEN "marker" ELSE "event", ev |-> NextRead]
  BY DEF WsTake
<1>3. queue' \in Seq(Entries) /\ nextSeq' \in Nat /\ Numbered' /\ NextRead \in Nat
  BY <1>0, Taken
<1>4. TypeInv' /\ OwedAhead'
  <2>1. owes' \in BOOLEAN /\ ws' \in Hands /\ OwedAhead'
    <3>1. CASE Kind(NextRead) = "oversize" /\ owes' = TRUE /\ ws' = ws
      BY <1>0, <1>1, <3>1 DEF TypeInv, OwedAhead
    <3>2. CASE owes /\ NextRead # Marker /\ owes' = owes /\ ws' = [at |-> "marker", ev |-> NextRead]
      BY <1>0, <1>3, <3>2 DEF TypeInv, OwedAhead, Hands
    <3>3. CASE ~(owes /\ NextRead # Marker) /\ owes' = owes /\ ws' = [at |-> "event", ev |-> NextRead]
      BY <1>0, <1>3, <3>3 DEF TypeInv, OwedAhead, Hands
    <3> QED BY <1>2, <3>1, <3>2, <3>3
  <2> QED BY <1>0, <1>1, <1>3, <2>1 DEF TypeInv
<1>5. InHand(ws) = {} /\ InHand(pump') = InHand(pump)
  BY <1>1 DEF InHand
<1>6. \/ owes' = TRUE /\ InHand(ws') = {}
      \/ /\ InHand(ws') = {NextRead} /\ owes' = owes
         /\ ws'.at = "marker" \/ ws'.at = "event"
  <2>1. InHand(ws') = IF ws'.at = "get" THEN {} ELSE {ws'.ev}
    BY DEF InHand
  <2> QED BY <1>1, <1>2, <2>1
<1>7. CASE NextRead = Marker /\ queue' = queue
  <2>1. InHand(ws') = {Marker}
    <3>1. Kind(Marker) # "oversize"
      BY DEF Kind
    <3> QED BY <1>2, <1>7, <3>1 DEF InHand
  <2>2. QueueEvs' = QueueEvs
    BY <1>7 DEF QueueEvs
  <2>3. /\ PastWs' = PastWs /\ PastWire' = PastWire \cup {Marker} /\ PastBuffer' = PastBuffer \cup {Marker}
        /\ PastPump' = PastPump \cup {Marker} /\ PastBrowser' = PastBrowser \cup {Marker}
        /\ OnTheWay' = OnTheWay \cup {Marker}
    BY <1>1, <1>5, <2>1, <2>2 DEF OnTheWay, PastBrowser, PastPump, PastBuffer, PastWire, PastWs
  <2>4. InOrderNext
    BY <1>0, <1>1, <1>5, <1>7, <2>1, <2>3, Unpublished DEF InOrder, InOrderNext, Precede, QueueSorted
  <2>5. GapOwed'
    <3>1. Marker \in Travelling'
      BY <2>1 DEF Travelling
    <3> QED BY <3>1 DEF GapOwed, Marker
  <2> QED BY <1>1, <1>3, <1>4, <2>3, <2>4, <2>5, StillStream DEF NoSilentLoss
<1>8. CASE /\ queue' = Tail(queue) /\ Head(queue).seq = nextSeq
           /\ NextRead = Head(queue).ev /\ Head(queue) = queue[1]
           /\ QueueEvs = QueueEvs' \cup {NextRead}
  <2>0. /\ queue \in Seq(Entries) /\ Len(queue') + 1 = Len(queue) /\ Len(queue') \in Nat
        /\ \A i \in 1..Len(queue') : queue'[i] = queue[i + 1] /\ i + 1 \in 1..Len(queue)
        /\ 1 \in 1..Len(queue)
    <3>1. queue \in Seq(Entries)
      BY <1>0 DEF TypeInv
    <3> QED BY <1>1, <1>8, <3>1, TailRange
  <2>1. \A i, j \in 1..Len(queue') : i < j => Before(queue'[i].ev, queue'[j].ev)
    <3> SUFFICES ASSUME NEW i \in 1..Len(queue'), NEW j \in 1..Len(queue'), i < j
                 PROVE  Before(queue'[i].ev, queue'[j].ev)
      OBVIOUS
    <3>1. i + 1 < j + 1 /\ i + 1 \in 1..Len(queue) /\ j + 1 \in 1..Len(queue)
      BY <2>0
    <3>2. Before(queue[i + 1].ev, queue[j + 1].ev)
      BY <1>0, <3>1 DEF InOrder, QueueSorted
    <3> QED BY <2>0, <3>2
  <2>2. Precede({NextRead}, QueueEvs')
    <3> SUFFICES ASSUME NEW y \in QueueEvs'
                 PROVE  Before(NextRead, y)
      BY DEF Precede
    <3>1. PICK j \in 1..Len(queue') : queue'[j].ev = y
      BY <1>3, InQueue, <1>4 DEF TypeInv, QueueEvs, Range
    <3>2. 1 < j + 1 /\ j + 1 \in 1..Len(queue) /\ queue[j + 1].ev = y
      BY <2>0, <3>1
    <3>3. Before(queue[1].ev, queue[j + 1].ev)
      BY <1>0, <2>0, <3>2 DEF InOrder, QueueSorted
    <3> QED BY <1>8, <3>2, <3>3
  <2>3. InHand(ws') \subseteq {NextRead}
    BY <1>6
  <2>4. /\ PastWs' \subseteq PastWs /\ PastWire' \subseteq PastWire /\ PastBuffer' \subseteq PastBuffer
        /\ PastPump' \subseteq PastPump /\ PastBrowser' \subseteq PastBrowser
        /\ OnTheWay' \subseteq OnTheWay
    BY <1>1, <1>5, <1>8, <2>3 DEF OnTheWay, PastBrowser, PastPump, PastBuffer, PastWire, PastWs
  <2>5. InOrderNext
    <3>1. Precede(InHand(ws'), PastWs')
      BY <2>2, <2>3 DEF Precede, PastWs
    <3>2. Sorted(delivered') /\ Sorted(buffer') /\ Sorted(wire')
      BY <1>0, <1>1 DEF InOrder
    <3>3. /\ Precede(Range(delivered'), PastBrowser') /\ Precede(InHand(pump'), PastPump')
          /\ Precede(Range(buffer'), PastBuffer') /\ Precede(Range(wire'), PastWire')
      BY <1>0, <1>1, <1>5, <2>4 DEF InOrder, Precede
    <3> QED BY <2>1, <3>1, <3>2, <3>3 DEF InOrderNext
  <2>6. NoSilentLoss'
    <3>1. CASE owes' = TRUE
      BY <3>1 DEF NoSilentLoss, GapOwed
    <3>2. CASE InHand(ws') = {NextRead} /\ owes' = owes
      <4>1. OnTheWay' = OnTheWay /\ Travelling' = Travelling
        BY <1>1, <1>5, <1>8, <3>2 DEF OnTheWay, PastBrowser, PastPump, PastBuffer, PastWire, PastWs,
             Travelling, QueueEvs
      <4>2. GapOwed => GapOwed'
        BY <1>1, <1>8, <3>2, <4>1 DEF GapOwed, Marker
      <4> QED BY <1>1, <4>1, <4>2, StillCarried
    <3> QED BY <1>6, <3>1, <3>2
  <2> QED BY <1>1, <1>3, <1>4, <2>4, <2>5, <2>6, StillStream
<1> QED BY <1>0, <1>7, <1>8, Taken

LEMMA WsSendMarkerStep ==
  ASSUME StreamInv, WsSendMarker
  PROVE  StreamInv'
<1>0. TypeInv /\ Numbered /\ Published /\ InOrder /\ NoSilentLoss /\ OwedAhead
  BY DEF StreamInv
<1>1. /\ kind' = kind /\ handoff' = handoff /\ queue' = queue /\ seq' = seq /\ nextSeq' = nextSeq
      /\ buffer' = buffer /\ gapPending' = gapPending /\ pump' = pump /\ open' = open
      /\ delivered' = delivered /\ covered' = covered
      /\ ws.at = "marker" /\ wire' = Append(wire, Marker) /\ owes' = FALSE
      /\ ws' = [ws EXCEPT !.at = "event"]
  BY DEF WsSendMarker
<1>2. wire' \in Seq(Nat) /\ Range(wire') = Range(wire) \cup {Marker}
  <2>1. wire \in Seq(Nat) /\ Marker \in Nat
    BY <1>0 DEF TypeInv, Marker
  <2> QED BY <1>1, <2>1, AppendRange
<1>3. ws' \in Hands /\ ws'.at = "event" /\ ws'.ev = ws.ev
  BY <1>0, <1>1 DEF TypeInv, Hands
<1>4. InHand(ws') = InHand(ws) /\ InHand(pump') = InHand(pump) /\ QueueEvs' = QueueEvs
  BY <1>1, <1>3 DEF InHand, QueueEvs
<1>5. TypeInv' /\ Numbered' /\ OwedAhead'
  BY <1>0, <1>1, <1>2, <1>3 DEF TypeInv, Numbered, OwedAhead
<1>6. /\ PastWs' = PastWs /\ PastWire' = PastWire /\ PastBuffer' = PastBuffer \cup {Marker}
      /\ PastPump' = PastPump \cup {Marker} /\ PastBrowser' = PastBrowser \cup {Marker}
      /\ OnTheWay' = OnTheWay \cup {Marker}
  BY <1>1, <1>2, <1>4 DEF OnTheWay, PastBrowser, PastPump, PastBuffer, PastWire, PastWs
<1>7. InOrderNext
  <2>1. Sorted(wire')
    <3>1. Precede(Range(wire), {Marker})
      BY Unpublished DEF Precede
    <3> QED BY <1>0, <1>1, <3>1, SortedAppend DEF InOrder, TypeInv, Marker
  <2>2. /\ Precede(Range(delivered'), PastBrowser') /\ Precede(InHand(pump'), PastPump')
        /\ Precede(Range(buffer'), PastBuffer') /\ Precede(Range(wire'), PastWire')
        /\ Precede(InHand(ws'), PastWs')
    BY <1>0, <1>1, <1>2, <1>4, <1>6, Unpublished DEF InOrder, Precede
  <2> QED BY <1>0, <1>1, <2>1, <2>2 DEF InOrder, InOrderNext, QueueSorted
<1>8. GapOwed'
  <2>1. Marker \in Travelling'
    BY <1>2 DEF Travelling
  <2> QED BY <2>1 DEF GapOwed, Marker
<1> QED BY <1>1, <1>5, <1>6, <1>7, <1>8, StillStream DEF NoSilentLoss

LEMMA WsSendEventStep ==
  ASSUME StreamInv, WsSendEvent
  PROVE  StreamInv'
<1>0. TypeInv /\ Numbered /\ Published /\ InOrder /\ NoSilentLoss /\ OwedAhead
  BY DEF StreamInv
<1>1. /\ kind' = kind /\ handoff' = handoff /\ queue' = queue /\ seq' = seq /\ nextSeq' = nextSeq
      /\ buffer' = buffer /\ gapPending' = gapPending /\ pump' = pump /\ open' = open
      /\ delivered' = delivered /\ covered' = covered
      /\ ws.at = "event" /\ wire' = Append(wire, ws.ev) /\ owes' = FALSE /\ ws' = Idle
  BY DEF WsSendEvent
<1>2. wire' \in Seq(Nat) /\ Range(wire') = Range(wire) \cup {ws.ev} /\ ws.ev \in Nat
  <2>1. ws.ev \in Nat /\ wire \in Seq(Nat)
    BY <1>0 DEF TypeInv, Hands
  <2> QED BY <1>1, <2>1, AppendRange
<1>3. ws' \in Hands /\ ws'.at = "get"
  BY <1>1 DEF Hands, Idle, Marker
<1>4. InHand(ws') = {} /\ InHand(ws) = {ws.ev} /\ InHand(pump') = InHand(pump) /\ QueueEvs' = QueueEvs
  BY <1>1, <1>3 DEF InHand, QueueEvs
<1>5. TypeInv' /\ Numbered' /\ OwedAhead'
  BY <1>0, <1>1, <1>2, <1>3 DEF TypeInv, Numbered, OwedAhead
<1>6. /\ PastWs' = PastWs /\ PastWire' \subseteq PastWire /\ PastBuffer' = PastBuffer
      /\ PastPump' = PastPump /\ PastBrowser' = PastBrowser
      /\ OnTheWay' = OnTheWay
  BY <1>1, <1>2, <1>4 DEF OnTheWay, PastBrowser, PastPump, PastBuffer, PastWire, PastWs
<1>7. PastWire' = PastWs
  BY <1>4, <1>6 DEF PastWire
<1>8. InOrderNext
  <2>1. Sorted(wire')
    <3>1. Precede(Range(wire), {ws.ev})
      BY <1>0, <1>4 DEF Precede, InOrder, PastWire
    <3>2. wire \in Seq(Nat) /\ Sorted(wire)
      BY <1>0 DEF TypeInv, InOrder
    <3> QED BY <1>1, <1>2, <3>1, <3>2, SortedAppend
  <2>2. Precede(Range(wire'), PastWire')
    <3>1. Precede(Range(wire), PastWs) /\ Precede({ws.ev}, PastWs)
      BY <1>0, <1>4 DEF InOrder, Precede, PastWire
    <3> QED BY <1>2, <1>7, <3>1 DEF Precede
  <2>3. /\ Precede(Range(delivered'), PastBrowser') /\ Precede(InHand(pump'), PastPump')
        /\ Precede(Range(buffer'), PastBuffer') /\ Precede(InHand(ws'), PastWs')
    BY <1>0, <1>1, <1>4, <1>6 DEF InOrder, Precede
  <2> QED BY <1>0, <1>1, <2>1, <2>2, <2>3 DEF InOrder, InOrderNext, QueueSorted
<1>9. Travelling' = Travelling
  BY <1>1, <1>2, <1>4 DEF Travelling, QueueEvs
<1>10. GapOwed => GapOwed'
  <2>1. owes => Marker \in Travelling
    BY <1>0, <1>1, <1>4 DEF OwedAhead, Travelling
  <2> QED BY <1>1, <1>9, <2>1 DEF GapOwed, Marker
<1>11. NoSilentLoss'
  BY <1>1, <1>6, <1>10, StillCarried
<1> QED BY <1>1, <1>5, <1>6, <1>8, <1>11, StillStream

LEMMA Buffered ==
  ASSUME TypeInv, NEW e \in Nat, Sorted(buffer), Precede(Range(buffer), {e}), Enqueue(e)
  PROVE  /\ buffer' \in Seq(Nat) /\ Sorted(buffer') /\ Range(buffer') \subseteq Range(buffer) \cup {e}
         /\ e \in Range(buffer') /\ gapPending' \in BOOLEAN
         /\ \/ gapPending' = TRUE
            \/ /\ gapPending' = gapPending
               /\ \A x \in Range(buffer) :
                    x \in Range(buffer') \/ (Coalesced(x) /\ Coalesced(e) /\ x < e)
<1>0. buffer \in Seq(Nat) /\ gapPending \in BOOLEAN
  BY DEF TypeInv
<1>1. CASE buffer' = Append(buffer, e) /\ gapPending' = gapPending
  <2>1. buffer' \in Seq(Nat) /\ Range(buffer') = Range(buffer) \cup {e}
    BY <1>0, <1>1, AppendRange
  <2>2. Sorted(buffer')
    BY <1>0, <1>1, SortedAppend
  <2> QED BY <1>0, <1>1, <2>1, <2>2
<1>2. ASSUME NEW n \in 1..Len(buffer), Coalesces(e, n)
      PROVE  /\ buffer' \in Seq(Nat) /\ Sorted(buffer') /\ Range(buffer') \subseteq Range(buffer) \cup {e}
             /\ e \in Range(buffer') /\ gapPending' = gapPending
             /\ \A x \in Range(buffer) :
                  x \in Range(buffer') \/ (Coalesced(x) /\ Coalesced(e) /\ x < e)
  <2>1. /\ Coalesced(e) /\ Coalesced(buffer[n]) /\ buffer' = [buffer EXCEPT ![n] = e]
        /\ gapPending' = gapPending
        /\ \A i \in 1..Len(buffer) : Coalesced(buffer[i]) => i <= n
    BY <1>2 DEF Coalesces
  <2>2. /\ buffer' \in Seq(Nat) /\ Sorted(buffer')
        /\ Range(buffer') \subseteq Range(buffer) \cup {e} /\ e \in Range(buffer')
        /\ \A x \in Range(buffer) : x \in Range(buffer') \/ x = buffer[n]
    BY <1>0, <2>1, SortedReplace
  <2>3. buffer[n] \in Range(buffer)
    BY <1>0 DEF Range
  <2>4. buffer[n] < e
    BY <2>1, <2>3 DEF Precede, Before
  <2> QED BY <2>1, <2>2, <2>4
<1>3. ASSUME NEW n \in 1..Len(buffer), Drops(e, n)
      PROVE  /\ buffer' \in Seq(Nat) /\ Sorted(buffer') /\ Range(buffer') \subseteq Range(buffer) \cup {e}
             /\ e \in Range(buffer') /\ gapPending' = TRUE
  <2> DEFINE r == RemoveAt(buffer, n)
  <2>1. buffer' = Append(r, e) /\ gapPending' = TRUE
    BY <1>3 DEF Drops
  <2>2. r \in Seq(Nat) /\ Sorted(r) /\ Range(r) \subseteq Range(buffer)
    BY <1>0, SortedDrop
  <2> HIDE DEF r
  <2>3. Precede(Range(r), {e})
    BY <2>2 DEF Precede
  <2>4. buffer' \in Seq(Nat) /\ Range(buffer') = Range(r) \cup {e}
    BY <2>1, <2>2, AppendRange
  <2>5. Sorted(buffer')
    BY <2>1, <2>2, <2>3, SortedAppend
  <2> QED BY <2>1, <2>2, <2>4, <2>5
<1>4. \/ buffer' = Append(buffer, e) /\ gapPending' = gapPending
      \/ \E n \in 1..Len(buffer) : Coalesces(e, n)
      \/ \E n \in 1..Len(buffer) : Drops(e, n)
  BY Enqueued
<1>5. CASE \E n \in 1..Len(buffer) : Coalesces(e, n)
  BY <1>0, <1>2, <1>5
<1>6. CASE \E n \in 1..Len(buffer) : Drops(e, n)
  BY <1>3, <1>6
<1> QED BY <1>1, <1>4, <1>5, <1>6

LEMMA OnWsDataStep ==
  ASSUME StreamInv, OnWsData
  PROVE  StreamInv'
<1>0. TypeInv /\ Numbered /\ Published /\ InOrder /\ NoSilentLoss /\ OwedAhead
  BY DEF StreamInv
<1>1. /\ kind' = kind /\ handoff' = handoff /\ queue' = queue /\ seq' = seq /\ nextSeq' = nextSeq
      /\ ws' = ws /\ owes' = owes /\ pump' = pump /\ open' = open
      /\ delivered' = delivered /\ covered' = covered
      /\ wire # <<>> /\ wire' = Tail(wire)
  BY DEF OnWsData
<1>2. /\ wire \in Seq(Nat) /\ wire' \in Seq(Nat) /\ Head(wire) \in Nat
      /\ Range(wire) = Range(wire') \cup {Head(wire)}
  BY <1>0, <1>1, TailRange DEF TypeInv
<1>3. InHand(ws') = InHand(ws) /\ InHand(pump') = InHand(pump) /\ QueueEvs' = QueueEvs
  BY <1>1 DEF InHand, QueueEvs
<1>4. Numbered' /\ OwedAhead'
  BY <1>0, <1>1 DEF Numbered, OwedAhead
<1>5. PICK e \in Nat : e = Head(wire)
  BY <1>2
<1>6. Sorted(wire') /\ Precede({e}, Range(wire')) /\ e \in Range(wire) /\ e \in PastBuffer
  <2>1. Sorted(wire) /\ e \in Range(wire)
    BY <1>0, <1>2, <1>5 DEF InOrder
  <2>2. Sorted(Tail(wire)) /\ Precede({Head(wire)}, Range(Tail(wire)))
    BY <1>1, <1>2, <2>1, SortedTail
  <2> QED BY <1>1, <1>5, <2>1, <2>2 DEF PastBuffer
<1>7. Precede({e}, PastBuffer')
  <2>1. Precede({e}, PastWire)
    BY <1>0, <1>6 DEF InOrder, Precede
  <2> QED BY <1>1, <1>3, <1>6, <2>1 DEF Precede, PastBuffer, PastWire, PastWs
<1>8. PastWs' = PastWs /\ PastWire' = PastWire /\ PastBuffer' \subseteq PastBuffer
      /\ PastBuffer \subseteq PastBuffer' \cup {e}
  BY <1>2, <1>3, <1>5 DEF PastBuffer, PastWire, PastWs
<1>9. ASSUME buffer' \in Seq(Nat), Sorted(buffer'), Range(buffer') \subseteq Range(buffer) \cup {e},
             gapPending' \in BOOLEAN, NoSilentLoss'
      PROVE  StreamInv'
  <2>1. TypeInv'
    BY <1>0, <1>1, <1>2, <1>9 DEF TypeInv
  <2>2. PastPump' \subseteq PastPump /\ PastBrowser' \subseteq PastBrowser /\ OnTheWay' \subseteq OnTheWay
    BY <1>1, <1>3, <1>6, <1>8, <1>9 DEF PastPump, PastBrowser, OnTheWay
  <2>3. Precede(Range(buffer'), PastBuffer')
    <3>1. Precede(Range(buffer), PastBuffer)
      BY <1>0 DEF InOrder
    <3> QED BY <1>7, <1>8, <1>9, <3>1 DEF Precede
  <2>4. /\ Precede(Range(delivered'), PastBrowser') /\ Precede(InHand(pump'), PastPump')
        /\ Precede(Range(wire'), PastWire') /\ Precede(InHand(ws'), PastWs')
    BY <1>0, <1>1, <1>2, <1>3, <1>8, <2>2 DEF InOrder, Precede
  <2>5. InOrderNext
    BY <1>0, <1>1, <1>6, <1>9, <2>3, <2>4 DEF InOrder, InOrderNext, QueueSorted
  <2> QED BY <1>1, <1>4, <1>9, <2>1, <2>2, <2>5, StillStream
<1>10. CASE ~open
  <2>1. buffer' = buffer /\ gapPending' = gapPending
    BY <1>10 DEF OnWsData
  <2>2. NoSilentLoss'
    BY <1>1, <1>10 DEF NoSilentLoss
  <2>3. buffer \in Seq(Nat) /\ Sorted(buffer) /\ gapPending \in BOOLEAN
    BY <1>0 DEF TypeInv, InOrder
  <2> QED BY <1>9, <2>1, <2>2, <2>3
<1>11. CASE open
  <2>1. Enqueue(e)
    BY <1>5, <1>11 DEF OnWsData
  <2>2. Sorted(buffer) /\ Precede(Range(buffer), {e})
    BY <1>0, <1>6 DEF InOrder, Precede
  <2>3. /\ buffer' \in Seq(Nat) /\ Sorted(buffer') /\ Range(buffer') \subseteq Range(buffer) \cup {e}
        /\ e \in Range(buffer') /\ gapPending' \in BOOLEAN
    BY <1>0, <2>1, <2>2, Buffered
  <2>4. \/ gapPending' = TRUE
        \/ /\ gapPending' = gapPending
           /\ \A x \in Range(buffer) :
                x \in Range(buffer') \/ (Coalesced(x) /\ Coalesced(e) /\ x < e)
    BY <1>0, <2>1, <2>2, Buffered
  <2>5. CASE gapPending' = TRUE
    <3>1. GapOwed'
      BY <2>5 DEF GapOwed
    <3> QED BY <1>9, <2>3, <3>1 DEF NoSilentLoss
  <2>6. CASE /\ gapPending' = gapPending
             /\ \A x \in Range(buffer) :
                  x \in Range(buffer') \/ (Coalesced(x) /\ Coalesced(e) /\ x < e)
    <3>1. e \in Accounted' /\ e \in 0..Len(kind) /\ e \in Accounted
      <4>1. e \in OnTheWay /\ e \in OnTheWay'
        BY <1>6, <2>3 DEF OnTheWay, PastBrowser, PastPump
      <4>2. Len(kind) \in Nat
        BY <1>0 DEF TypeInv
      <4> QED BY <1>0, <4>1, <4>2 DEF Published, Accounted
    <3>2. \A x \in Accounted : x \in Accounted' \/ x \in Range(buffer)
      BY <1>1, <1>2, <1>3, <1>5, <3>1 DEF Accounted, OnTheWay, PastBrowser, PastPump, PastBuffer, PastWire, PastWs
    <3>3. Range(buffer') \subseteq Accounted'
      BY DEF Accounted, OnTheWay, PastBrowser, PastPump
    <3>4. \A x \in Accounted :
            \/ x \in Accounted'
            \/ Coalesced(x) /\ \E d \in Accounted' : d \in 0..Len(kind) /\ d > x /\ Coalesced(d)
      <4> SUFFICES ASSUME NEW x \in Accounted, x \notin Accounted'
                   PROVE  Coalesced(x) /\ e > x /\ Coalesced(e)
        BY <3>1
      <4>1. x \in Range(buffer) /\ x \notin Range(buffer')
        BY <3>2, <3>3
      <4>2. Coalesced(x) /\ Coalesced(e) /\ x < e
        BY <2>6, <4>1
      <4>3. x \in Nat
        BY <1>0, <4>1 DEF Published, OnTheWay, PastBrowser, PastPump
      <4> QED BY <4>2, <4>3
    <3>5. \A x \in 0..Len(kind) : Coalesced(x)' <=> Coalesced(x)
      BY <1>1, SameKinds
    <3>6. Marker \in Travelling => Marker \in Travelling'
      <4>1. ~Coalesced(Marker)
        BY DEF Coalesced, Kind
      <4>2. Marker \in Range(buffer) => Marker \in Range(buffer')
        BY <2>6, <4>1
      <4> QED BY <1>1, <1>2, <1>3, <1>5, <2>3, <4>2 DEF Travelling, QueueEvs
    <3>7. GapOwed => GapOwed'
      BY <1>1, <2>6, <3>6 DEF GapOwed, Marker
    <3>8. NoSilentLoss'
      BY <1>0, <1>1, <3>4, <3>5, <3>7, StillTold
    <3> QED BY <1>9, <2>3, <3>8
  <2> QED BY <2>4, <2>5, <2>6
<1> QED BY <1>10, <1>11

LEMMA PumpTakeStep ==
  ASSUME StreamInv, PumpTake
  PROVE  StreamInv'
<1>0. TypeInv /\ Numbered /\ Published /\ InOrder /\ NoSilentLoss /\ OwedAhead
  BY DEF StreamInv
<1>1. /\ kind' = kind /\ handoff' = handoff /\ queue' = queue /\ seq' = seq /\ nextSeq' = nextSeq
      /\ ws' = ws /\ owes' = owes /\ wire' = wire /\ open' = open
      /\ delivered' = delivered /\ covered' = covered
      /\ pump.at = "get" /\ buffer # <<>> /\ buffer' = Tail(buffer) /\ gapPending' = FALSE
      /\ pump' = [at |-> IF gapPending THEN "gap" ELSE "event", ev |-> Head(buffer)]
  BY DEF PumpTake
<1>2. /\ buffer \in Seq(Nat) /\ buffer' \in Seq(Nat) /\ Head(buffer) \in Nat
      /\ Range(buffer) = Range(buffer') \cup {Head(buffer)}
  BY <1>0, <1>1, TailRange DEF TypeInv
<1>3. pump' \in Hands /\ pump'.at # "get" /\ pump'.ev = Head(buffer) /\ (gapPending => pump'.at = "gap")
  BY <1>1, <1>2 DEF Hands
<1>4. /\ InHand(ws') = InHand(ws) /\ InHand(pump) = {} /\ InHand(pump') = {Head(buffer)}
      /\ QueueEvs' = QueueEvs
  BY <1>1, <1>3 DEF InHand, QueueEvs
<1>5. TypeInv' /\ Numbered' /\ OwedAhead'
  BY <1>0, <1>1, <1>2, <1>3 DEF TypeInv, Numbered, OwedAhead
<1>6. /\ PastWs' = PastWs /\ PastWire' = PastWire /\ PastBuffer' = PastBuffer
      /\ PastPump' \subseteq PastPump /\ PastBrowser' = PastBrowser /\ OnTheWay' = OnTheWay
  BY <1>1, <1>2, <1>4 DEF OnTheWay, PastBrowser, PastPump, PastBuffer, PastWire, PastWs
<1>7. InOrderNext
  <2>1. Sorted(buffer') /\ Precede({Head(buffer)}, Range(buffer'))
    BY <1>0, <1>1, <1>2, SortedTail DEF InOrder
  <2>2. Precede({Head(buffer)}, PastBuffer)
    BY <1>0, <1>2 DEF InOrder, Precede
  <2>3. Precede(InHand(pump'), PastPump')
    BY <1>4, <1>6, <2>1, <2>2 DEF Precede, PastPump
  <2>4. /\ Precede(Range(delivered'), PastBrowser') /\ Precede(Range(buffer'), PastBuffer')
        /\ Precede(Range(wire'), PastWire') /\ Precede(InHand(ws'), PastWs')
    BY <1>0, <1>1, <1>2, <1>4, <1>6 DEF InOrder, Precede
  <2> QED BY <1>0, <1>1, <2>1, <2>3, <2>4 DEF InOrder, InOrderNext, QueueSorted
<1>8. Travelling' = Travelling
  BY <1>1, <1>2, <1>4 DEF Travelling, QueueEvs
<1>9. GapOwed => GapOwed'
  BY <1>1, <1>3, <1>8 DEF GapOwed, Marker
<1>10. NoSilentLoss'
  BY <1>1, <1>6, <1>9, StillCarried
<1> QED BY <1>1, <1>5, <1>6, <1>7, <1>10, StillStream

(* A browser that was just sent a marker reads the snapshot: nothing is lost.  *)
LEMMA Reread ==
  ASSUME TypeInv, kind' = kind, covered' = Len(kind)
  PROVE  NoSilentLoss'
<1>1. DOMAIN kind' = 1..Len(kind) /\ Len(kind) \in Nat
  BY DEF TypeInv
<1>2. \A e \in DOMAIN kind' : ~(e > covered')
  BY <1>1
<1> QED BY <1>2 DEF NoSilentLoss, Lost

LEMMA PumpSendGapStep ==
  ASSUME StreamInv, PumpSendGap
  PROVE  StreamInv'
<1>0. TypeInv /\ Numbered /\ Published /\ InOrder /\ NoSilentLoss /\ OwedAhead
  BY DEF StreamInv
<1>1. /\ kind' = kind /\ handoff' = handoff /\ queue' = queue /\ seq' = seq /\ nextSeq' = nextSeq
      /\ ws' = ws /\ owes' = owes /\ wire' = wire /\ buffer' = buffer /\ gapPending' = gapPending
      /\ delivered' = delivered /\ covered' = Len(kind)
      /\ pump.at = "gap" /\ pump' = [pump EXCEPT !.at = "event"]
  BY DEF PumpSendGap
<1>2. pump' \in Hands /\ pump'.at = "event" /\ pump'.ev = pump.ev
  BY <1>0, <1>1 DEF TypeInv, Hands
<1>3. InHand(ws') = InHand(ws) /\ InHand(pump') = InHand(pump) /\ QueueEvs' = QueueEvs
  BY <1>1, <1>2 DEF InHand, QueueEvs
<1>4. TypeInv' /\ Numbered' /\ OwedAhead'
  BY <1>0, <1>1, <1>2 DEF TypeInv, Numbered, OwedAhead
<1>5. /\ PastWs' = PastWs /\ PastWire' = PastWire /\ PastBuffer' = PastBuffer
      /\ PastPump' = PastPump /\ PastBrowser' = PastBrowser /\ OnTheWay' = OnTheWay
  BY <1>1, <1>3 DEF OnTheWay, PastBrowser, PastPump, PastBuffer, PastWire, PastWs
<1>6. InOrderNext
  BY <1>0, <1>1, <1>3, <1>5 DEF InOrder, InOrderNext, QueueSorted
<1> QED BY <1>0, <1>1, <1>4, <1>5, <1>6, Reread, StillStream

LEMMA PumpSendEventStep ==
  ASSUME StreamInv, PumpSendEvent
  PROVE  StreamInv'
<1>0. TypeInv /\ Numbered /\ Published /\ InOrder /\ NoSilentLoss /\ OwedAhead
  BY DEF StreamInv
<1>1. /\ kind' = kind /\ handoff' = handoff /\ queue' = queue /\ seq' = seq /\ nextSeq' = nextSeq
      /\ ws' = ws /\ owes' = owes /\ wire' = wire /\ buffer' = buffer /\ gapPending' = gapPending
      /\ open /\ pump.at = "event" /\ pump' = Idle
  BY DEF PumpSendEvent
<1>2. pump' \in Hands /\ pump'.at = "get" /\ pump.ev \in Nat
  BY <1>0, <1>1 DEF TypeInv, Hands, Idle, Marker
<1>3. /\ InHand(ws') = InHand(ws) /\ InHand(pump) = {pump.ev} /\ InHand(pump') = {}
      /\ QueueEvs' = QueueEvs
  BY <1>1, <1>2 DEF InHand, QueueEvs
<1>4. Numbered' /\ OwedAhead'
  BY <1>0, <1>1 DEF Numbered, OwedAhead
<1>5. /\ PastWs' = PastWs /\ PastWire' = PastWire /\ PastBuffer' = PastBuffer
      /\ PastPump' = PastPump /\ PastBrowser' = PastPump /\ PastPump \subseteq PastBrowser
  BY <1>1, <1>3 DEF PastBrowser, PastPump, PastBuffer, PastWire, PastWs
<1>6. /\ Sorted(buffer') /\ Sorted(wire')
      /\ \A i, j \in 1..Len(queue') : i < j => Before(queue'[i].ev, queue'[j].ev)
      /\ Precede(InHand(pump'), PastPump')
      /\ Precede(Range(buffer'), PastBuffer') /\ Precede(Range(wire'), PastWire')
      /\ Precede(InHand(ws'), PastWs')
  BY <1>0, <1>1, <1>3, <1>5 DEF InOrder, Precede, QueueSorted
<1>7. CASE pump.ev = Marker
  <2>1. covered' = Len(kind) /\ delivered' = delivered
    BY <1>7 DEF PumpSendEvent
  <2>2. TypeInv'
    <3>1. Len(kind) \in Nat
      BY <1>0 DEF TypeInv
    <3> QED BY <1>0, <1>1, <1>2, <2>1, <3>1 DEF TypeInv
  <2>3. Sorted(delivered') /\ Precede(Range(delivered'), PastBrowser')
    BY <1>0, <1>5, <2>1 DEF InOrder, Precede
  <2>4. OnTheWay' \subseteq OnTheWay
    BY <1>5, <2>1 DEF OnTheWay
  <2>5. InOrderNext
    BY <1>6, <2>3 DEF InOrderNext
  <2> QED BY <1>0, <1>1, <1>4, <2>1, <2>2, <2>4, <2>5, Reread, StillStream
<1>8. CASE pump.ev # Marker
  <2>1. covered' = covered /\ delivered' = Append(delivered, pump.ev)
    BY <1>8 DEF PumpSendEvent
  <2>2. delivered \in Seq(Nat) /\ delivered' \in Seq(Nat) /\ Range(delivered') = Range(delivered) \cup {pump.ev}
    <3>1. delivered \in Seq(Nat)
      BY <1>0 DEF TypeInv
    <3> QED BY <1>2, <2>1, <3>1, AppendRange
  <2>3. TypeInv'
    BY <1>0, <1>1, <1>2, <2>1, <2>2 DEF TypeInv
  <2>4. OnTheWay' = OnTheWay
    BY <1>3, <1>5, <2>2 DEF OnTheWay, PastBrowser
  <2>5. Sorted(delivered')
    <3>1. Sorted(delivered) /\ Precede(Range(delivered), {pump.ev})
      BY <1>0, <1>3 DEF InOrder, Precede, PastBrowser
    <3> QED BY <1>2, <2>1, <2>2, <3>1, SortedAppend
  <2>6. Precede(Range(delivered'), PastBrowser')
    <3>1. Precede(Range(delivered), PastPump) /\ Precede({pump.ev}, PastPump)
      BY <1>0, <1>3, <1>5 DEF InOrder, Precede
    <3> QED BY <1>5, <2>2, <3>1 DEF Precede
  <2>7. InOrderNext
    BY <1>6, <2>5, <2>6 DEF InOrderNext
  <2>8. Marker \in Travelling => Marker \in Travelling'
    BY <1>1, <1>3, <1>8 DEF Travelling, QueueEvs
  <2>9. GapOwed => GapOwed'
    BY <1>1, <2>8 DEF GapOwed, Marker
  <2>10. NoSilentLoss'
    BY <1>1, <2>1, <2>4, <2>9, StillCarried
  <2> QED BY <1>1, <1>4, <2>3, <2>4, <2>7, <2>10, StillStream
<1> QED BY <1>7, <1>8

--------------------------------------------------------------------------------
LEMMA StreamInit == Init => StreamInv
<1> SUFFICES ASSUME Init PROVE StreamInv
  OBVIOUS
<1> USE DEF Init
<1>1. TypeInv /\ Numbered /\ OwedAhead
  <2>1. Idle \in Hands /\ Idle.at = "get"
    BY DEF Idle, Hands, Marker
  <2>2. TypeInv
    <3>1. /\ kind \in Seq(Kinds) /\ handoff \in Seq(Nat) /\ queue \in Seq(Entries)
          /\ wire \in Seq(Nat) /\ buffer \in Seq(Nat) /\ delivered \in Seq(Nat)
      OBVIOUS
    <3>2. seq \in Nat /\ nextSeq \in Nat /\ covered \in Nat
      OBVIOUS
    <3>3. owes \in BOOLEAN /\ gapPending \in BOOLEAN /\ ws \in Hands /\ pump \in Hands
      BY <2>1
    <3> QED BY <3>1, <3>2, <3>3 DEF TypeInv
  <2>3. Numbered /\ OwedAhead
    BY <2>1 DEF Numbered, OwedAhead
  <2> QED BY <2>2, <2>3
<1>2. /\ Range(handoff) = {} /\ Range(queue) = {} /\ Range(wire) = {} /\ Range(buffer) = {}
      /\ Range(delivered) = {} /\ InHand(ws) = {} /\ InHand(pump) = {}
  BY DEF Range, InHand, Idle
<1>3. OnTheWay = {}
  BY <1>2 DEF OnTheWay, PastBrowser, PastPump, PastBuffer, PastWire, PastWs, QueueEvs
<1>4. Published
  BY <1>2, <1>3 DEF Published
<1>5. InOrder
  BY <1>2 DEF InOrder, Sorted, QueueSorted, Precede
<1>6. NoSilentLoss
  BY DEF NoSilentLoss
<1> QED BY <1>1, <1>4, <1>5, <1>6 DEF StreamInv

LEMMA StreamStep == StreamInv /\ [Next]_vars => StreamInv'
<1> SUFFICES ASSUME StreamInv, [Next]_vars PROVE StreamInv'
  OBVIOUS
<1>1. ASSUME NEW k \in Kinds, Publish(k) PROVE StreamInv'
  BY <1>1, PublishStep
<1>2. CASE UNCHANGED vars
  BY <1>2 DEF vars, StreamInv, TypeInv, Numbered, OwedAhead, Published, InOrder, NoSilentLoss, Lost,
    GapOwed, Superseded, Travelling, OnTheWay, PastBrowser, PastPump, PastBuffer, PastWire, PastWs,
    QueueEvs, QueueSorted, Sorted, Precede, Before, Coalesced, Kind, InHand
<1> QED
  BY <1>1, <1>2, PublishElsewhereStep, OfferAllStep, WsTakeStep, WsSendMarkerStep, WsSendEventStep,
     OnWsDataStep, PumpTakeStep, PumpSendGapStep, PumpSendEventStep DEF Next

LEMMA StreamCorrect == Spec => []StreamInv
BY StreamInit, StreamStep, PTL DEF Spec

(* While a remote browser's socket is open, whatever it will never be handed   *)
(* and no snapshot read or newer preview makes up for is owed a relay_gap      *)
(* marker by one of the three hops (Subscription._get, _send_ws_event,         *)
(* _enqueue_viewer with _pump_viewer), whatever the sizes of their queues.     *)
THEOREM NoSilentLossAlways == Spec => []NoSilentLoss
BY StreamCorrect, PTL DEF StreamInv

(* A remote browser is never handed an older preview after a newer one,        *)
(* however the relay coalesced them (_EgressBuffer.replace_newest) and         *)
(* whatever other threads publish meanwhile.                                   *)
THEOREM NewestLastAlways == Spec => []NewestLast
<1>1. StreamInv => NewestLast
  <2> SUFFICES ASSUME StreamInv PROVE NewestLast
    OBVIOUS
  <2>1. Sorted(delivered) /\ DOMAIN delivered = 1..Len(delivered)
    BY DEF StreamInv, InOrder, TypeInv
  <2> QED BY <2>1 DEF NewestLast, Sorted, Before
<1> QED BY <1>1, StreamCorrect, PTL
================================================================================

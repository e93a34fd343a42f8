----------------------------- MODULE EventStream -----------------------------
(* The way of a telemetry event from the bus to a remote browser: the viewer's *)
(* bus subscription (server/astrodeck/events.py), the loop that forwards it    *)
(* into the tunnel (relay_client.py, _run_ws and _send_ws_event), and the      *)
(* relay's egress buffer and pump for that browser (relay/relay/proxy.py).     *)
(* Every hop may drop, and owes the browser a relay_gap marker when it does:   *)
(* the browser answers a marker by re-reading the whole snapshot.              *)
(*                                                                             *)
(* Events are numbered by publication.  Of their payload there is the kind:    *)
(* "preview" stands for the kinds the relay coalesces, "oversize" for an event *)
(* the tunnel cannot encode, "status" for the rest.                            *)
EXTENDS Naturals, Sequences, FiniteSets, SequencesExt

CONSTANTS
  SubscriberMax,  \* events.SUBSCRIBER_MAX
  WireMax,        \* frames the tunnel takes before a send waits
  EgressMax,      \* ws_egress_max
  MaxEvents       \* bound: events published

ASSUME EventStreamAssumption ==
  /\ SubscriberMax \in Nat \ {0} /\ WireMax \in Nat \ {0} /\ EgressMax \in Nat \ {0}
  /\ MaxEvents \in Nat

VARIABLES
  kind,       \* kind[e]: the events published so far, a sequence
  handoff,    \* deliveries handed to the loop by other threads (call_soon_threadsafe)
  queue,      \* Subscription._queue: [seq, ev]
  seq, nextSeq,  \* Subscription._seq, _next_seq
  ws,         \* what _run_ws has in hand: [at, ev], at "get", "marker" or "event"
  owes,       \* _WsSendGuard.gap_seq is set
  wire,       \* WS_DATA frames in the tunnel
  buffer,     \* _EgressBuffer._items
  overflowed, gapPending,  \* _WsViewer
  pump,       \* what _pump_viewer has in hand: [at, ev], at "get", "gap" or "event"
  open,       \* the browser's socket is open
  delivered,  \* events the browser was handed, in order
  covered     \* events published before the browser last read the snapshot

vars == <<kind, handoff, queue, seq, nextSeq, ws, owes, wire, buffer, overflowed,
          gapPending, pump, open, delivered, covered>>

Kinds == {"status", "preview", "oversize"}
Marker == 0                    \* a relay_gap marker, where an event may stand
Idle == [at |-> "get", ev |-> Marker]
Kind(e) == IF e = Marker THEN "relay_gap" ELSE kind[e]

Init ==
  /\ kind = <<>> /\ handoff = <<>>
  /\ queue = <<>> /\ seq = 0 /\ nextSeq = 1
  /\ ws = Idle /\ owes = FALSE
  /\ wire = <<>>
  /\ buffer = <<>> /\ overflowed = FALSE /\ gapPending = FALSE
  /\ pump = Idle
  /\ open = TRUE /\ delivered = <<>> /\ covered = 0

-------------------------------------------------------------------------------
(* EventBus *)

(* Mutant: room is made with get_nowait(), which is a read. *)
Offer_Reads(e) ==
  /\ seq' = seq + 1
  /\ IF Len(queue) < SubscriberMax
     THEN queue' = Append(queue, [seq |-> seq + 1, ev |-> e]) /\ UNCHANGED nextSeq
     ELSE /\ queue' = Append(Tail(queue), [seq |-> seq + 1, ev |-> e])
          /\ nextSeq' = Head(queue).seq + 1

(* _offer: a full queue loses its oldest entry, and the numbers keep the hole. *)
Offer(e) ==
  /\ seq' = seq + 1
  /\ queue' = Append(IF Len(queue) < SubscriberMax THEN queue ELSE Tail(queue),
                     [seq |-> seq + 1, ev |-> e])
  /\ UNCHANGED nextSeq

(* publish on the subscriber's own loop. *)
Publish(k) ==
  /\ Len(kind) < MaxEvents
  /\ kind' = Append(kind, k)
  /\ Offer(Len(kind) + 1)
  /\ UNCHANGED <<handoff, ws, owes, wire, buffer, overflowed, gapPending, pump, open,
                 delivered, covered>>

(* publish on another thread (_fan_out): the put is handed to the loop.        *)
PublishElsewhere ==
  /\ Len(kind) < MaxEvents
  /\ kind' = Append(kind, "status")
  /\ handoff' = Append(handoff, Len(kind) + 1)
  /\ UNCHANGED <<queue, seq, nextSeq, ws, owes, wire, buffer, overflowed, gapPending,
                 pump, open, delivered, covered>>

(* _offer_all, run by the loop. *)
OfferAll ==
  /\ handoff # <<>>
  /\ Offer(Head(handoff))
  /\ handoff' = Tail(handoff)
  /\ UNCHANGED <<kind, ws, owes, wire, buffer, overflowed, gapPending, pump, open,
                 delivered, covered>>

-------------------------------------------------------------------------------
(* _run_ws and _send_ws_event *)

(* The next read of the subscription: a marker where the numbers have a hole.  *)
NextRead == IF Head(queue).seq # nextSeq THEN Marker ELSE Head(queue).ev

(* q.get(), and the encoding: an event that cannot be encoded is dropped and   *)
(* owes a marker; otherwise an owed marker goes ahead, unless this is one.     *)
WsTake ==
  /\ ws.at = "get" /\ queue # <<>>
  /\ LET e == NextRead IN
     /\ IF Head(queue).seq # nextSeq
        THEN nextSeq' = Head(queue).seq /\ UNCHANGED queue
        ELSE nextSeq' = Head(queue).seq + 1 /\ queue' = Tail(queue)
     /\ IF Kind(e) = "oversize"
        THEN owes' = TRUE /\ UNCHANGED ws
        ELSE /\ ws' = [at |-> IF owes /\ e # Marker THEN "marker" ELSE "event", ev |-> e]
             /\ UNCHANGED owes
  /\ UNCHANGED <<kind, handoff, seq, wire, buffer, overflowed, gapPending, pump, open,
                 delivered, covered>>

WsSendMarker ==
  /\ ws.at = "marker" /\ Len(wire) < WireMax
  /\ wire' = Append(wire, Marker)
  /\ owes' = FALSE
  /\ ws' = [ws EXCEPT !.at = "event"]
  /\ UNCHANGED <<kind, handoff, queue, seq, nextSeq, buffer, overflowed, gapPending, pump,
                 open, delivered, covered>>

WsSendEvent ==
  /\ ws.at = "event" /\ Len(wire) < WireMax
  /\ wire' = Append(wire, ws.ev)
  /\ owes' = FALSE
  /\ ws' = Idle
  /\ UNCHANGED <<kind, handoff, queue, seq, nextSeq, buffer, overflowed, gapPending, pump,
                 open, delivered, covered>>

-------------------------------------------------------------------------------
(* _on_ws_data and _enqueue_viewer *)

Coalesced(e) == Kind(e) = "preview"
Slots(P(_)) == {i \in DOMAIN buffer : P(buffer[i])}
Least(S) == CHOOSE i \in S : \A j \in S : i <= j
Greatest(S) == CHOOSE i \in S : \A j \in S : j <= i

(* Mutant: the oldest queued event of the kind gives its slot. *)
SlotFor_Oldest(S) == Least(S)

(* replace_newest *)
SlotFor(S) == Greatest(S)

(* drop_oldest: the oldest event not of the coalesced kinds, else the oldest.  *)
DropSlot ==
  LET S == Slots(LAMBDA e : ~Coalesced(e)) IN
  IF S # {} THEN Least(S) ELSE 1

Enqueue(e) ==
  LET same == Slots(Coalesced) IN
  IF Len(buffer) < EgressMax
  THEN /\ buffer' = Append(buffer, e)
       /\ UNCHANGED <<overflowed, gapPending>>
  ELSE /\ overflowed' = TRUE
       /\ IF Coalesced(e) /\ same # {}
          THEN buffer' = [buffer EXCEPT ![SlotFor(same)] = e] /\ UNCHANGED gapPending
          ELSE /\ buffer' = Append(RemoveAt(buffer, DropSlot), e)
               /\ gapPending' = TRUE

OnWsData ==
  /\ wire # <<>>
  /\ wire' = Tail(wire)
  /\ IF open THEN Enqueue(Head(wire)) ELSE UNCHANGED <<buffer, overflowed, gapPending>>
  /\ UNCHANGED <<kind, handoff, queue, seq, nextSeq, ws, owes, pump, open, delivered, covered>>

-------------------------------------------------------------------------------
(* _pump_viewer *)

(* An event is taken; a gap owed is sent ahead of it, and no longer owed from  *)
(* before that send.                                                           *)
PumpTake ==
  /\ open /\ pump.at = "get" /\ buffer # <<>>
  /\ pump' = [at |-> IF gapPending THEN "gap" ELSE "event", ev |-> Head(buffer)]
  /\ buffer' = Tail(buffer)
  /\ gapPending' = FALSE
  /\ UNCHANGED <<kind, handoff, queue, seq, nextSeq, ws, owes, wire, overflowed, open,
                 delivered, covered>>

PumpSendGap ==
  /\ open /\ pump.at = "gap"
  /\ covered' = Len(kind)
  /\ pump' = [pump EXCEPT !.at = "event"]
  /\ UNCHANGED <<kind, handoff, queue, seq, nextSeq, ws, owes, wire, buffer, overflowed,
                 gapPending, open, delivered>>

(* The event reaches the browser; a buffer that overflowed and is full again   *)
(* disconnects it, an empty one clears the flag.                               *)
PumpSendEvent ==
  /\ open /\ pump.at = "event"
  /\ IF pump.ev = Marker
     THEN covered' = Len(kind) /\ UNCHANGED delivered
     ELSE delivered' = Append(delivered, pump.ev) /\ UNCHANGED covered
  /\ pump' = Idle
  /\ open' = ~(overflowed /\ Len(buffer) >= EgressMax)
  /\ overflowed' = (overflowed /\ buffer # <<>>)
  /\ UNCHANGED <<kind, handoff, queue, seq, nextSeq, ws, owes, wire, buffer, gapPending>>

Next ==
  \/ \E k \in Kinds : Publish(k)
  \/ PublishElsewhere \/ OfferAll
  \/ WsTake \/ WsSendMarker \/ WsSendEvent
  \/ OnWsData \/ PumpTake \/ PumpSendGap \/ PumpSendEvent

Spec == Init /\ [][Next]_vars

-------------------------------------------------------------------------------
InHand(h) == IF h.at = "get" THEN {} ELSE {h.ev}

(* What is on its way: events, and markers. *)
Travelling ==
  Range(handoff) \union {q.ev : q \in Range(queue)} \union InHand(ws)
    \union Range(wire) \union Range(buffer) \union InHand(pump)

(* A later event of a coalesced kind, delivered or on its way, stands for it.  *)
Superseded(e) ==
  /\ Coalesced(e)
  /\ \E d \in Travelling \union Range(delivered) : d > e /\ Coalesced(d)

Lost(e) == e > covered /\ e \notin Travelling \union Range(delivered) /\ ~Superseded(e)

GapOwed ==
  \/ queue # <<>> /\ Head(queue).seq # nextSeq
  \/ owes \/ ws.at = "marker"
  \/ Marker \in Travelling
  \/ gapPending \/ pump.at = "gap"

(* While a browser's socket is open, an event it will never be handed, which   *)
(* no later snapshot read and no later event of its kind makes up for, is one  *)
(* some hop still owes a marker for: nothing is lost without the browser being *)
(* told (Subscription._get, _send_ws_event, _enqueue_viewer, _pump_viewer).    *)
NoSilentLoss == open /\ (\E e \in DOMAIN kind : Lost(e)) => GapOwed

(* A browser is never handed an older preview after a newer one, however the   *)
(* relay coalesced them (_EgressBuffer.replace_newest).                        *)
NewestLast ==
  \A i, j \in DOMAIN delivered :
    i < j /\ Coalesced(delivered[i]) /\ Coalesced(delivered[j]) => delivered[i] < delivered[j]
===============================================================================

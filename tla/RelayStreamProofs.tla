--------------------------- MODULE RelayStreamProofs ---------------------------
(* The streams of remote access: whose frames are whose, and what a response   *)
(* that ended cleanly means, for every number of sockets, requests and faults. *)
EXTENDS RelayProofs

-------------------------------------------------------------------------------
(* Frames in a queue *)

Items(s) == {s[i] : i \in DOMAIN s}

LEMMA ItemsEmpty == Items(<<>>) = {}
  BY DEF Items

LEMMA ItemsType ==
  ASSUME NEW S, NEW s \in Seq(S)
  PROVE  Items(s) \subseteq S
  BY DEF Items

LEMMA ItemsAppend ==
  ASSUME NEW S, NEW s \in Seq(S), NEW f \in S
  PROVE  Items(Append(s, f)) = Items(s) \union {f}
  <1>1. DOMAIN s = 1 .. Len(s) /\ Len(s) \in Nat /\ DOMAIN Append(s, f) = 1 .. Len(s) + 1
    OBVIOUS
  <1>2. \A i \in 1 .. Len(s) : Append(s, f)[i] = s[i]
    OBVIOUS
  <1>3. Append(s, f)[Len(s) + 1] = f
    OBVIOUS
  <1> QED
    BY <1>1, <1>2, <1>3 DEF Items

LEMMA ItemsTail ==
  ASSUME NEW S, NEW s \in Seq(S), s # <<>>
  PROVE  /\ Items(Tail(s)) \subseteq Items(s)
         /\ Head(s) \in Items(s)
  <1>1. DOMAIN s = 1 .. Len(s) /\ Len(s) \in Nat \ {0} /\ DOMAIN Tail(s) = 1 .. Len(s) - 1
    OBVIOUS
  <1>2. \A i \in 1 .. Len(s) - 1 : Tail(s)[i] = s[i + 1]
    OBVIOUS
  <1>3. Head(s) = s[1]
    OBVIOUS
  <1> QED
    BY <1>1, <1>2, <1>3 DEF Items

LEMMA ItemsConcat ==
  ASSUME NEW S, NEW s \in Seq(S), NEW u \in Seq(S)
  PROVE  Items(s \o u) = Items(s) \union Items(u)
  <1>1. /\ DOMAIN s = 1 .. Len(s) /\ DOMAIN u = 1 .. Len(u)
        /\ Len(s) \in Nat /\ Len(u) \in Nat /\ DOMAIN (s \o u) = 1 .. Len(s) + Len(u)
    OBVIOUS
  <1>2. \A i \in 1 .. Len(s) + Len(u) : (s \o u)[i] = IF i <= Len(s) THEN s[i] ELSE u[i - Len(s)]
    OBVIOUS
  <1>3. \A i \in 1 .. Len(s) : (s \o u)[i] = s[i] /\ i \in 1 .. Len(s) + Len(u)
    BY <1>1, <1>2
  <1>4. \A i \in 1 .. Len(u) : (s \o u)[i + Len(s)] = u[i] /\ i + Len(s) \in 1 .. Len(s) + Len(u)
    BY <1>1, <1>2
  <1>5. \A i \in 1 .. Len(s) + Len(u) :
          \/ i \in 1 .. Len(s)
          \/ i - Len(s) \in 1 .. Len(u) /\ (s \o u)[i] = u[i - Len(s)]
    BY <1>1, <1>2
  <1>6. Items(s) \subseteq Items(s \o u)
    BY <1>1, <1>3 DEF Items
  <1>7. Items(u) \subseteq Items(s \o u)
    BY <1>1, <1>4 DEF Items
  <1>8. Items(s \o u) \subseteq Items(s) \union Items(u)
    BY <1>1, <1>3, <1>5 DEF Items
  <1> QED
    BY <1>6, <1>7, <1>8

LEMMA ItemsOneTwo ==
  ASSUME NEW a, NEW b
  PROVE  Items(<<a>>) = {a} /\ Items(<<a, b>>) = {a, b}
  <1>1. DOMAIN <<a>> = {1} /\ DOMAIN <<a, b>> = {1, 2}
    OBVIOUS
  <1> QED
    BY <1>1 DEF Items

-------------------------------------------------------------------------------
(* What a step does to the wires and the exchanges *)

(* A browser's request is opened on the tunnel browsers are routed to. *)
Opens(r) ==
  LET c == connections  sid == nextSid[c] + 1 IN
  /\ c \in Conns /\ http[r].st = "idle"
  /\ nextSid' = [nextSid EXCEPT ![c] = sid]
  /\ down' = OnWire(down, c, Frame("REQ_OPEN", sid, r))
  /\ http' = [http EXCEPT ![r] = [@ EXCEPT !.st = "upload", !.conn = c, !.sid = sid, !.reg = TRUE]]

(* Any other step of a browser's handler: it stays on its stream or leaves it, *)
(* and says nothing but REQ_DATA and REQ_ABORT on it.                          *)
GoesOn(r) ==
  /\ \A s \in Reqs : s # r => http'[s] = http[s]
  /\ \A c \in Conns : nextSid[c] <= nextSid'[c]
  /\ \/ /\ http'[r].conn = NoConn /\ http'[r].failed = FALSE /\ Items(http'[r].q) = {}
        /\ \/ http'[r].st = "failed" /\ http[r].st \in {"idle", "upload", "wait", "body"}
           \/ /\ http'[r].st = "ok" /\ http[r].st = "body" /\ http[r].failed = FALSE
              /\ \E f \in Items(http[r].q) : f.type = "RESP_EOF"
     \/ /\ http'[r].conn = http[r].conn /\ http'[r].sid = http[r].sid
        /\ http'[r].failed = http[r].failed
        /\ \/ http'[r].st = http[r].st
           \/ http[r].st = "upload" /\ http'[r].st \in {"wait", "body"}
  /\ \A c \in Conns :
       \/ down'[c] = down[c]
       \/ /\ c = http[r].conn
          /\ \E type \in {"REQ_DATA", "REQ_ABORT"} :
               down'[c] = Append(down[c], Frame(type, http[r].sid, r))
  /\ Items(http'[r].q) \subseteq Items(http[r].q)
  /\ Items(http'[r].got) \subseteq Items(http[r].got) \union Items(http[r].q)

LEMMA BrowserEffect ==
  ASSUME TypeInv, NEW r \in Reqs,
         \/ RefuseRequest(r) \/ OpenRequest(r) \/ SendBody(r) \/ UploadFails(r)
         \/ HeadTimeout(r) \/ TakeChunk(r) \/ BodyBroken(r) \/ AbortOverflow(r)
  PROVE  UNCHANGED <<sock, up, connections>> /\ (Opens(r) \/ GoesOn(r))
  <1> USE RelayMuxAssumption DEF TypeInv, MuxType
  <1>1. UNCHANGED <<sock, up, connections>>
    BY DEF RefuseRequest, OpenRequest, SendBody, UploadFails, HeadTimeout, TakeChunk, BodyBroken,
           AbortOverflow
  <1>2. /\ http[r] \in Exchanges /\ http[r].sid \in Nat
        /\ http[r].q \in Seq(UpFrames) /\ http[r].got \in Seq(UpFrames)
    BY DEF Exchanges
  <1>3. ASSUME nextSid' = nextSid \/ nextSid' = [nextSid EXCEPT ![connections] = @ + 1]
        PROVE  \A c \in Conns : nextSid[c] <= nextSid'[c]
    <2> TAKE c \in Conns
    <2>1. nextSid[c] \in Nat
      OBVIOUS
    <2>2. nextSid'[c] = nextSid[c] \/ nextSid'[c] = nextSid[c] + 1
      BY <1>3
    <2> QED
      BY <2>1, <2>2
  <1>4. ASSUME NEW how \in {"ok", "failed"}, NEW h,
               h = Ended(r, how) \/ h = [Ended(r, how) EXCEPT !.ab = TRUE, !.reg = FALSE]
        PROVE  h.conn = NoConn /\ h.q = <<>> /\ h.got = http[r].got /\ h.st = how /\ h.failed = FALSE
    BY <1>4 DEF Ended, InitHttp
  <1>5. ASSUME UNCHANGED down
        PROVE  \A c \in Conns : down'[c] = down[c]
    BY <1>5
  <1>6. ASSUME NEW h, AbortWith(r, h)
        PROVE  /\ \A s \in Reqs : s # r => http'[s] = http[s]
               /\ http'[r] = [h EXCEPT !.ab = TRUE, !.reg = FALSE]
               /\ \A c \in Conns :
                    \/ down'[c] = down[c]
                    \/ c = http[r].conn /\ down'[c] = Append(down[c], Frame("REQ_ABORT", http[r].sid, r))
    <2>1. Frame("REQ_ABORT", http[r].sid, r) \in DownFrames
      BY <1>2 DEF Frame, DownFrames
    <2>2. down' = down \/ down' = OnWire(down, http[r].conn, Frame("REQ_ABORT", http[r].sid, r))
      BY <1>6 DEF AbortWith
    <2>3. \A c \in Conns :
                    \/ down'[c] = down[c]
                    \/ c = http[r].conn /\ down'[c] = Append(down[c], Frame("REQ_ABORT", http[r].sid, r))
      <3> TAKE c \in Conns
      <3> DEFINE f == Frame("REQ_ABORT", http[r].sid, r)
      <3>1. OnWire(down, http[r].conn, f)[c] = down[c]
            \/ (c = http[r].conn /\ OnWire(down, http[r].conn, f)[c] = Append(down[c], f))
        <4> HIDE DEF f
        <4> QED
          BY DEF OnWire
      <3> QED
        BY <2>2, <3>1
    <2> QED
      BY <1>6, <2>3 DEF AbortWith
  <1>7. CASE RefuseRequest(r)
    <2>0. http'[r] = Ended(r, "failed") /\ \A s \in Reqs : s # r => http'[s] = http[s]
      BY <1>7 DEF RefuseRequest
    <2>1. GoesOn(r)
      BY <1>3, <1>4, <1>5, <1>7, <2>0, ItemsEmpty DEF RefuseRequest, GoesOn
    <2> QED
      BY <1>1, <2>1
  <1>8. CASE OpenRequest(r)
    <2>1. /\ nextSid' = [nextSid EXCEPT ![connections] = nextSid[connections] + 1]
          /\ http[r].st = "idle"
      BY <1>8 DEF OpenRequest
    <2>2. CASE http' = [http EXCEPT ![r] = Ended(r, "failed")] /\ UNCHANGED <<down, leases>>
      <3>1. http'[r] = Ended(r, "failed") /\ \A s \in Reqs : s # r => http'[s] = http[s]
        BY <2>2
      <3>2. GoesOn(r)
        BY <1>3, <1>4, <1>5, <2>1, <2>2, <3>1, ItemsEmpty DEF GoesOn
      <3> QED
        BY <1>1, <3>2
    <2>3. CASE Opens(r)
      BY <1>1, <2>3
    <2> QED
      BY <1>8, <2>2, <2>3 DEF OpenRequest, Opens
  <1>9. CASE SendBody(r)
    <2>1. Frame("REQ_DATA", http[r].sid, r) \in DownFrames
      BY <1>2 DEF Frame, DownFrames
    <2>2. \A c \in Conns :
            \/ down'[c] = down[c]
            \/ c = http[r].conn /\ down'[c] = Append(down[c], Frame("REQ_DATA", http[r].sid, r))
      <3> TAKE c \in Conns
      <3> DEFINE f == Frame("REQ_DATA", http[r].sid, r)
      <3>1. OnWire(down, http[r].conn, f)[c] = down[c]
            \/ (c = http[r].conn /\ OnWire(down, http[r].conn, f)[c] = Append(down[c], f))
        <4> HIDE DEF f
        <4> QED
          BY DEF OnWire
      <3> QED
        BY <1>9, <3>1 DEF SendBody
    <2>3. /\ http[r].st = "upload"
          /\ \E st \in {"wait", "body"} : http' = [http EXCEPT ![r] = [http[r] EXCEPT !.st = st]]
      BY <1>9 DEF SendBody
    <2>4. /\ \A s \in Reqs : s # r => http'[s] = http[s]
          /\ http'[r].conn = http[r].conn /\ http'[r].sid = http[r].sid
          /\ http'[r].q = http[r].q /\ http'[r].got = http[r].got
          /\ http'[r].failed = http[r].failed /\ http'[r].st \in {"wait", "body"}
      BY <1>2, <2>3 DEF Exchanges
    <2>5. GoesOn(r)
      BY <1>3, <1>9, <2>2, <2>3, <2>4 DEF SendBody, GoesOn
    <2> QED
      BY <1>1, <2>5
  <1>10. CASE /\ UploadFails(r) \/ HeadTimeout(r) \/ BodyBroken(r) \/ TakeChunk(r)
              /\ AbortWith(r, Ended(r, "failed"))
    <2>1. nextSid' = nextSid /\ http[r].st \in {"upload", "wait", "body"}
      BY <1>10 DEF UploadFails, HeadTimeout, BodyBroken, TakeChunk
    <2>2. GoesOn(r)
      BY <1>3, <1>4, <1>6, <1>10, <2>1, ItemsEmpty DEF GoesOn
    <2> QED
      BY <1>1, <2>2
  <1>11. CASE TakeChunk(r) /\ ~http[r].failed
    <2>1. /\ http[r].q # <<>> /\ nextSid' = nextSid /\ down' = down
          /\ http[r].st = "body" /\ http[r].failed = FALSE
      BY <1>2, <1>11 DEF TakeChunk, Exchanges
    <2>2. Items(Tail(http[r].q)) \subseteq Items(http[r].q) /\ Head(http[r].q) \in Items(http[r].q)
          /\ Head(http[r].q) \in UpFrames
      BY <1>2, <2>1, ItemsTail
    <2>3. CASE Head(http[r].q).type = "RESP_EOF" /\ http' = [http EXCEPT ![r] = Ended(r, "ok")]
      <3>1. http'[r] = Ended(r, "ok") /\ \A s \in Reqs : s # r => http'[s] = http[s]
        BY <2>3
      <3>2. GoesOn(r)
        BY <1>3, <1>4, <2>1, <2>2, <2>3, <3>1, ItemsEmpty DEF GoesOn
      <3> QED
        BY <1>1, <3>2
    <2>4. CASE http' = [http EXCEPT ![r] =
                          [http[r] EXCEPT !.q = Tail(@), !.got = Append(@, Head(http[r].q))]]
      <3>1. /\ \A s \in Reqs : s # r => http'[s] = http[s]
            /\ http'[r].conn = http[r].conn /\ http'[r].sid = http[r].sid
            /\ http'[r].q = Tail(http[r].q) /\ http'[r].got = Append(http[r].got, Head(http[r].q))
            /\ http'[r].st = http[r].st /\ http'[r].failed = http[r].failed
        BY <1>2, <2>4 DEF Exchanges
      <3>2. Items(http'[r].got) = Items(http[r].got) \union {Head(http[r].q)}
        BY <1>2, <2>2, <3>1, ItemsAppend
      <3>3. GoesOn(r)
        BY <1>3, <2>1, <2>2, <3>1, <3>2 DEF GoesOn
      <3> QED
        BY <1>1, <3>3
    <2> QED
      BY <1>11, <2>3, <2>4 DEF TakeChunk
  <1>12. CASE AbortOverflow(r)
    <2>1. nextSid' = nextSid /\ AbortWith(r, http[r])
      BY <1>12 DEF AbortOverflow
    <2>2. /\ http'[r].conn = http[r].conn /\ http'[r].sid = http[r].sid
          /\ http'[r].q = http[r].q /\ http'[r].got = http[r].got
          /\ http'[r].st = http[r].st /\ http'[r].failed = http[r].failed
      <3>1. http'[r] = [http[r] EXCEPT !.ab = TRUE, !.reg = FALSE]
        BY <1>6, <2>1
      <3> QED
        BY <1>2, <3>1 DEF Exchanges
    <2>3. GoesOn(r)
      BY <1>3, <1>6, <2>1, <2>2 DEF GoesOn
    <2> QED
      BY <1>1, <2>3
  <1> QED
    BY <1>7, <1>8, <1>9, <1>10, <1>11, <1>12 DEF UploadFails, HeadTimeout, BodyBroken, TakeChunk

(* A step of the relay's own: it reads what the home sent, answers a HELLO,    *)
(* and gives no exchange another stream.                                       *)
Relays ==
  /\ nextSid' = nextSid
  /\ \A r \in Reqs : http'[r].conn = http[r].conn /\ http'[r].sid = http[r].sid
  /\ \A c \in Conns :
       /\ Items(up'[c]) \subseteq Items(up[c])
       /\ \/ down'[c] = down[c]
          \/ \E type \in {"ACK", "NACK"} : down'[c] = Append(down[c], Frame(type, 0, "relay"))
       /\ phase'[c] = "hello" => phase[c] = "hello" /\ up'[c] = up[c] /\ down'[c] = down[c]
       /\ phase[c] = "hello" /\ phase'[c] # "hello" =>
            (up[c] # <<>> /\ up'[c] = Tail(up[c])) \/ (up[c] = <<>> /\ up'[c] = up[c])

LEMMA ScopeEffect ==
  ASSUME TypeInv, NEW c \in Conns, ScopeStep(c)
  PROVE  Relays
  <1> USE DEF TypeInv
  <1>1. nextSid' = nextSid
    BY DEF ScopeStep, Hello, NoHello, Refuse, AckSent, AckTooLate, AckFails, FencePrior, ReadFrame,
           ReadEnds, PongStarved, EndAffinity, EndClose, muxVars
  <1>2. http \in [Reqs -> Exchanges] /\ down \in [Conns -> Seq(DownFrames)]
        /\ up \in [Conns -> Seq(UpFrames)] /\ phase \in [Conns -> Phases]
    BY DEF MuxType, RegType
  <1>3. \A r \in Reqs : http'[r].conn = http[r].conn /\ http'[r].sid = http[r].sid
    <2>1. ASSUME NEW d, Shutdown(d)
          PROVE  \A r \in Reqs : http'[r].conn = http[r].conn /\ http'[r].sid = http[r].sid
      BY <1>2, <2>1, ShutdownKeeps
    <2>2. CASE AckTooLate(c) \/ AckFails(c) \/ FencePrior(c) \/ EndClose(c)
      BY <2>1, <2>2 DEF AckTooLate, AckFails, FencePrior, EndClose, CloseConnection
    <2>3. CASE ReadFrame(c)
      <3>1. Head(up[c]) \in UpFrames
        BY <1>2, <2>3 DEF ReadFrame
      <3>2. CASE Route(c, Head(up[c]))
        BY <1>2, <3>1, <3>2, RouteKeeps
      <3> QED
        BY <2>3, <3>2 DEF ReadFrame
    <2>4. CASE \/ Hello(c) \/ NoHello(c) \/ Refuse(c) \/ AckSent(c) \/ ReadEnds(c)
               \/ PongStarved(c) \/ EndAffinity(c)
      BY <2>4 DEF Hello, NoHello, Refuse, AckSent, ReadEnds, PongStarved, EndAffinity, muxVars
    <2> QED
      BY <2>2, <2>3, <2>4 DEF ScopeStep
  <1>4. ASSUME NEW d \in Conns
        PROVE  Items(up'[d]) \subseteq Items(up[d])
    <2>1. CASE Hello(c) \/ ReadFrame(c)
      <3>1. up[c] # <<>> /\ up' = [up EXCEPT ![c] = Tail(@)]
        BY <2>1 DEF Hello, ReadFrame
      <3>2. CASE d = c
        BY <1>2, <3>1, <3>2, ItemsTail
      <3>3. CASE d # c
        BY <1>2, <3>1, <3>3
      <3> QED
        BY <3>2, <3>3
    <2>2. CASE EndAffinity(c)
      <3>1. up'[d] = up[d] \/ up'[d] = <<>>
        BY <1>2, <2>2 DEF EndAffinity
      <3> QED
        BY <3>1, ItemsEmpty
    <2>3. CASE up' = up
      BY <2>3
    <2> QED
      BY <2>1, <2>2, <2>3 DEF ScopeStep, NoHello, Refuse, AckSent, AckTooLate, AckFails, FencePrior,
                              ReadEnds, PongStarved, EndClose, muxVars
  <1>5. ASSUME NEW d \in Conns
        PROVE  \/ down'[d] = down[d]
               \/ /\ phase[d] \in {"refusing", "acking"}
                  /\ \E type \in {"ACK", "NACK"} : down'[d] = Append(down[d], Frame(type, 0, "relay"))
    <2>1. CASE Refuse(c) \/ AckSent(c) \/ AckTooLate(c)
      <3>1. /\ phase[c] \in {"refusing", "acking"}
            /\ \E type \in {"ACK", "NACK"} : down' = OnWire(down, c, Frame(type, 0, "relay"))
        BY <2>1 DEF Refuse, AckSent, AckTooLate
      <3> QED
        BY <1>2, <3>1 DEF OnWire
    <2>2. CASE down' = down
      BY <2>2
    <2> QED
      BY <2>1, <2>2 DEF ScopeStep, Hello, NoHello, AckFails, FencePrior, ReadFrame, ReadEnds,
                        PongStarved, EndAffinity, EndClose, muxVars
  <1>7. PICK p \in Phases \ {"hello"} : phase' = phase \/ phase' = [phase EXCEPT ![c] = p]
    <2>1. phase' = phase \/ \E p \in Phases \ {"hello"} : phase' = [phase EXCEPT ![c] = p]
      BY DEF ScopeStep, Hello, NoHello, Refuse, AckSent, AckTooLate, AckFails, FencePrior, ReadFrame,
             ReadEnds, PongStarved, EndAffinity, EndClose, regVars, Phases
    <2> QED
      BY <2>1 DEF Phases
  <1>8. ASSUME NEW d \in Conns, phase'[d] = "hello"
        PROVE  phase[d] = "hello" /\ up'[d] = up[d] /\ down'[d] = down[d]
    <2>1. phase[d] = "hello" /\ (d = c => phase' = phase)
      BY <1>2, <1>7, <1>8
    <2>2. down'[d] = down[d]
      BY <1>5, <2>1
    <2>3. d = c => ~(Hello(c) \/ ReadFrame(c) \/ EndAffinity(c))
      <3>1. phase'[c] # phase[c] \/ phase[c] # "hello" \/ ~(Hello(c) \/ ReadFrame(c) \/ EndAffinity(c))
        BY <1>2 DEF Hello, ReadFrame, EndAffinity
      <3> QED
        BY <2>1, <3>1
    <2>4. up' = up \/ (d # c /\ \E q : up' = [up EXCEPT ![c] = q])
      BY <2>3 DEF ScopeStep, Hello, NoHello, Refuse, AckSent, AckTooLate, AckFails, FencePrior,
                  ReadFrame, ReadEnds, PongStarved, EndAffinity, EndClose, muxVars
    <2>5. up'[d] = up[d]
      BY <1>2, <2>4
    <2> QED
      BY <2>1, <2>2, <2>5
  <1>9. ASSUME NEW d \in Conns, phase[d] = "hello", phase'[d] # "hello"
        PROVE  (up[d] # <<>> /\ up'[d] = Tail(up[d])) \/ (up[d] = <<>> /\ up'[d] = up[d])
    <2>1. d = c
      BY <1>2, <1>7, <1>9
    <2>2. Hello(c) \/ NoHello(c)
      BY <1>9, <2>1 DEF ScopeStep, Refuse, AckSent, AckTooLate, AckFails, FencePrior, ReadFrame,
                        ReadEnds, PongStarved, EndAffinity, EndClose
    <2> QED
      BY <1>2, <2>1, <2>2 DEF Hello, NoHello
  <1> QED
    BY <1>1, <1>3, <1>4, <1>5, <1>8, <1>9 DEF Relays

LEMMA ReloadEffect ==
  ASSUME TypeInv, EvictHome \/ Revoke \/ Provision
  PROVE  Relays
  <1>1. UNCHANGED <<up, down, nextSid, phase>>
    BY DEF EvictHome, Revoke, Provision, muxVars
  <1>2. http' = http \/ \E c : Shutdown(c)
    BY DEF EvictHome, Revoke, Provision, muxVars, CloseConnection
  <1>3. \A r \in Reqs : http'[r].conn = http[r].conn /\ http'[r].sid = http[r].sid
    BY <1>2, ShutdownKeeps DEF TypeInv, MuxType
  <1> QED
    BY <1>1, <1>3 DEF Relays

(* Where stream n of socket c is known to belong to request r. *)
DownTag(c, n, r) ==
  \E f \in Items(down[c]) : /\ f.type \in {"REQ_OPEN", "REQ_DATA", "REQ_ABORT"}
                            /\ f.n = n /\ f.of = r
UpTag(c, n, r) == \E f \in Items(up[c]) : f.type # "HELLO" /\ f.n = n /\ f.of = r
TaskTag(c, n, r) == \E t \in tasks : t.conn = c /\ t.sid = n /\ t.of = r
HttpTag(c, n, r) == http[r].conn = c /\ http[r].sid = n

(* A step of the home, but for a dial, or a fault: nothing is said and no task *)
(* is run but for a stream of a task or of a request read from its socket.     *)
Speaks ==
  /\ UNCHANGED <<nextSid, http, connections, phase>>
  /\ \A c \in Conns :
       /\ Items(down'[c]) \subseteq Items(down[c])
       /\ \/ up'[c] = up[c] \/ up'[c] = <<>>
          \/ \E n \in Nat, r \in Reqs : TaskTag(c, n, r) \/ DownTag(c, n, r)
       /\ \A f \in Items(up'[c]) :
            \/ f \in Items(up[c])
            \/ /\ f.type # "HELLO" /\ f.of \in Reqs
               /\ TaskTag(c, f.n, f.of) \/ DownTag(c, f.n, f.of)
  /\ \A u \in tasks' : TaskTag(u.conn, u.sid, u.of) \/ DownTag(u.conn, u.sid, u.of)
  /\ \/ ws' = NoConn
     \/ ws' = ws /\ link' = link
     \/ ws' = ws /\ Items(down[ws]) # {}

(* Frames of one stream go up on one socket. *)
LEMMA SendEffect ==
  ASSUME TypeInv, NEW c \in Conns, NEW n \in Nat, NEW r \in Reqs, NEW fs \in Seq(UpFrames),
         SendAll(c, fs), TaskTag(c, n, r) \/ DownTag(c, n, r),
         \A f \in Items(fs) : f.type # "HELLO" /\ f.n = n /\ f.of = r
  PROVE  \A d \in Conns :
           /\ \/ up'[d] = up[d] \/ up'[d] = <<>>
              \/ \E m \in Nat, s \in Reqs : TaskTag(d, m, s) \/ DownTag(d, m, s)
           /\ \A f \in Items(up'[d]) :
                \/ f \in Items(up[d])
                \/ /\ f.type # "HELLO" /\ f.of \in Reqs
                   /\ TaskTag(d, f.n, f.of) \/ DownTag(d, f.n, f.of)
  <1> TAKE d \in Conns
  <1>1. up[d] \in Seq(UpFrames)
    BY DEF TypeInv, MuxType
  <1>2. up'[d] = up[d] \/ (d = c /\ up'[d] = up[d] \o fs)
    BY DEF SendAll, TypeInv, MuxType
  <1>3. CASE up'[d] = up[d]
    BY <1>3
  <1>4. CASE d = c /\ up'[d] = up[d] \o fs
    <2>1. Items(up'[d]) = Items(up[d]) \union Items(fs)
      BY <1>1, <1>4, ItemsConcat
    <2> QED
      BY <1>4, <2>1
  <1> QED
    BY <1>2, <1>3, <1>4

LEMMA DispatchEffect ==
  ASSUME TypeInv, Dispatch
  PROVE  Speaks
  <1> DEFINE f == Head(down[ws])
  <1>1. ws \in Conns /\ down[ws] # <<>> /\ down[ws] \in Seq(DownFrames)
        /\ down \in [Conns -> Seq(DownFrames)]
    BY RelayMuxAssumption DEF Dispatch, TypeInv, HomeType, MuxType
  <1>2. f \in Items(down[ws]) /\ f \in DownFrames /\ Items(Tail(down[ws])) \subseteq Items(down[ws])
    BY <1>1, ItemsTail
  <1>3. f.n \in Nat /\ (f.type \in {"REQ_OPEN", "REQ_DATA", "REQ_ABORT"} => f.of \in Reqs)
    BY <1>2 DEF DownFrames
  <1>4. \A c \in Conns : Items(down'[c]) \subseteq Items(down[c])
    BY <1>1, <1>2 DEF Dispatch
  <1>5. /\ f.type \in {"REQ_OPEN", "REQ_DATA", "REQ_ABORT"}
        /\ DispatchOpen(f) \/ DispatchBody(f) \/ DispatchOverflow(f) \/ DispatchAbort(f)
    BY DEF Dispatch, DispatchOpen, DispatchBody, DispatchOverflow, DispatchAbort
  <1> HIDE DEF f
  <1>6. f.of \in Reqs /\ DownTag(ws, f.n, f.of)
    BY <1>2, <1>3, <1>5 DEF DownTag
  <1> DEFINE ends == <<Frame("RESP_EOF", f.n, f.of)>>
             both == <<Frame("RESP_HEAD", f.n, f.of), Frame("RESP_EOF", f.n, f.of)>>
  <1>7. up' = up \/ SendAll(ws, both) \/ SendAll(ws, ends)
    BY <1>5 DEF DispatchOpen, DispatchBody, DispatchOverflow, DispatchAbort
  <1>8. /\ ends \in Seq(UpFrames) /\ both \in Seq(UpFrames)
        /\ \A g \in Items(ends) : g.type # "HELLO" /\ g.n = f.n /\ g.of = f.of
        /\ \A g \in Items(both) : g.type # "HELLO" /\ g.n = f.n /\ g.of = f.of
    <2>1. Frame("RESP_HEAD", f.n, f.of) \in UpFrames /\ Frame("RESP_EOF", f.n, f.of) \in UpFrames
      BY <1>3, <1>6 DEF Frame, UpFrames
    <2>2. /\ Items(ends) = {Frame("RESP_EOF", f.n, f.of)}
          /\ Items(both) = {Frame("RESP_HEAD", f.n, f.of), Frame("RESP_EOF", f.n, f.of)}
      BY ItemsOneTwo
    <2>3. /\ Frame("RESP_EOF", f.n, f.of).type # "HELLO" /\ Frame("RESP_HEAD", f.n, f.of).type # "HELLO"
          /\ Frame("RESP_EOF", f.n, f.of).n = f.n /\ Frame("RESP_HEAD", f.n, f.of).n = f.n
          /\ Frame("RESP_EOF", f.n, f.of).of = f.of /\ Frame("RESP_HEAD", f.n, f.of).of = f.of
      BY DEF Frame
    <2> QED
      BY <2>1, <2>2, <2>3
  <1> HIDE DEF ends, both
  <1>9. \A d \in Conns :
          /\ \/ up'[d] = up[d] \/ up'[d] = <<>>
             \/ \E m \in Nat, s \in Reqs : TaskTag(d, m, s) \/ DownTag(d, m, s)
          /\ \A g \in Items(up'[d]) :
               \/ g \in Items(up[d])
               \/ /\ g.type # "HELLO" /\ g.of \in Reqs
                  /\ TaskTag(d, g.n, g.of) \/ DownTag(d, g.n, g.of)
    <2>1. CASE up' = up
      BY <2>1
    <2>2. CASE SendAll(ws, both)
      BY <1>1, <1>3, <1>6, <1>8, <2>2, SendEffect
    <2>3. CASE SendAll(ws, ends)
      BY <1>1, <1>3, <1>6, <1>8, <2>3, SendEffect
    <2> QED
      BY <1>7, <2>1, <2>2, <2>3
  <1>10. \A u \in tasks' : TaskTag(u.conn, u.sid, u.of) \/ DownTag(u.conn, u.sid, u.of)
    <2>1. \A t \in tasks : /\ TaskTag(t.conn, t.sid, t.of)
                           /\ Fence(t).conn = t.conn /\ Fence(t).sid = t.sid /\ Fence(t).of = t.of
      <3> TAKE t \in tasks
      <3>1. t \in TaskSet
        BY DEF TypeInv, HomeType
      <3> QED
        BY <3>1 DEF TaskTag, TaskSet, Fence
    <2>2. \A u \in tasks' :
            u \in tasks \/ u = Task(ws, f.n, f.of) \/ (\E t \in tasks : u = Fence(t))
      <3>1. CASE DispatchOpen(f) \/ DispatchBody(f)
        <4>1. tasks' = tasks \/ tasks' = tasks \union {Task(ws, f.n, f.of)}
          BY <3>1 DEF DispatchOpen, DispatchBody
        <4> QED
          BY <4>1
      <3>2. CASE DispatchOverflow(f)
        <4>1. PICK t \in Addressed(f) : tasks' = Replace(t, Fence(t))
          BY <3>2 DEF DispatchOverflow
        <4>2. t \in tasks
          BY <4>1 DEF Addressed, Listed
        <4> QED
          BY <4>1, <4>2 DEF Replace
      <3>3. CASE DispatchAbort(f)
        BY <3>3 DEF DispatchAbort
      <3> QED
        BY <1>5, <3>1, <3>2, <3>3
    <2>3. /\ Task(ws, f.n, f.of).conn = ws /\ Task(ws, f.n, f.of).sid = f.n
          /\ Task(ws, f.n, f.of).of = f.of
      BY DEF Task
    <2> QED
      BY <1>6, <2>1, <2>2, <2>3
  <1>11. UNCHANGED <<nextSid, http, connections, phase, ws, link>>
    BY DEF Dispatch, regVars
  <1> QED
    BY <1>4, <1>9, <1>10, <1>11 DEF Speaks

LEMMA TaskEffect ==
  ASSUME TypeInv, NEW t \in tasks, Respond(t) \/ HandlerRaises(t) \/ TaskEnds(t)
  PROVE  Speaks
  <1>1. /\ t \in TaskSet /\ t.conn \in Conns /\ t.sid \in Nat /\ t.of \in Reqs
        /\ TaskTag(t.conn, t.sid, t.of)
    BY DEF TypeInv, HomeType, TaskSet, TaskTag
  <1> DEFINE a == Frame("RESP_HEAD", t.sid, t.of)
             b == Frame("RESP_DATA", t.sid, t.of)
             e == Frame("RESP_EOF", t.sid, t.of)
  <1>2. a \in UpFrames /\ b \in UpFrames /\ e \in UpFrames
    BY <1>1 DEF Frame, UpFrames
  <1>3. \A f \in {a, b, e} : f.type # "HELLO" /\ f.n = t.sid /\ f.of = t.of
    BY DEF Frame
  <1>4. up' = up \/ \E fs \in {<<a>>, <<b>>, <<e>>, <<a, e>>} : SendAll(t.conn, fs)
    BY DEF Respond, HandlerRaises, TaskEnds, Wire, muxVars
  <1> HIDE DEF a, b, e
  <1>5. \A fs \in {<<a>>, <<b>>, <<e>>, <<a, e>>} :
          fs \in Seq(UpFrames) /\ Items(fs) \subseteq {a, b, e}
    <2>1. /\ <<a>> \in Seq(UpFrames) /\ <<b>> \in Seq(UpFrames)
          /\ <<e>> \in Seq(UpFrames) /\ <<a, e>> \in Seq(UpFrames)
      BY <1>2
    <2>2. /\ Items(<<a>>) = {a} /\ Items(<<b>>) = {b} /\ Items(<<e>>) = {e}
          /\ Items(<<a, e>>) = {a, e}
      BY ItemsOneTwo
    <2> TAKE fs \in {<<a>>, <<b>>, <<e>>, <<a, e>>}
    <2>3. CASE fs = <<a>>
      BY <2>1, <2>2, <2>3
    <2>4. CASE fs = <<b>>
      BY <2>1, <2>2, <2>4
    <2>5. CASE fs = <<e>>
      BY <2>1, <2>2, <2>5
    <2>6. CASE fs = <<a, e>>
      BY <2>1, <2>2, <2>6
    <2> QED
      BY <2>3, <2>4, <2>5, <2>6
  <1>6. \A d \in Conns :
          /\ \/ up'[d] = up[d] \/ up'[d] = <<>>
             \/ \E m \in Nat, s \in Reqs : TaskTag(d, m, s) \/ DownTag(d, m, s)
          /\ \A g \in Items(up'[d]) :
               \/ g \in Items(up[d])
               \/ /\ g.type # "HELLO" /\ g.of \in Reqs
                  /\ TaskTag(d, g.n, g.of) \/ DownTag(d, g.n, g.of)
    <2>1. CASE up' = up
      BY <2>1
    <2>2. CASE \E fs \in {<<a>>, <<b>>, <<e>>, <<a, e>>} : SendAll(t.conn, fs)
      <3>1. PICK fs \in {<<a>>, <<b>>, <<e>>, <<a, e>>} : SendAll(t.conn, fs)
        BY <2>2
      <3>2. fs \in Seq(UpFrames) /\ \A f \in Items(fs) : f.type # "HELLO" /\ f.n = t.sid /\ f.of = t.of
        BY <1>3, <1>5, <3>1
      <3> QED
        BY <1>1, <3>1, <3>2, SendEffect
    <2> QED
      BY <1>4, <2>1, <2>2
  <1>7. \A u \in tasks' : TaskTag(u.conn, u.sid, u.of) \/ DownTag(u.conn, u.sid, u.of)
    <2>1. \A u \in tasks' : u \in tasks \/ u = [t EXCEPT !.sent = @ + 1]
      BY DEF Respond, HandlerRaises, TaskEnds, Replace
    <2>2. LET u == [t EXCEPT !.sent = @ + 1] IN u.conn = t.conn /\ u.sid = t.sid /\ u.of = t.of
      BY <1>1 DEF TaskSet
    <2> QED
      BY <1>1, <2>1, <2>2 DEF TaskTag
  <1>8. UNCHANGED <<nextSid, http, connections, phase, ws, link, down>>
    BY DEF Respond, HandlerRaises, TaskEnds, regVars, muxVars
  <1> QED
    BY <1>6, <1>7, <1>8 DEF Speaks

LEMMA LinkEffect ==
  ASSUME TypeInv, \/ HelloAcked \/ TeardownStarts \/ TeardownEnds \/ Restart
                  \/ \E c \in Conns : Cut(c)
  PROVE  Speaks
  <1>1. /\ down \in [Conns -> Seq(DownFrames)] /\ up \in [Conns -> Seq(UpFrames)]
        /\ link \in {"hello", "up"} => ws \in Conns
    BY DEF TypeInv, MuxType, HomeType
  <1>2. ASSUME HelloAcked
        PROVE  /\ Items(down[ws]) # {}
               /\ \A c \in Conns : Items(down'[c]) \subseteq Items(down[c])
    <2>1. ws \in Conns /\ down[ws] # <<>> /\ down' = [down EXCEPT ![ws] = Tail(@)]
      BY <1>1, <1>2 DEF HelloAcked
    <2>2. Items(Tail(down[ws])) \subseteq Items(down[ws]) /\ Head(down[ws]) \in Items(down[ws])
      BY <1>1, <2>1, ItemsTail
    <2> QED
      BY <1>1, <2>1, <2>2
  <1>3. \A c \in Conns : Items(down'[c]) \subseteq Items(down[c])
    <2>1. ASSUME ~HelloAcked, NEW c \in Conns
          PROVE  down'[c] = down[c] \/ down'[c] = <<>>
      BY <1>1, <2>1 DEF TeardownStarts, TeardownEnds, Restart, Cut, muxVars
    <2> QED
      BY <1>2, <2>1, ItemsEmpty
  <1>4. \A c \in Conns : up'[c] = up[c] \/ up'[c] = <<>>
    BY <1>1 DEF HelloAcked, TeardownStarts, TeardownEnds, Restart, Cut, muxVars
  <1>5. \A u \in tasks' : \E t \in tasks : u.conn = t.conn /\ u.sid = t.sid /\ u.of = t.of
    <2>1. ASSUME NEW t \in tasks
          PROVE  Fence(t).conn = t.conn /\ Fence(t).sid = t.sid /\ Fence(t).of = t.of
      <3>1. t \in TaskSet
        BY DEF TypeInv, HomeType
      <3> QED
        BY <3>1 DEF TaskSet, Fence
    <2>2. CASE TeardownStarts
      BY <2>1, <2>2 DEF TeardownStarts
    <2>3. CASE tasks' \in {tasks, {}}
      BY <2>3
    <2> QED
      BY <2>2, <2>3 DEF HelloAcked, TeardownEnds, Restart, Cut, homeVars
  <1>6. UNCHANGED <<nextSid, http, connections, phase>>
    BY DEF HelloAcked, TeardownStarts, TeardownEnds, Restart, Cut, regVars, muxVars
  <1>7. \/ ws' = NoConn
        \/ ws' = ws /\ link' = link
        \/ ws' = ws /\ Items(down[ws]) # {}
    BY <1>1, <1>2 DEF HelloAcked, TeardownStarts, TeardownEnds, Restart, Cut, homeVars, TypeInv, HomeType
  <1> QED
    BY <1>3, <1>4, <1>5, <1>6, <1>7, ItemsEmpty DEF Speaks, TaskTag

-------------------------------------------------------------------------------
(* Whose frames are whose *)

(* A socket whose HELLO has not been read carries nothing else. *)
Fresh ==
  \A c \in Conns : phase[c] = "hello" =>
    /\ Items(down[c]) = {} /\ Len(up[c]) <= 1
    /\ \A t \in tasks : t.conn # c
    /\ \A r \in Reqs : http[r].conn # c
    /\ ws = c => link = "hello"

(* Once it has been read, what comes up are responses. *)
Greeted ==
  \A c \in Conns : phase[c] # "hello" =>
    \A f \in Items(up[c]) : f.type # "HELLO" /\ f.of \in Reqs

(* A handler that is over holds no stream. *)
Conned == \A r \in Reqs : http[r].st \in {"upload", "wait", "body"} <=> http[r].conn # NoConn

Tag(c, n, r) == DownTag(c, n, r) \/ UpTag(c, n, r) \/ TaskTag(c, n, r) \/ HttpTag(c, n, r)

(* A stream of a socket belongs to one request, on the wires and at both ends, *)
(* and its number has been given out.                                          *)
Streams ==
  \A c \in Conns, n \in Nat, r \in Reqs : Tag(c, n, r) =>
    n <= nextSid[c] /\ \A s \in Reqs : Tag(c, n, s) => s = r

(* A request's queue and what its browser was handed are its own. *)
OwnFrames ==
  \A r \in Reqs : \A f \in Items(http[r].q) \union Items(http[r].got) : f.of = r

StreamInv == Fresh /\ Greeted /\ Conned /\ Streams /\ OwnFrames

LEMMA StreamInit == Init => StreamInv
  <1> HAVE Init
  <1>1. /\ \A c \in Conns : up[c] = <<>> /\ down[c] = <<>> /\ phase[c] = "none"
        /\ tasks = {}
        /\ \A r \in Reqs : http[r].st = "idle" /\ http[r].conn = NoConn /\ http[r].q = <<>>
                            /\ http[r].got = <<>>
    BY DEF Init, MuxInit, RegInit, HomeInit, InitHttp
  <1>2. \A c \in Conns, n \in Nat, r \in Reqs : ~Tag(c, n, r)
    BY <1>1, ItemsEmpty, RelayMuxAssumption DEF Tag, DownTag, UpTag, TaskTag, HttpTag
  <1> QED
    BY <1>1, <1>2, ItemsEmpty DEF StreamInv, Fresh, Greeted, Conned, Streams, OwnFrames

(* Streams survive a step that invents no tag and takes no number back. *)
LEMMA StreamsKept ==
  ASSUME TypeInv, TypeInv', Streams,
         \A c \in Conns : nextSid[c] <= nextSid'[c],
         \A c \in Conns, n \in Nat, r \in Reqs : Tag(c, n, r)' => Tag(c, n, r)
  PROVE  Streams'
  <1> SUFFICES ASSUME NEW c \in Conns, NEW n \in Nat, NEW r \in Reqs, Tag(c, n, r)'
               PROVE  n <= nextSid'[c] /\ \A s \in Reqs : Tag(c, n, s)' => s = r
    BY DEF Streams
  <1>1. Tag(c, n, r) /\ \A s \in Reqs : Tag(c, n, s)' => Tag(c, n, s)
    OBVIOUS
  <1>2. n <= nextSid[c] /\ \A s \in Reqs : Tag(c, n, s) => s = r
    BY <1>1 DEF Streams
  <1>3. nextSid[c] \in Nat /\ nextSid'[c] \in Nat /\ nextSid[c] <= nextSid'[c]
    BY DEF TypeInv, MuxType
  <1> QED
    BY <1>1, <1>2, <1>3

LEMMA StreamBrowser ==
  ASSUME TypeInv, TypeInv', Registered, StreamInv, BrowserStep, UNCHANGED <<regVars, homeVars>>
  PROVE  StreamInv'
  <1> USE RelayMuxAssumption
  <1>1. PICK r \in Reqs : UNCHANGED <<sock, up, connections>> /\ (Opens(r) \/ GoesOn(r))
    BY BrowserEffect DEF BrowserStep
  <1>2. UNCHANGED <<phase, ws, link, tasks, up>>
    BY <1>1 DEF regVars, homeVars
  <1>3. http[r] \in Exchanges /\ down \in [Conns -> Seq(DownFrames)] /\ nextSid \in [Conns -> Nat]
        /\ http \in [Reqs -> Exchanges] /\ http[r].sid \in Nat
    BY DEF TypeInv, MuxType, Exchanges
  <1>4. Greeted'
    BY <1>2 DEF StreamInv, Greeted
  <1>5. CASE Opens(r)
    <2> DEFINE c == connections  sid == nextSid[connections] + 1  f == Frame("REQ_OPEN", sid, r)
    <2>1. c \in Conns /\ sid \in Nat /\ phase[c] # "hello"
      BY <1>3, <1>5 DEF Opens, Registered
    <2>2. http'[r].st = "upload" /\ http'[r].conn = c /\ http'[r].sid = sid
          /\ http'[r].q = http[r].q /\ http'[r].got = http[r].got
          /\ \A s \in Reqs : s # r => http'[s] = http[s]
      BY <1>3, <1>5 DEF Opens, Exchanges
    <2>3. f \in DownFrames
      BY <2>1 DEF Frame, DownFrames
    <2>4. \A d \in Conns : /\ d # c => down'[d] = down[d]
                           /\ Items(down'[d]) \subseteq Items(down[d]) \union {f}
      <3> HIDE DEF f
      <3>1. \A d \in Conns : down'[d] = down[d] \/ (d = c /\ down'[d] = Append(down[d], f))
        BY <1>3, <1>5, <2>1 DEF Opens, OnWire, f
      <3>2. \A d \in Conns : Items(Append(down[d], f)) = Items(down[d]) \union {f}
        BY <1>3, <2>3, ItemsAppend
      <3> QED
        BY <3>1, <3>2
    <2>5. \A d \in Conns : nextSid'[d] = IF d = c THEN sid ELSE nextSid[d]
      BY <1>3, <1>5 DEF Opens
    <2>6. f.n = sid /\ f.of = r
      BY DEF Frame
    <2> HIDE DEF c, sid, f
    <2>7. Fresh'
      BY <1>2, <2>1, <2>2, <2>4 DEF StreamInv, Fresh
    <2>8. Conned'
      BY <2>1, <2>2 DEF StreamInv, Conned
    <2>9. OwnFrames'
      BY <2>2 DEF StreamInv, OwnFrames
    <2>10. \A d \in Conns, n \in Nat, s \in Reqs :
             Tag(d, n, s)' => Tag(d, n, s) \/ (d = c /\ n = sid /\ s = r)
      <3> TAKE d \in Conns, n \in Nat, s \in Reqs
      <3>1. DownTag(d, n, s)' => DownTag(d, n, s) \/ (d = c /\ n = sid /\ s = r)
        <4>1. d = c \/ down'[d] = down[d]
          BY <2>4
        <4> QED
          BY <2>4, <2>6, <4>1 DEF DownTag
      <3>2. UpTag(d, n, s)' => UpTag(d, n, s)
        BY <1>2 DEF UpTag
      <3>3. TaskTag(d, n, s)' => TaskTag(d, n, s)
        BY <1>2 DEF TaskTag
      <3>4. HttpTag(d, n, s)' => HttpTag(d, n, s) \/ (d = c /\ n = sid /\ s = r)
        BY <2>2 DEF HttpTag
      <3> QED
        BY <3>1, <3>2, <3>3, <3>4 DEF Tag
    <2>11. \A s \in Reqs : ~Tag(c, sid, s)
      BY <1>3, <2>1 DEF StreamInv, Streams, sid, c
    <2>12. Streams'
      <3> SUFFICES ASSUME NEW d \in Conns, NEW n \in Nat, NEW q \in Reqs, Tag(d, n, q)'
                   PROVE  n <= nextSid'[d] /\ \A s \in Reqs : Tag(d, n, s)' => s = q
        BY DEF Streams
      <3>1. CASE d = c /\ n = sid
        BY <2>1, <2>5, <2>10, <2>11, <3>1
      <3>2. CASE ~(d = c /\ n = sid)
        <4>1. Tag(d, n, q) /\ \A s \in Reqs : Tag(d, n, s)' => Tag(d, n, s)
          BY <2>10, <3>2
        <4>2. n <= nextSid[d] /\ \A s \in Reqs : Tag(d, n, s) => s = q
          BY <4>1 DEF StreamInv, Streams
        <4>3. nextSid[d] \in Nat /\ nextSid[d] <= nextSid'[d] /\ nextSid'[d] \in Nat
          <5>1. sid = nextSid[c] + 1 /\ nextSid[c] \in Nat /\ nextSid[d] \in Nat
            BY <1>3, <2>1 DEF sid, c
          <5> QED
            BY <2>5, <5>1
        <4> QED
          BY <4>1, <4>2, <4>3
      <3> QED
        BY <3>1, <3>2
    <2> QED
      BY <1>4, <2>7, <2>8, <2>9, <2>12 DEF StreamInv
  <1>6. CASE GoesOn(r)
    <2>1. \A s \in Reqs : s # r => http'[s] = http[s]
      BY <1>6 DEF GoesOn
    <2>2. \A d \in Conns : \/ down'[d] = down[d]
                           \/ /\ d = http[r].conn
                              /\ \A f \in Items(down'[d]) :
                                   f \in Items(down[d]) \/ (f.n = http[r].sid /\ f.of = r)
      <3> TAKE d \in Conns
      <3>1. ASSUME NEW type \in {"REQ_DATA", "REQ_ABORT"},
                   down'[d] = Append(down[d], Frame(type, http[r].sid, r))
            PROVE  \A f \in Items(down'[d]) : f \in Items(down[d]) \/ (f.n = http[r].sid /\ f.of = r)
        <4>1. Frame(type, http[r].sid, r) \in DownFrames
          BY <1>3 DEF Frame, DownFrames
        <4>2. Items(down'[d]) = Items(down[d]) \union {Frame(type, http[r].sid, r)}
          BY <1>3, <3>1, <4>1, ItemsAppend
        <4>3. Frame(type, http[r].sid, r).n = http[r].sid /\ Frame(type, http[r].sid, r).of = r
          BY DEF Frame
        <4> QED
          BY <4>2, <4>3
      <3> QED
        BY <1>6, <3>1 DEF GoesOn
    <2>3. \/ http'[r].conn = NoConn
          \/ http'[r].conn = http[r].conn /\ http'[r].sid = http[r].sid
      BY <1>6 DEF GoesOn
    <2>4. Fresh'
      BY <1>2, <2>1, <2>2, <2>3 DEF StreamInv, Fresh
    <2>5. Conned'
      <3>1. http'[r].st \in {"upload", "wait", "body"} <=> http'[r].conn # NoConn
        BY <1>6 DEF GoesOn, StreamInv, Conned
      <3> QED
        BY <2>1, <3>1 DEF StreamInv, Conned
    <2>6. OwnFrames'
      BY <1>6, <2>1 DEF GoesOn, StreamInv, OwnFrames
    <2>7. \A d \in Conns, n \in Nat, s \in Reqs : Tag(d, n, s)' => Tag(d, n, s)
      <3> TAKE d \in Conns, n \in Nat, s \in Reqs
      <3>1. DownTag(d, n, s)' => DownTag(d, n, s) \/ HttpTag(d, n, s)
        BY <2>2 DEF DownTag, HttpTag
      <3>2. UpTag(d, n, s)' => UpTag(d, n, s)
        BY <1>2 DEF UpTag
      <3>3. TaskTag(d, n, s)' => TaskTag(d, n, s)
        BY <1>2 DEF TaskTag
      <3>4. HttpTag(d, n, s)' => HttpTag(d, n, s)
        BY <2>1, <2>3 DEF HttpTag
      <3> QED
        BY <3>1, <3>2, <3>3, <3>4 DEF Tag
    <2>8. Streams'
      BY <1>6, <2>7, StreamsKept DEF GoesOn, StreamInv
    <2> QED
      BY <1>4, <2>4, <2>5, <2>6, <2>8 DEF StreamInv
  <1> QED
    BY <1>1, <1>5, <1>6

(* What the relay's steps do to what a request has. *)
LEMMA RelayOwn ==
  ASSUME TypeInv, StreamInv, RelayStep, NEW r \in Reqs
  PROVE  /\ \A f \in Items(http'[r].q) \union Items(http'[r].got) : f.of = r
         /\ http'[r].st = http[r].st \/ (http[r].st = "wait" /\ http'[r].st = "body")
         /\ \/ http'[r].failed = TRUE
            \/ /\ http'[r].failed = http[r].failed
               /\ \A f \in Items(http'[r].q) :
                    f \in Items(http[r].q) \/ (\E c \in Conns : f \in Items(up[c]) /\ f.of = r)
  <1>1. http[r] \in Exchanges /\ http \in [Reqs -> Exchanges]
        /\ http[r].q \in Seq(UpFrames) /\ http[r].got \in Seq(UpFrames)
    BY DEF TypeInv, MuxType, Exchanges
  <1>2. CASE \E c : Shutdown(c)
    BY <1>1, <1>2, ShutdownKeeps DEF StreamInv, OwnFrames
  <1>3. CASE http' = http
    BY <1>3 DEF StreamInv, OwnFrames
  <1>4. CASE \E c \in Conns : ReadFrame(c) /\ Route(c, Head(up[c]))
    <2>1. PICK c \in Conns : ReadFrame(c) /\ Route(c, Head(up[c]))
      BY <1>4
    <2> DEFINE f == Head(up[c])
    <2>2. phase[c] = "live" /\ up[c] # <<>> /\ up[c] \in Seq(UpFrames)
      BY <2>1 DEF ReadFrame, TypeInv, MuxType
    <2>3. f \in Items(up[c]) /\ f \in UpFrames
      BY <2>2, ItemsTail
    <2>4. f.type # "HELLO" /\ f.of \in Reqs /\ f.n \in Nat
      BY <2>2, <2>3 DEF StreamInv, Greeted, UpFrames
    <2>5. Route(c, f)
      BY <2>1
    <2> HIDE DEF f
    <2>6. r \in Owners(c, f.n) => f.of = r
      <3> HAVE r \in Owners(c, f.n)
      <3>1. Tag(c, f.n, r)
        BY DEF Owners, Tag, HttpTag
      <3>2. Tag(c, f.n, f.of)
        BY <2>3, <2>4 DEF Tag, UpTag
      <3> QED
        BY <2>4, <3>1, <3>2 DEF StreamInv, Streams
    <2>7. /\ http'[r].st = http[r].st \/ (http[r].st = "wait" /\ http'[r].st = "body")
          /\ http'[r] = http[r] \/ r \in Owners(c, f.n)
          /\ http'[r].got = http[r].got \/ http'[r].got = Append(http[r].got, f)
          /\ \/ http'[r].q = http[r].q /\ http'[r].failed = http[r].failed
             \/ http'[r].q = Append(http[r].q, f) /\ http'[r].failed = http[r].failed
             \/ http'[r].q = <<Frame("RESP_EOF", f.n, f.of)>> /\ http'[r].failed = TRUE
      BY <1>1, <2>3, <2>5, RouteKeeps
    <2>8. /\ Items(Append(http[r].got, f)) = Items(http[r].got) \union {f}
          /\ Items(Append(http[r].q, f)) = Items(http[r].q) \union {f}
          /\ Items(<<Frame("RESP_EOF", f.n, f.of)>>) = {Frame("RESP_EOF", f.n, f.of)}
          /\ Frame("RESP_EOF", f.n, f.of).of = f.of
      <3>1. /\ Items(Append(http[r].got, f)) = Items(http[r].got) \union {f}
            /\ Items(Append(http[r].q, f)) = Items(http[r].q) \union {f}
        BY <1>1, <2>3, ItemsAppend
      <3>2. Items(<<Frame("RESP_EOF", f.n, f.of)>>) = {Frame("RESP_EOF", f.n, f.of)}
        BY ItemsOneTwo
      <3>3. Frame("RESP_EOF", f.n, f.of).of = f.of
        BY DEF Frame
      <3> QED
        BY <3>1, <3>2, <3>3
    <2>9. \A g \in Items(http[r].q) \union Items(http[r].got) : g.of = r
      BY DEF StreamInv, OwnFrames
    <2>10. CASE http'[r] = http[r]
      BY <2>9, <2>10
    <2>11. CASE r \in Owners(c, f.n)
      <3>1. f.of = r
        BY <2>6, <2>11
      <3>2. \A g \in Items(http'[r].got) : g.of = r
        BY <2>7, <2>8, <2>9, <3>1
      <3>3. \A g \in Items(http'[r].q) : g.of = r
        BY <2>7, <2>8, <2>9, <3>1
      <3>4. \/ http'[r].failed = TRUE
            \/ /\ http'[r].failed = http[r].failed
               /\ \A g \in Items(http'[r].q) : g \in Items(http[r].q) \/ g = f
        BY <2>7, <2>8
      <3> QED
        BY <2>3, <2>7, <3>1, <3>2, <3>3, <3>4
    <2> QED
      BY <2>7, <2>10, <2>11
  <1> QED
    BY <1>2, <1>3, <1>4 DEF RelayStep, ScopeStep, Hello, NoHello, Refuse, AckSent, AckTooLate,
        AckFails, FencePrior, ReadFrame, ReadEnds, PongStarved, EndAffinity, EndClose, EvictHome,
        Revoke, Provision, CloseConnection, muxVars

LEMMA StreamRelay ==
  ASSUME TypeInv, TypeInv', StreamInv, RelayStep
  PROVE  StreamInv'
  <1>1. Relays
    BY ScopeEffect, ReloadEffect DEF RelayStep
  <1>2. UNCHANGED <<ws, link, tasks>>
    BY DEF RelayStep, homeVars
  <1>3. up \in [Conns -> Seq(UpFrames)]
    BY DEF TypeInv, MuxType
  <1>4. Fresh'
    BY <1>1, <1>2 DEF Relays, StreamInv, Fresh
  <1>5. Greeted'
    <2> SUFFICES ASSUME NEW c \in Conns, phase'[c] # "hello", NEW f \in Items(up'[c])
                 PROVE  f.type # "HELLO" /\ f.of \in Reqs
      BY DEF Greeted
    <2>1. f \in Items(up[c])
      BY <1>1 DEF Relays
    <2>2. phase[c] # "hello"
      <3> SUFFICES ASSUME phase[c] = "hello"
                   PROVE  FALSE
        OBVIOUS
      <3>1. Len(up[c]) <= 1 /\ up[c] \in Seq(UpFrames)
        BY <1>3 DEF StreamInv, Fresh
      <3>2. up[c] = <<>> \/ Tail(up[c]) = <<>>
        BY <3>1
      <3>3. up'[c] = <<>>
        BY <1>1, <3>1, <3>2 DEF Relays
      <3> QED
        BY <3>3, ItemsEmpty
    <2> QED
      BY <2>1, <2>2 DEF StreamInv, Greeted
  <1>6. Conned'
    <2>1. \A r \in Reqs : http'[r].st \in {"upload", "wait", "body"}
                           <=> http[r].st \in {"upload", "wait", "body"}
      BY RelayOwn
    <2> QED
      BY <1>1, <2>1 DEF Relays, StreamInv, Conned
  <1>7. OwnFrames'
    BY RelayOwn DEF OwnFrames
  <1>8. \A c \in Conns, n \in Nat, r \in Reqs : Tag(c, n, r)' => Tag(c, n, r)
    <2> TAKE c \in Conns, n \in Nat, r \in Reqs
    <2>1. DownTag(c, n, r)' => DownTag(c, n, r)
      <3>1. \A type \in {"ACK", "NACK"} : /\ Frame(type, 0, "relay") \in DownFrames
                                         /\ Frame(type, 0, "relay").type = type
        BY DEF Frame, DownFrames
      <3>2. \A type \in {"ACK", "NACK"} :
              Items(Append(down[c], Frame(type, 0, "relay"))) = Items(down[c]) \union {Frame(type, 0, "relay")}
        BY <3>1, ItemsAppend DEF TypeInv, MuxType
      <3> QED
        BY <1>1, <3>1, <3>2 DEF Relays, DownTag
    <2>2. UpTag(c, n, r)' => UpTag(c, n, r)
      BY <1>1 DEF Relays, UpTag
    <2>3. TaskTag(c, n, r)' => TaskTag(c, n, r)
      BY <1>2 DEF TaskTag
    <2>4. HttpTag(c, n, r)' => HttpTag(c, n, r)
      BY <1>1 DEF Relays, HttpTag
    <2> QED
      BY <2>1, <2>2, <2>3, <2>4 DEF Tag
  <1>9. \A c \in Conns : nextSid[c] <= nextSid'[c]
    BY <1>1 DEF Relays, TypeInv, MuxType
  <1>10. Streams'
    BY <1>8, <1>9, StreamsKept DEF StreamInv
  <1> QED
    BY <1>4, <1>5, <1>6, <1>7, <1>10 DEF StreamInv

LEMMA StreamSpeaks ==
  ASSUME TypeInv, TypeInv', StreamInv, Speaks
  PROVE  StreamInv'
  <1>1. Fresh'
    <2> SUFFICES ASSUME NEW c \in Conns, phase'[c] = "hello"
                 PROVE  /\ Items(down'[c]) = {} /\ Len(up'[c]) <= 1
                        /\ \A t \in tasks' : t.conn # c
                        /\ \A r \in Reqs : http'[r].conn # c
                        /\ ws' = c => link' = "hello"
      BY DEF Fresh
    <2>1. /\ Items(down[c]) = {} /\ Len(up[c]) <= 1
          /\ \A t \in tasks : t.conn # c
          /\ \A r \in Reqs : http[r].conn # c
          /\ ws = c => link = "hello"
      BY DEF Speaks, StreamInv, Fresh
    <2>2. \A n, r : ~TaskTag(c, n, r) /\ ~DownTag(c, n, r)
      BY <2>1 DEF TaskTag, DownTag
    <2>3. Items(down'[c]) = {} /\ \A t \in tasks' : t.conn # c
      BY <2>1, <2>2 DEF Speaks
    <2>4. up'[c] = up[c] \/ up'[c] = <<>>
      BY <2>2 DEF Speaks
    <2>5. Len(up'[c]) <= 1
      BY <2>1, <2>4
    <2>6. ws' = c => link' = "hello"
      BY <2>1, RelayMuxAssumption DEF Speaks
    <2>7. \A r \in Reqs : http'[r].conn # c
      BY <2>1 DEF Speaks
    <2> QED
      BY <2>3, <2>5, <2>6, <2>7
  <1>2. Greeted'
    BY DEF Speaks, StreamInv, Greeted
  <1>3. Conned' /\ OwnFrames'
    BY DEF Speaks, StreamInv, Conned, OwnFrames
  <1>4. \A c \in Conns, n \in Nat, r \in Reqs : Tag(c, n, r)' => Tag(c, n, r)
    <2> TAKE c \in Conns, n \in Nat, r \in Reqs
    <2>1. DownTag(c, n, r)' => DownTag(c, n, r)
      BY DEF Speaks, DownTag
    <2>2. UpTag(c, n, r)' => UpTag(c, n, r) \/ TaskTag(c, n, r) \/ DownTag(c, n, r)
      BY DEF Speaks, UpTag
    <2>3. TaskTag(c, n, r)' => TaskTag(c, n, r) \/ DownTag(c, n, r)
      <3> HAVE TaskTag(c, n, r)'
      <3>1. PICK u \in tasks' : u.conn = c /\ u.sid = n /\ u.of = r
        BY DEF TaskTag
      <3> QED
        BY <3>1 DEF Speaks
    <2>4. HttpTag(c, n, r)' => HttpTag(c, n, r)
      BY DEF Speaks, HttpTag
    <2> QED
      BY <2>1, <2>2, <2>3, <2>4 DEF Tag
  <1>5. \A c \in Conns : nextSid[c] <= nextSid'[c]
    BY DEF Speaks, TypeInv, MuxType
  <1>6. Streams'
    BY <1>4, <1>5, StreamsKept DEF StreamInv
  <1> QED
    BY <1>1, <1>2, <1>3, <1>6 DEF StreamInv

LEMMA StreamDial ==
  ASSUME TypeInv, TypeInv', StreamInv, NEW c \in Conns, Dial(c)
  PROVE  StreamInv'
  <1> USE RelayMuxAssumption
  <1> DEFINE hi == Frame("HELLO", IF gen < MaxGeneration THEN gen + 1 ELSE gen, "home")
  <1>1. /\ \A d \in Conns : up'[d] = IF d = c THEN <<hi>> ELSE up[d]
        /\ \A d \in Conns : down'[d] = IF d = c THEN <<>> ELSE down[d]
        /\ \A d \in Conns : phase'[d] = IF d = c THEN "hello" ELSE phase[d]
        /\ \A d \in Conns : nextSid'[d] = IF d = c THEN 0 ELSE nextSid[d]
    BY DEF Dial, TypeInv, MuxType, RegType
  <1>2. ws' = c /\ link' = "hello" /\ UNCHANGED <<tasks, http>>
    BY DEF Dial
  <1>3. ws = NoConn
    BY DEF Dial, TypeInv, HomeType
  <1>4. \A t \in tasks : t.conn # c
    BY DEF Dial, Free
  <1>5. \A r \in Reqs : http[r].conn # c
    BY DEF Dial, Free, StreamInv, Conned
  <1>6. Items(<<hi>>) = {hi} /\ Len(<<hi>>) = 1 /\ hi.type = "HELLO"
    BY ItemsOneTwo DEF Frame
  <1> HIDE DEF hi
  <1>7. Fresh'
    <2> SUFFICES ASSUME NEW d \in Conns, phase'[d] = "hello"
                 PROVE  /\ Items(down'[d]) = {} /\ Len(up'[d]) <= 1
                        /\ \A t \in tasks' : t.conn # d
                        /\ \A r \in Reqs : http'[r].conn # d
                        /\ ws' = d => link' = "hello"
      BY DEF Fresh
    <2>1. CASE d = c
      <3>1. Items(down'[d]) = {} /\ up'[d] = <<hi>>
        BY <1>1, <2>1, ItemsEmpty
      <3>2. Len(up'[d]) <= 1
        BY <1>6, <3>1
      <3> QED
        BY <1>2, <1>4, <1>5, <2>1, <3>1, <3>2
    <2>2. CASE d # c
      BY <1>1, <1>2, <2>2 DEF StreamInv, Fresh
    <2> QED
      BY <2>1, <2>2
  <1>8. Greeted'
    BY <1>1 DEF StreamInv, Greeted
  <1>9. Conned' /\ OwnFrames'
    BY <1>2 DEF StreamInv, Conned, OwnFrames
  <1>10. \A d \in Conns, n \in Nat, r \in Reqs : Tag(d, n, r)' => Tag(d, n, r) /\ d # c
    <2> TAKE d \in Conns, n \in Nat, r \in Reqs
    <2>1. DownTag(d, n, r)' => DownTag(d, n, r) /\ d # c
      BY <1>1, ItemsEmpty DEF DownTag
    <2>2. UpTag(d, n, r)' => UpTag(d, n, r) /\ d # c
      BY <1>1, <1>6 DEF UpTag
    <2>3. TaskTag(d, n, r)' => TaskTag(d, n, r) /\ d # c
      BY <1>2, <1>4 DEF TaskTag
    <2>4. HttpTag(d, n, r)' => HttpTag(d, n, r) /\ d # c
      BY <1>2, <1>5 DEF HttpTag
    <2> QED
      BY <2>1, <2>2, <2>3, <2>4 DEF Tag
  <1>11. Streams'
    BY <1>1, <1>10 DEF StreamInv, Streams
  <1> QED
    BY <1>7, <1>8, <1>9, <1>11 DEF StreamInv

LEMMA StreamStep ==
  ASSUME TypeInv, TypeInv', Registered, StreamInv, [Next]_vars
  PROVE  StreamInv'
  <1>1. CASE BrowserStep /\ UNCHANGED <<regVars, homeVars>>
    BY <1>1, StreamBrowser
  <1>2. CASE RelayStep
    BY <1>2, StreamRelay
  <1>3. CASE HomeStep
    BY <1>3, StreamDial, StreamSpeaks, DispatchEffect, TaskEffect, LinkEffect DEF HomeStep
  <1>4. CASE (\E c \in Conns : Cut(c)) \/ Restart
    BY <1>4, StreamSpeaks, LinkEffect
  <1>5. CASE UNCHANGED vars
    <2>1. /\ UNCHANGED <<nextSid, http, connections, phase, up, down, tasks, ws, link>>
      BY <1>5 DEF vars, muxVars, regVars, homeVars
    <2>2. Speaks
      BY <2>1 DEF Speaks, TaskTag
    <2> QED
      BY <2>2, StreamSpeaks
  <1> QED
    BY <1>1, <1>2, <1>3, <1>4, <1>5 DEF Next

LEMMA StreamCorrect == Spec => [](TypeInv /\ Registered /\ StreamInv)
  <1>1. Init => Registered /\ StreamInv
    BY RegisteredInit, StreamInit
  <1>2. TypeInv /\ TypeInv' /\ Registered /\ StreamInv /\ [Next]_vars => Registered' /\ StreamInv'
    BY RegisteredStep, StreamStep
  <1> QED
    BY <1>1, <1>2, TypeCorrect, PTL DEF Spec

(* No browser is handed a byte of another's response, although every tunnel    *)
(* numbers its streams from 1 and a handler may outlive the tunnel its request *)
(* came on (_raw_send_on, TunnelMultiplexer's exchanges).                      *)
THEOREM NeverAnothersAlways == Spec => []NeverAnothers
  <1>1. StreamInv => NeverAnothers
    BY DEF StreamInv, OwnFrames, NeverAnothers, Items
  <1> QED
    BY <1>1, StreamCorrect, PTL
================================================================================

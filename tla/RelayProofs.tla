------------------------------ MODULE RelayProofs ------------------------------
(* Remote access, for every number of sockets, requests, pieces of a response, *)
(* faults and generations.                                                     *)
EXTENDS Relay, FiniteSetTheorems, TLAPS

DownFrames ==
  [type : {"ACK", "NACK"}, n : {0}, of : {"relay"}]
    \union [type : {"REQ_OPEN", "REQ_DATA", "REQ_ABORT"}, n : Nat, of : Reqs]

UpFrames ==
  [type : {"HELLO", "RESP_HEAD", "RESP_DATA", "RESP_EOF"}, n : Nat, of : Reqs \union {"home"}]

Exchanges ==
  [st : {"idle", "upload", "wait", "body", "ok", "failed"},
   conn : Conns \union {NoConn}, sid : Nat, reg : BOOLEAN, head : BOOLEAN,
   q : Seq(UpFrames), failed : BOOLEAN, ab : BOOLEAN, got : Seq(UpFrames)]

TaskSet ==
  [conn : Conns, sid : Nat, of : Reqs, sent : Nat, ab : BOOLEAN, listed : BOOLEAN]

Socks == {"idle", "open", "closed", "cut", "dropped"}
Phases == {"none", "hello", "refusing", "acking", "fencing", "live", "ending", "closing",
           "gone"}

MuxType ==
  /\ sock \in [Conns -> Socks]
  /\ up \in [Conns -> Seq(UpFrames)] /\ down \in [Conns -> Seq(DownFrames)]
  /\ closed \in [Conns -> BOOLEAN]
  /\ nextSid \in [Conns -> Nat]
  /\ connections \in Conns \union {NoConn}
  /\ http \in [Reqs -> Exchanges]
  /\ leases \in Nat

(* The registration lock is held by the handler that is between its HELLO and  *)
(* the end of the fencing, and by no other.                                    *)
LockHeld ==
  \A c \in Conns : /\ phase[c] \in {"refusing", "acking", "fencing"} <=> lock = c
                   /\ phase[c] = "fencing" => prior \in Conns

RegType ==
  /\ homes \in Conns \union {NoConn}
  /\ previous \in [Conns -> Conns \union {NoConn}]
  /\ generation \in [Conns -> Nat]
  /\ committed \in [Conns -> BOOLEAN]
  /\ phase \in [Conns -> Phases]
  /\ lock \in Conns \union {NoConn} /\ prior \in Conns \union {NoConn}
  /\ tokenOk \in BOOLEAN /\ evicting \in BOOLEAN

HomeType ==
  /\ ws \in Conns \union {NoConn} /\ link \in {"down", "hello", "up", "teardown"}
  /\ gen \in Nat
  /\ tasks \subseteq TaskSet
  /\ served \in [Reqs -> {"none", "running", "whole", "refused", "cut short"}]
  /\ link \in {"hello", "up"} <=> ws # NoConn

TypeInv == MuxType /\ RegType /\ HomeType /\ LockHeld

LEMMA InitExchange == InitHttp \in Exchanges
  BY DEF InitHttp, Exchanges

LEMMA TypeInit == Init => TypeInv
  <1> HAVE Init
  <1> USE RelayMuxAssumption DEF Init
  <1>1. MuxType
    BY InitExchange DEF MuxInit, MuxType, Socks
  <1>2. RegType /\ LockHeld
    BY DEF RegInit, RegType, LockHeld, Phases
  <1>3. HomeType
    BY DEF HomeInit, HomeType
  <1> QED
    BY <1>1, <1>2, <1>3 DEF TypeInv

(* A wire stays a sequence of frames when one more is written to it. *)
LEMMA WireType ==
  ASSUME NEW S, NEW wire \in [Conns -> Seq(S)], NEW c, NEW f \in S
  PROVE  OnWire(wire, c, f) \in [Conns -> Seq(S)]
  <1>1. CASE c \in Conns
    BY <1>1 DEF OnWire
  <1>2. CASE c \notin Conns
    <2>1. [wire EXCEPT ![c] = Append(@, f)] = wire
      BY <1>2
    <2> QED
      BY <2>1 DEF OnWire
  <1> QED
    BY <1>1, <1>2

(* What the handlers of a request do to its record leaves it an exchange. *)
LEMMA ExchangeType ==
  ASSUME NEW h \in Exchanges
  PROVE  /\ \A how \in {"ok", "failed"} : [InitHttp EXCEPT !.st = how, !.got = h.got] \in Exchanges
         /\ [h EXCEPT !.ab = TRUE, !.reg = FALSE] \in Exchanges
         /\ \A b \in BOOLEAN : [h EXCEPT !.reg = b] \in Exchanges
         /\ \A s \in {"wait", "body"} : [h EXCEPT !.st = s] \in Exchanges
  <1>1. ASSUME NEW how \in {"ok", "failed"}
        PROVE  [InitHttp EXCEPT !.st = how, !.got = h.got] \in Exchanges
    BY InitExchange DEF Exchanges
  <1>2. [h EXCEPT !.ab = TRUE, !.reg = FALSE] \in Exchanges
    BY DEF Exchanges
  <1>3. \A b \in BOOLEAN : [h EXCEPT !.reg = b] \in Exchanges
    BY DEF Exchanges
  <1>4. \A s \in {"wait", "body"} : [h EXCEPT !.st = s] \in Exchanges
    BY DEF Exchanges
  <1> QED
    BY <1>1, <1>2, <1>3, <1>4

LEMMA BrowserType ==
  ASSUME MuxType, BrowserStep
  PROVE  MuxType'
  <1> USE RelayMuxAssumption
  <1>1. PICK r \in Reqs :
          \/ RefuseRequest(r) \/ OpenRequest(r) \/ SendBody(r) \/ UploadFails(r)
          \/ HeadTimeout(r) \/ TakeChunk(r) \/ BodyBroken(r) \/ AbortOverflow(r)
    BY DEF BrowserStep
  <1>2. /\ http[r] \in Exchanges /\ http[r].sid \in Nat
        /\ http[r].q \in Seq(UpFrames) /\ http[r].got \in Seq(UpFrames)
    BY DEF Exchanges, MuxType
  <1>3. \A how \in {"ok", "failed"} : Ended(r, how) \in Exchanges
    BY <1>2, ExchangeType DEF Ended
  <1>4. ASSUME NEW g \in Exchanges, AbortWith(r, g)
        PROVE  http' \in [Reqs -> Exchanges] /\ down' \in [Conns -> Seq(DownFrames)]
    <2>1. http' \in [Reqs -> Exchanges]
      <3>1. [g EXCEPT !.ab = TRUE, !.reg = FALSE] \in Exchanges
        BY ExchangeType
      <3> QED
        BY <1>4, <3>1 DEF AbortWith, MuxType
    <2>2. Frame("REQ_ABORT", http[r].sid, r) \in DownFrames
      BY <1>2 DEF Frame, DownFrames
    <2>3. OnWire(down, http[r].conn, Frame("REQ_ABORT", http[r].sid, r))
            \in [Conns -> Seq(DownFrames)]
      BY <2>2, WireType DEF MuxType
    <2>4. down' \in [Conns -> Seq(DownFrames)]
      BY <1>4, <2>3 DEF AbortWith, MuxType
    <2> QED
      BY <2>1, <2>4
  <1>5. Release \in Nat
    BY DEF Release, MuxType
  <1>6. CASE RefuseRequest(r)
    BY <1>3, <1>6 DEF RefuseRequest, MuxType
  <1>7. CASE OpenRequest(r)
    <2> DEFINE c == connections  sid == nextSid[connections] + 1
    <2>1. c \in Conns /\ sid \in Nat
      BY <1>7 DEF OpenRequest, MuxType
    <2>2. Frame("REQ_OPEN", sid, r) \in DownFrames
      BY <2>1 DEF Frame, DownFrames
    <2>3. [http[r] EXCEPT !.st = "upload", !.conn = c, !.sid = sid, !.reg = TRUE] \in Exchanges
      <3> HIDE DEF c, sid
      <3> QED
        BY <1>2, <2>1 DEF Exchanges
    <2>4. OnWire(down, c, Frame("REQ_OPEN", sid, r)) \in [Conns -> Seq(DownFrames)]
      BY <2>2, WireType DEF MuxType
    <2>5. nextSid' \in [Conns -> Nat] /\ UNCHANGED <<sock, up, closed, connections>>
      BY <1>7, <2>1 DEF OpenRequest, MuxType
    <2>6. CASE http' = [http EXCEPT ![r] = Ended(r, "failed")] /\ UNCHANGED <<down, leases>>
      BY <1>3, <2>5, <2>6 DEF MuxType
    <2>7. CASE /\ down' = OnWire(down, c, Frame("REQ_OPEN", sid, r))
               /\ http' = [http EXCEPT ![r] = [@ EXCEPT !.st = "upload", !.conn = c,
                                                         !.sid = sid, !.reg = TRUE]]
               /\ leases' = leases + 1
      <3>1. http' \in [Reqs -> Exchanges]
        BY <2>3, <2>7 DEF MuxType
      <3> QED
        BY <2>4, <2>5, <2>7, <3>1 DEF MuxType
    <2> QED
      BY <1>7, <2>6, <2>7 DEF OpenRequest
  <1>8. CASE SendBody(r)
    <2>1. Frame("REQ_DATA", http[r].sid, r) \in DownFrames
      BY <1>2 DEF Frame, DownFrames
    <2>2. down' \in [Conns -> Seq(DownFrames)]
      BY <1>8, <2>1, WireType DEF SendBody, MuxType
    <2>3. http' \in [Reqs -> Exchanges]
      BY <1>2, <1>8, ExchangeType DEF SendBody, MuxType
    <2> QED
      BY <1>8, <2>2, <2>3 DEF SendBody, MuxType
  <1>9. CASE UploadFails(r) \/ HeadTimeout(r) \/ BodyBroken(r)
    BY <1>3, <1>4, <1>5, <1>9 DEF UploadFails, HeadTimeout, BodyBroken, MuxType
  <1>10. CASE TakeChunk(r)
    <2>1. Tail(http[r].q) \in Seq(UpFrames)
          /\ Append(http[r].got, Head(http[r].q)) \in Seq(UpFrames)
      BY <1>2, <1>10 DEF TakeChunk
    <2>2. [http[r] EXCEPT !.q = Tail(@), !.got = Append(@, Head(http[r].q))] \in Exchanges
      BY <1>2, <2>1 DEF Exchanges
    <2>3. CASE http[r].failed
      BY <1>3, <1>4, <1>5, <1>10, <2>3 DEF TakeChunk, MuxType
    <2>4. CASE ~http[r].failed
      <3>1. http' \in [Reqs -> Exchanges]
        BY <1>3, <1>10, <2>2, <2>4 DEF TakeChunk, MuxType
      <3> QED
        BY <1>5, <1>10, <2>4, <3>1 DEF TakeChunk, MuxType
    <2> QED
      BY <2>3, <2>4
  <1>11. CASE AbortOverflow(r)
    BY <1>2, <1>4, <1>11 DEF AbortOverflow, MuxType
  <1> QED
    BY <1>1, <1>6, <1>7, <1>8, <1>9, <1>10, <1>11

LEMMA ShutdownType ==
  ASSUME http \in [Reqs -> Exchanges], NEW c, Shutdown(c)
  PROVE  http' \in [Reqs -> Exchanges]
  <1>1. \A r \in Reqs : http[r] \in Exchanges /\ [http[r] EXCEPT !.reg = FALSE] \in Exchanges
    BY ExchangeType
  <1> QED
    BY <1>1 DEF Shutdown

LEMMA RouteType ==
  ASSUME http \in [Reqs -> Exchanges], NEW c, NEW f \in UpFrames, Route(c, f)
  PROVE  http' \in [Reqs -> Exchanges]
  <1>1. ASSUME NEW h \in Exchanges
        PROVE  [h EXCEPT !.head = TRUE, !.got = Append(@, f),
                         !.st = IF @ = "wait" THEN "body" ELSE @] \in Exchanges
    <2>1. Append(h.got, f) \in Seq(UpFrames)
      BY DEF Exchanges
    <2> QED
      BY <2>1 DEF Exchanges
  <1>2. ASSUME NEW h \in Exchanges
        PROVE  Enqueue(h, f) \in Exchanges
    <2>1. Frame("RESP_EOF", f.n, f.of) \in UpFrames
      BY DEF Frame, UpFrames
    <2>2. Append(h.q, f) \in Seq(UpFrames) /\ <<Frame("RESP_EOF", f.n, f.of)>> \in Seq(UpFrames)
      BY <2>1 DEF Exchanges
    <2>3. [h EXCEPT !.failed = TRUE, !.q = <<Frame("RESP_EOF", f.n, f.of)>>] \in Exchanges
      BY <2>2 DEF Exchanges
    <2>4. [h EXCEPT !.q = Append(@, f)] \in Exchanges
      BY <2>2 DEF Exchanges
    <2> QED
      BY <2>3, <2>4 DEF Enqueue
  <1>3. \A r \in Reqs : [Enqueue(http[r], f) EXCEPT !.reg = f.type # "RESP_EOF"] \in Exchanges
    BY <1>2, ExchangeType
  <1> QED
    BY <1>1, <1>3 DEF Route

LEMMA CloseType ==
  ASSUME MuxType, RegType, NEW c \in Conns, CloseConnection(c)
  PROVE  /\ http' \in [Reqs -> Exchanges]
         /\ homes' \in Conns \union {NoConn}
         /\ previous' \in [Conns -> Conns \union {NoConn}]
         /\ closed' \in [Conns -> BOOLEAN]
  <1>1. http' \in [Reqs -> Exchanges]
    BY ShutdownType DEF MuxType, CloseConnection
  <1>2. homes' \in Conns \union {NoConn}
    BY DEF RegType, CloseConnection, Unregister, Rollback
  <1>3. previous' \in [Conns -> Conns \union {NoConn}] /\ closed' \in [Conns -> BOOLEAN]
    BY DEF MuxType, RegType, CloseConnection
  <1> QED
    BY <1>1, <1>2, <1>3

LEMMA SocketType ==
  ASSUME MuxType, NEW c, CloseSocket(c)
  PROVE  sock' \in [Conns -> Socks]
  BY DEF MuxType, CloseSocket, Socks

(* A handler takes the lock, goes on under it, or lets it go. *)
LEMMA LockMoves ==
  ASSUME RegType, LockHeld, NEW c \in Conns, NEW p \in Phases,
         phase' = [phase EXCEPT ![c] = p],
         \/ p \in {"refusing", "acking", "fencing"} /\ lock \in {c, NoConn} /\ lock' = c
         \/ p \notin {"refusing", "acking", "fencing"} /\ lock = c /\ lock' = NoConn
         \/ p \notin {"refusing", "acking", "fencing"} /\ lock # c /\ lock' = lock /\ prior' = prior,
         p = "fencing" => prior' \in Conns
  PROVE  LockHeld'
  <1> USE RelayMuxAssumption DEF RegType
  <1>2. \A d \in Conns : phase'[d] = IF d = c THEN p ELSE phase[d]
    OBVIOUS
  <1>3. ASSUME NEW d \in Conns
        PROVE  phase'[d] \in {"refusing", "acking", "fencing"} <=> lock' = d
    BY <1>2 DEF LockHeld
  <1>4. ASSUME NEW d \in Conns, phase'[d] = "fencing"
        PROVE  prior' \in Conns
    BY <1>2, <1>4 DEF LockHeld
  <1> QED
    BY <1>3, <1>4 DEF LockHeld

LEMMA ScopeLock ==
  ASSUME MuxType, RegType, LockHeld, NEW c \in Conns, ScopeStep(c)
  PROVE  LockHeld'
  <1> USE RelayMuxAssumption
  <1>1. CASE Hello(c)
    <2>1. PICK p \in {"refusing", "acking"} : phase' = [phase EXCEPT ![c] = p]
      BY <1>1 DEF Hello
    <2> QED
      BY <1>1, <2>1, LockMoves DEF Hello, Phases
  <1>2. CASE NoHello(c)
    BY <1>2, LockMoves DEF NoHello, LockHeld, Phases
  <1>3. CASE Refuse(c) \/ AckTooLate(c) \/ AckFails(c) \/ FencePrior(c)
    <2>1. lock = c
      BY <1>3 DEF Refuse, AckTooLate, AckFails, FencePrior, LockHeld
    <2>2. PICK p \in {"gone", "live"} : phase' = [phase EXCEPT ![c] = p]
      BY <1>3 DEF Refuse, AckTooLate, AckFails, FencePrior
    <2>3. lock' = NoConn
      BY <1>3 DEF Refuse, AckTooLate, AckFails, FencePrior
    <2> QED
      BY <2>1, <2>2, <2>3, LockMoves DEF Phases
  <1>4. CASE AckSent(c)
    <2>1. lock = c
      BY <1>4 DEF AckSent, LockHeld
    <2>2. CASE connections \in {NoConn, c}
      BY <1>4, <2>1, <2>2, LockMoves DEF AckSent, Phases
    <2>3. CASE connections \notin {NoConn, c}
      BY <1>4, <2>1, <2>3, LockMoves DEF AckSent, Phases, MuxType
    <2> QED
      BY <2>2, <2>3
  <1>5. CASE ReadEnds(c) \/ EndAffinity(c) \/ EndClose(c)
    <2>1. phase[c] \in {"live", "ending", "closing"} /\ UNCHANGED <<lock, prior>>
      BY <1>5 DEF ReadEnds, EndAffinity, EndClose
    <2>2. lock # c
      BY <2>1 DEF LockHeld
    <2>3. PICK p \in {"ending", "closing", "gone"} : phase' = [phase EXCEPT ![c] = p]
      BY <1>5 DEF ReadEnds, EndAffinity, EndClose
    <2> QED
      BY <2>1, <2>2, <2>3, LockMoves DEF Phases
  <1>6. CASE ReadFrame(c)
    <2>1. phase[c] = "live" /\ UNCHANGED <<lock, prior>>
      BY <1>6 DEF ReadFrame
    <2>2. lock # c
      BY <2>1 DEF LockHeld
    <2>3. CASE phase' = [phase EXCEPT ![c] = "ending"]
      BY <2>1, <2>2, <2>3, LockMoves DEF Phases
    <2>4. CASE UNCHANGED phase
      BY <2>1, <2>4 DEF LockHeld
    <2> QED
      BY <1>6, <2>3, <2>4 DEF ReadFrame
  <1>7. CASE PongStarved(c)
    BY <1>7 DEF PongStarved, regVars, LockHeld
  <1> QED
    BY <1>1, <1>2, <1>3, <1>4, <1>5, <1>6, <1>7 DEF ScopeStep

LEMMA ScopeType ==
  ASSUME MuxType, RegType, LockHeld, NEW c \in Conns, ScopeStep(c)
  PROVE  MuxType' /\ RegType'
  <1> USE RelayMuxAssumption
  <1>1. CASE Hello(c)
    <2>1. Tail(up[c]) \in Seq(UpFrames) /\ Head(up[c]) \in UpFrames
      BY <1>1 DEF Hello, MuxType
    <2>2. Head(up[c]).n \in Nat
      BY <2>1 DEF UpFrames
    <2>3. MuxType'
      BY <1>1, <2>1 DEF Hello, MuxType
    <2>4. CASE phase' = [phase EXCEPT ![c] = "refusing"] /\ UNCHANGED <<homes, previous, generation>>
      BY <1>1, <2>3, <2>4 DEF Hello, RegType, Phases
    <2>5. CASE Register(c, Head(up[c]).n) /\ phase' = [phase EXCEPT ![c] = "acking"]
      <3>1. generation' \in [Conns -> Nat] /\ previous' \in [Conns -> Conns \union {NoConn}]
            /\ homes' \in Conns
        BY <2>2, <2>5 DEF RegType, Register
      <3> QED
        BY <1>1, <2>3, <2>5, <3>1 DEF Hello, RegType, Phases
    <2> QED
      BY <1>1, <2>4, <2>5 DEF Hello
  <1>2. CASE NoHello(c)
    BY <1>2, SocketType DEF NoHello, MuxType, RegType, Phases
  <1>3. CASE Refuse(c)
    <2>1. Frame("NACK", 0, "relay") \in DownFrames
      BY DEF Frame, DownFrames
    <2>2. down' \in [Conns -> Seq(DownFrames)]
      BY <1>3, <2>1, WireType DEF Refuse, MuxType
    <2> QED
      BY <1>3, <2>2, SocketType DEF Refuse, MuxType, RegType, Phases
  <1>4. Frame("ACK", 0, "relay") \in DownFrames
    BY DEF Frame, DownFrames
  <1>5. CASE AckSent(c)
    <2>1. down' \in [Conns -> Seq(DownFrames)]
      BY <1>4, <1>5, WireType DEF AckSent, MuxType
    <2>2. closed' \in [Conns -> BOOLEAN] /\ previous' \in [Conns -> Conns \union {NoConn}]
          /\ committed' \in [Conns -> BOOLEAN]
      BY <1>5 DEF AckSent, Commit, MuxType, RegType
    <2>3. MuxType'
      BY <1>5, <2>1, <2>2 DEF AckSent, MuxType
    <2>4. UNCHANGED <<homes, generation, tokenOk, evicting>>
      BY <1>5 DEF AckSent
    <2>5. CASE phase' = [phase EXCEPT ![c] = "live"] /\ lock' = NoConn /\ UNCHANGED prior
      BY <2>2, <2>3, <2>4, <2>5 DEF RegType, Phases
    <2>6. CASE /\ connections \in Conns /\ phase' = [phase EXCEPT ![c] = "fencing"]
               /\ prior' = connections /\ UNCHANGED lock
      BY <2>2, <2>3, <2>4, <2>6 DEF RegType, Phases
    <2> QED
      BY <1>5, <2>5, <2>6 DEF AckSent, MuxType
  <1>6. CASE AckTooLate(c)
    <2>1. down' \in [Conns -> Seq(DownFrames)]
      BY <1>4, <1>6, WireType DEF AckTooLate, MuxType
    <2> QED
      BY <1>6, <2>1, SocketType, CloseType DEF AckTooLate, MuxType, RegType, Phases
  <1>7. CASE AckFails(c)
    BY <1>7, SocketType, CloseType DEF AckFails, MuxType, RegType, Phases
  <1>8. CASE FencePrior(c)
    BY <1>8, SocketType, CloseType DEF FencePrior, LockHeld, MuxType, RegType, Phases
  <1>9. CASE ReadFrame(c)
    <2>1. Tail(up[c]) \in Seq(UpFrames) /\ Head(up[c]) \in UpFrames
      BY <1>9 DEF ReadFrame, MuxType
    <2>2. http' \in [Reqs -> Exchanges]
      BY <1>9, <2>1, RouteType DEF ReadFrame, MuxType
    <2> QED
      BY <1>9, <2>1, <2>2 DEF ReadFrame, MuxType, RegType, Phases
  <1>10. CASE ReadEnds(c)
    BY <1>10 DEF ReadEnds, muxVars, MuxType, RegType, Phases
  <1>11. CASE PongStarved(c)
    BY <1>11, SocketType DEF PongStarved, regVars, MuxType, RegType
  <1>12. CASE EndAffinity(c)
    <2>1. up' \in [Conns -> Seq(UpFrames)]
      BY <1>12 DEF EndAffinity, MuxType
    <2> QED
      BY <1>12, <2>1, SocketType DEF EndAffinity, MuxType, RegType, Phases
  <1>13. CASE EndClose(c)
    BY <1>13, CloseType DEF EndClose, MuxType, RegType, Phases
  <1> QED
    BY <1>1, <1>2, <1>3, <1>5, <1>6, <1>7, <1>8, <1>9, <1>10, <1>11, <1>12, <1>13 DEF ScopeStep

LEMMA ReloadType ==
  ASSUME MuxType, RegType, LockHeld, EvictHome \/ Revoke \/ Provision
  PROVE  MuxType' /\ RegType' /\ LockHeld'
  <1> USE RelayMuxAssumption
  <1>1. LockHeld'
    BY DEF EvictHome, Revoke, Provision, LockHeld
  <1>2. CASE EvictHome
    <2>1. CASE connections = NoConn
      BY <1>1, <1>2, <2>1 DEF EvictHome, MuxType, RegType
    <2>2. CASE connections # NoConn
      <3>1. connections \in Conns
        BY <2>2 DEF MuxType
      <3>2. CloseSocket(connections) /\ CloseConnection(connections)
        BY <1>2, <2>2 DEF EvictHome
      <3> QED
        BY <1>1, <1>2, <3>1, <3>2, SocketType, CloseType DEF EvictHome, MuxType, RegType
    <2> QED
      BY <2>1, <2>2
  <1>3. CASE Revoke
    BY <1>1, <1>3 DEF Revoke, MuxType, RegType
  <1>4. CASE Provision
    BY <1>1, <1>4 DEF Provision, muxVars, MuxType, RegType
  <1> QED
    BY <1>2, <1>3, <1>4

(* What the home writes to a socket is frames, and its tasks stay tasks. *)
LEMMA SendType ==
  ASSUME MuxType, NEW c, NEW fs \in Seq(UpFrames), SendAll(c, fs)
  PROVE  up' \in [Conns -> Seq(UpFrames)]
  <1>1. CASE c \in Conns
    BY <1>1 DEF SendAll, MuxType
  <1>2. CASE c \notin Conns
    <2>1. [up EXCEPT ![c] = @ \o fs] = up
      BY <1>2 DEF MuxType
    <2> QED
      BY <2>1 DEF SendAll, MuxType
  <1> QED
    BY <1>1, <1>2

LEMMA FenceType ==
  ASSUME NEW t \in TaskSet
  PROVE  /\ Fence(t) \in TaskSet
         /\ [t EXCEPT !.sent = @ + 1] \in TaskSet
  <1>1. Fence(t) \in TaskSet
    BY DEF TaskSet, Fence
  <1>2. t.sent + 1 \in Nat
    BY DEF TaskSet
  <1>3. [t EXCEPT !.sent = t.sent + 1] \in TaskSet
    BY <1>2 DEF TaskSet
  <1> QED
    BY <1>1, <1>3

LEMMA DispatchType ==
  ASSUME MuxType, HomeType, Dispatch
  PROVE  MuxType' /\ HomeType'
  <1> USE RelayMuxAssumption
  <1> DEFINE f == Head(down[ws])
  <1>1. ws \in Conns /\ down[ws] # <<>> /\ down[ws] \in Seq(DownFrames)
    BY DEF Dispatch, HomeType, MuxType
  <1>2. f \in DownFrames /\ Tail(down[ws]) \in Seq(DownFrames)
    BY <1>1
  <1>3. down' \in [Conns -> Seq(DownFrames)]
    BY <1>2 DEF Dispatch, MuxType
  <1>4. f.n \in Nat /\ (f.type \in {"REQ_OPEN", "REQ_DATA", "REQ_ABORT"} => f.of \in Reqs)
    BY <1>2 DEF DownFrames
  <1> HIDE DEF f
  <1>5. ASSUME up' \in [Conns -> Seq(UpFrames)], tasks' \subseteq TaskSet,
               served' \in [Reqs -> {"none", "running", "whole", "refused", "cut short"}]
        PROVE  MuxType' /\ HomeType'
    BY <1>3, <1>5 DEF Dispatch, MuxType, HomeType
  <1>6. ASSUME f.of \in Reqs
        PROVE  /\ <<Frame("RESP_HEAD", f.n, f.of), Frame("RESP_EOF", f.n, f.of)>> \in Seq(UpFrames)
               /\ <<Frame("RESP_EOF", f.n, f.of)>> \in Seq(UpFrames)
    <2>1. Frame("RESP_HEAD", f.n, f.of) \in UpFrames /\ Frame("RESP_EOF", f.n, f.of) \in UpFrames
      BY <1>4, <1>6 DEF Frame, UpFrames
    <2> QED
      BY <2>1
  <1>7. tasks \subseteq TaskSet
    BY DEF HomeType
  <1>8. served \in [Reqs -> {"none", "running", "whole", "refused", "cut short"}]
        /\ up \in [Conns -> Seq(UpFrames)]
    BY DEF HomeType, MuxType
  <1>9. CASE DispatchOpen(f)
    <2>1. f.of \in Reqs
      BY <1>4, <1>9 DEF DispatchOpen
    <2>2. Task(ws, f.n, f.of) \in TaskSet
      BY <1>1, <1>4, <2>1 DEF Task, TaskSet
    <2>3. up' \in [Conns -> Seq(UpFrames)]
      BY <1>6, <1>8, <1>9, <2>1, SendType DEF DispatchOpen
    <2>4. tasks' \subseteq TaskSet
      BY <1>7, <1>9, <2>2 DEF DispatchOpen
    <2> QED
      BY <1>5, <1>8, <1>9, <2>1, <2>3, <2>4 DEF DispatchOpen
  <1>10. CASE DispatchBody(f)
    BY <1>5, <1>7, <1>8, <1>10 DEF DispatchBody
  <1>11. CASE DispatchOverflow(f)
    <2>1. f.of \in Reqs
      BY <1>4, <1>11 DEF DispatchOverflow
    <2>2. PICK t \in Addressed(f) :
            /\ tasks' = Replace(t, Fence(t))
            /\ \/ /\ t.sent = 0
                  /\ SendAll(ws, <<Frame("RESP_HEAD", f.n, f.of), Frame("RESP_EOF", f.n, f.of)>>)
                  /\ served' = [served EXCEPT ![f.of] = "refused"]
               \/ /\ t.sent \in 1 .. Whole
                  /\ SendAll(ws, <<Frame("RESP_EOF", f.n, f.of)>>)
                  /\ served' = [served EXCEPT ![f.of] = "cut short"]
               \/ t.sent > Whole /\ UNCHANGED <<up, served>>
      BY <1>11 DEF DispatchOverflow
    <2>3. t \in TaskSet
      BY <1>7, <2>2 DEF Addressed, Listed
    <2>4. tasks' \subseteq TaskSet
      BY <1>7, <2>2, <2>3, FenceType DEF Replace
    <2>5. up' \in [Conns -> Seq(UpFrames)]
      BY <1>6, <1>8, <2>1, <2>2, SendType
    <2>6. served' \in [Reqs -> {"none", "running", "whole", "refused", "cut short"}]
      BY <1>8, <2>1, <2>2
    <2> QED
      BY <1>5, <2>4, <2>5, <2>6
  <1>12. CASE DispatchAbort(f)
    <2>1. tasks' \subseteq TaskSet
      BY <1>7, <1>12, FenceType DEF DispatchAbort
    <2> QED
      BY <1>5, <1>8, <1>12, <2>1 DEF DispatchAbort
  <1> QED
    BY <1>9, <1>10, <1>11, <1>12 DEF Dispatch, f

LEMMA TaskType ==
  ASSUME MuxType, HomeType, NEW t \in tasks, Respond(t) \/ HandlerRaises(t) \/ TaskEnds(t)
  PROVE  MuxType' /\ HomeType'
  <1> USE RelayMuxAssumption
  <1>1. t \in TaskSet /\ t.sid \in Nat /\ t.of \in Reqs /\ tasks \subseteq TaskSet
    BY DEF HomeType, TaskSet
  <1>2. /\ Frame("RESP_HEAD", t.sid, t.of) \in UpFrames
        /\ Frame("RESP_DATA", t.sid, t.of) \in UpFrames
        /\ Frame("RESP_EOF", t.sid, t.of) \in UpFrames
    BY <1>1 DEF Frame, UpFrames
  <1>3. /\ <<Frame("RESP_HEAD", t.sid, t.of), Frame("RESP_EOF", t.sid, t.of)>> \in Seq(UpFrames)
        /\ <<Frame("RESP_EOF", t.sid, t.of)>> \in Seq(UpFrames)
        /\ <<Frame(IF t.sent = 0 THEN "RESP_HEAD" ELSE "RESP_DATA", t.sid, t.of)>> \in Seq(UpFrames)
    BY <1>2
  <1>4. up' \in [Conns -> Seq(UpFrames)]
    BY <1>3, SendType DEF Respond, HandlerRaises, TaskEnds, muxVars, MuxType
  <1>5. tasks' \subseteq TaskSet
    BY <1>1, FenceType DEF Respond, HandlerRaises, TaskEnds, Replace
  <1>6. served' \in [Reqs -> {"none", "running", "whole", "refused", "cut short"}]
    BY <1>1 DEF Respond, HandlerRaises, TaskEnds, HomeType
  <1>7. MuxType'
    BY <1>4 DEF Respond, HandlerRaises, TaskEnds, muxVars, MuxType
  <1>8. UNCHANGED <<ws, link, gen>>
    BY DEF Respond, HandlerRaises, TaskEnds
  <1> QED
    BY <1>5, <1>6, <1>7, <1>8 DEF HomeType

LEMMA DialType ==
  ASSUME MuxType, RegType, HomeType, LockHeld, NEW c \in Conns, Dial(c)
  PROVE  MuxType' /\ RegType' /\ HomeType' /\ LockHeld'
  <1> USE RelayMuxAssumption, RelayClientAssumption
  <1> DEFINE g == IF gen < MaxGeneration THEN gen + 1 ELSE gen
  <1>1. g \in Nat
    <2>1. gen \in Nat /\ MaxGeneration \in Nat
      BY DEF HomeType
    <2> QED
      BY <2>1
  <1>2. <<Frame("HELLO", g, "home")>> \in Seq(UpFrames)
    BY <1>1 DEF Frame, UpFrames
  <1>3. up' \in [Conns -> Seq(UpFrames)] /\ down' \in [Conns -> Seq(DownFrames)]
    BY <1>2 DEF Dial, MuxType
  <1>4. /\ sock' \in [Conns -> Socks] /\ closed' \in [Conns -> BOOLEAN]
        /\ nextSid' \in [Conns -> Nat] /\ committed' \in [Conns -> BOOLEAN]
        /\ phase' \in [Conns -> Phases]
    BY DEF Dial, MuxType, RegType, Socks, Phases
  <1>5. MuxType' /\ RegType'
    BY <1>3, <1>4 DEF Dial, MuxType, RegType
  <1>6. HomeType'
    BY <1>1 DEF Dial, HomeType
  <1>7. LockHeld'
    BY LockMoves DEF Dial, Free, Phases
  <1> QED
    BY <1>5, <1>6, <1>7

LEMMA HomeStepType ==
  ASSUME MuxType, RegType, HomeType, LockHeld, HomeStep
  PROVE  MuxType' /\ RegType' /\ HomeType' /\ LockHeld'
  <1> USE RelayMuxAssumption
  <1>1. CASE \E c \in Conns : Dial(c)
    BY <1>1, DialType
  <1>2. ASSUME UNCHANGED regVars
        PROVE  RegType' /\ LockHeld'
    BY <1>2 DEF regVars, RegType, LockHeld
  <1>3. CASE HelloAcked
    <2>1. ws \in Conns /\ down[ws] \in Seq(DownFrames) /\ down[ws] # <<>>
      BY <1>3 DEF HelloAcked, HomeType, MuxType
    <2>2. Tail(down[ws]) \in Seq(DownFrames)
      BY <2>1
    <2>3. down' \in [Conns -> Seq(DownFrames)]
      BY <1>3, <2>2 DEF HelloAcked, MuxType
    <2>4. MuxType'
      BY <1>3, <2>3 DEF HelloAcked, MuxType
    <2>5. HomeType'
      BY <1>3 DEF HelloAcked, HomeType
    <2> QED
      BY <1>2, <1>3, <2>4, <2>5 DEF HelloAcked
  <1>4. CASE TeardownStarts
    <2>1. tasks' \subseteq TaskSet
      BY <1>4, FenceType DEF TeardownStarts, HomeType
    <2>2. HomeType'
      BY <1>4, <2>1 DEF TeardownStarts, HomeType
    <2>3. down' \in [Conns -> Seq(DownFrames)] /\ sock' \in [Conns -> Socks]
      <3>1. <<>> \in Seq(DownFrames)
        OBVIOUS
      <3>2. down' \in [Conns -> Seq(DownFrames)]
        BY <1>4, <3>1 DEF TeardownStarts, MuxType
      <3>3. sock' \in [Conns -> Socks]
        BY <1>4 DEF TeardownStarts, MuxType, Socks
      <3> QED
        BY <3>2, <3>3
    <2>4. MuxType'
      BY <1>4, <2>3 DEF TeardownStarts, MuxType
    <2> QED
      BY <1>2, <1>4, <2>2, <2>4 DEF TeardownStarts
  <1>5. CASE TeardownEnds
    BY <1>2, <1>5 DEF TeardownEnds, muxVars, MuxType, HomeType
  <1>6. CASE Dispatch
    BY <1>2, <1>6, DispatchType DEF Dispatch
  <1>7. CASE \E t \in tasks : Respond(t) \/ HandlerRaises(t) \/ TaskEnds(t)
    <2>1. UNCHANGED regVars
      BY <1>7 DEF Respond, HandlerRaises, TaskEnds
    <2> QED
      BY <1>2, <1>7, <2>1, TaskType
  <1> QED
    BY <1>1, <1>3, <1>4, <1>5, <1>6, <1>7 DEF HomeStep

LEMMA FaultType ==
  ASSUME MuxType, RegType, HomeType, LockHeld, (\E c \in Conns : Cut(c)) \/ Restart
  PROVE  MuxType' /\ RegType' /\ HomeType' /\ LockHeld'
  <1>1. CASE \E c \in Conns : Cut(c)
    <2>1. /\ up' \in [Conns -> Seq(UpFrames)] /\ down' \in [Conns -> Seq(DownFrames)]
          /\ sock' \in [Conns -> Socks]
      BY <1>1 DEF Cut, MuxType, Socks
    <2>2. MuxType'
      BY <1>1, <2>1 DEF Cut, MuxType
    <2>3. RegType' /\ LockHeld'
      BY <1>1 DEF Cut, RegType, LockHeld
    <2>4. HomeType'
      BY <1>1 DEF Cut, homeVars, HomeType
    <2> QED
      BY <2>2, <2>3, <2>4
  <1>2. CASE Restart
    <2>1. /\ up' \in [Conns -> Seq(UpFrames)] /\ down' \in [Conns -> Seq(DownFrames)]
          /\ sock' \in [Conns -> Socks]
      BY <1>2 DEF Restart, MuxType, Socks
    <2> QED
      BY <1>2, <2>1 DEF Restart, MuxType, RegType, HomeType, LockHeld
  <1> QED
    BY <1>1, <1>2

LEMMA TypeStep ==
  ASSUME TypeInv, [Next]_vars
  PROVE  TypeInv'
  <1> USE DEF TypeInv
  <1>1. CASE BrowserStep /\ UNCHANGED <<regVars, homeVars>>
    BY <1>1, BrowserType DEF regVars, homeVars, RegType, HomeType, LockHeld
  <1>2. CASE RelayStep
    <2>1. HomeType'
      BY <1>2 DEF RelayStep, homeVars, HomeType
    <2> QED
      BY <1>2, <2>1, ScopeType, ScopeLock, ReloadType DEF RelayStep
  <1>3. CASE HomeStep
    BY <1>3, HomeStepType
  <1>4. CASE (\E c \in Conns : Cut(c)) \/ Restart
    BY <1>4, FaultType
  <1>5. CASE UNCHANGED vars
    BY <1>5 DEF vars, muxVars, regVars, homeVars, MuxType, RegType, HomeType, LockHeld
  <1> QED
    BY <1>1, <1>2, <1>3, <1>4, <1>5 DEF Next

(* Frames, exchanges, tasks and registrations keep their shape, the home has a *)
(* socket exactly while it is connected, and the registration lock is with the *)
(* one handler between a HELLO and the end of the fencing (_scope_endpoint).   *)
THEOREM TypeCorrect == Spec => []TypeInv
  BY TypeInit, TypeStep, PTL DEF Spec

-------------------------------------------------------------------------------
(* The registry *)

(* The handler of socket c holds a registration that displaces the connection  *)
(* browsers are still routed to.                                               *)
Displacing(c) ==
  /\ lock = c /\ phase[c] = "acking" /\ homes = c
  /\ previous[c] = connections /\ generation[c] > generation[connections]

(* What the registry and the routing table say of each other.  A revocation    *)
(* empties the registry at once and the routing table when its task has run;   *)
(* apart from that they differ only while an ACK is being written.             *)
Registered ==
  /\ ~tokenOk => homes = NoConn
  /\ evicting => ~tokenOk
  /\ RevokedOffline
  /\ connections # NoConn /\ ~evicting =>
       homes = connections \/ (\E c \in Conns : Displacing(c))
  /\ connections # NoConn => phase[connections] \in {"fencing", "live", "ending"}
  /\ \A c \in Conns :
       /\ phase[c] \in {"hello", "acking"} => ~committed[c]
       /\ phase[c] = "fencing" => prior # c /\ connections \in {c, NoConn}

LEMMA RegisteredInit == Init => Registered
  BY RelayMuxAssumption
  DEF Init, MuxInit, RegInit, Registered, RevokedOffline

LEMMA RegisteredScope ==
  ASSUME TypeInv, Registered, NEW c \in Conns, ScopeStep(c)
  PROVE  Registered'
  <1> USE RelayMuxAssumption DEF TypeInv
  <1>1. CASE Hello(c)
    <2>1. Head(up[c]).n \in Nat
      <3>1. Head(up[c]) \in UpFrames
        BY <1>1 DEF Hello, MuxType
      <3> QED
        BY <3>1 DEF UpFrames
    <2> DEFINE g == Head(up[c]).n
    <2>2. /\ lock = NoConn /\ lock' = c /\ phase[c] = "hello" 
          /\ UNCHANGED <<connections, committed, prior, tokenOk, evicting>>
      BY <1>1 DEF Hello
    <2>3. \A d \in Conns : phase[d] \notin {"acking", "fencing"}
      BY <2>2 DEF LockHeld
    <2>4. connections # NoConn /\ ~evicting => homes = connections
      BY <2>2 DEF Registered, Displacing
    <2>5. connections # c
      BY <2>2 DEF Registered
    <2> HIDE DEF g
    <2>6. CASE phase' = [phase EXCEPT ![c] = "refusing"] /\ UNCHANGED <<homes, previous, generation>>
      BY <2>2, <2>3, <2>4, <2>5, <2>6 DEF Registered, RevokedOffline, RegType
    <2>7. CASE /\ tokenOk /\ ~Stale(g) /\ Register(c, g)
               /\ phase' = [phase EXCEPT ![c] = "acking"]
      <3>1. ~evicting
        BY <2>7 DEF Registered
      <3>2. connections # NoConn => Displacing(c)'
        <4> HAVE connections # NoConn
        <4>1. homes = connections /\ connections \in Conns
          BY <2>4, <3>1 DEF MuxType
        <4>2. generation[connections] \in Nat /\ ~(g <= generation[connections])
          BY <2>7, <4>1 DEF Stale, RegType
        <4> QED
          BY <2>1, <2>2, <2>5, <2>7, <4>1, <4>2 DEF Register, Displacing, RegType, g
      <3>3. \A d \in Conns : phase'[d] = IF d = c THEN "acking" ELSE phase[d]
        BY <2>7 DEF RegType
      <3>4. connections' = connections /\ tokenOk' = tokenOk /\ evicting' = evicting
            /\ committed' = committed
        BY <2>2
      <3> QED
        BY <2>2, <2>3, <2>5, <2>7, <3>1, <3>2, <3>3, <3>4 DEF Registered, RevokedOffline, MuxType
    <2> QED
      BY <1>1, <2>6, <2>7 DEF Hello, g
  <1>2. CASE NoHello(c)
    <2>1. \A d \in Conns : phase'[d] = IF d = c THEN "gone" ELSE phase[d]
      BY <1>2 DEF NoHello, RegType
    <2> QED
      BY <1>2, <2>1 DEF NoHello, Registered, RevokedOffline, Displacing, MuxType
  <1>3. CASE Refuse(c)
    <2>1. lock = c /\ \A d \in Conns : phase[d] # "acking"
      BY <1>3 DEF Refuse, LockHeld
    <2>2. \A d \in Conns : phase'[d] = IF d = c THEN "gone" ELSE phase[d]
      BY <1>3 DEF Refuse, RegType
    <2> QED
      BY <1>3, <2>1, <2>2 DEF Refuse, Registered, RevokedOffline, Displacing, MuxType
  <1>4. CASE AckSent(c)
    <2>1. homes = c /\ tokenOk /\ ~evicting
      BY <1>4 DEF AckSent, StillRegistered, Registered
    <2>2. lock = c /\ \A d \in Conns \ {c} : phase[d] \notin {"acking", "fencing"}
      BY <1>4 DEF AckSent, LockHeld
    <2>3. PICK p \in {"live", "fencing"} : phase' = [phase EXCEPT ![c] = p]
      BY <1>4 DEF AckSent
    <2>4. \A d \in Conns : phase'[d] = IF d = c THEN p ELSE phase[d]
      BY <2>3 DEF RegType
    <2>5. \A d \in Conns : d # c => committed'[d] = committed[d]
      BY <1>4 DEF AckSent, Commit, RegType
    <2>6. p = "fencing" => prior' # c
      BY <1>4, <2>4 DEF AckSent, RegType
    <2> QED
      BY <1>4, <2>1, <2>2, <2>4, <2>5, <2>6 DEF AckSent, Registered, RevokedOffline, MuxType
  <1>5. CASE AckTooLate(c) \/ AckFails(c)
    <2>1. phase[c] = "acking" /\ ~committed[c]
      BY <1>5 DEF AckTooLate, AckFails, Registered
    <2>2. homes' = IF homes = c THEN previous[c] ELSE homes
      BY <1>5, <2>1 DEF AckTooLate, AckFails, CloseConnection, Rollback
    <2>3. \A d \in Conns : phase'[d] = IF d = c THEN "gone" ELSE phase[d]
      BY <1>5 DEF AckTooLate, AckFails, RegType
    <2>4. UNCHANGED <<connections, committed, prior, tokenOk, evicting>>
      BY <1>5 DEF AckTooLate, AckFails
    <2>5. \A d \in Conns : d # c => ~Displacing(d)
      BY <2>1 DEF Displacing, LockHeld
    <2>6. connections # NoConn /\ ~evicting => homes' = connections
      BY <2>1, <2>2, <2>5 DEF Registered, Displacing
    <2> QED
      BY <2>1, <2>2, <2>3, <2>4, <2>6 DEF Registered, RevokedOffline, MuxType
  <1>6. CASE FencePrior(c)
    <2>1. prior \in Conns /\ prior # c /\ connections \in {c, NoConn}
      BY <1>6 DEF FencePrior, LockHeld, Registered
    <2>2. homes # prior => homes' = homes
      BY <1>6 DEF FencePrior, CloseConnection, Unregister, Rollback
    <2>3. \A d \in Conns : phase'[d] = IF d = c THEN "live" ELSE phase[d]
      BY <1>6 DEF FencePrior, RegType
    <2>4. UNCHANGED <<connections, committed, tokenOk, evicting>>
      BY <1>6 DEF FencePrior
    <2>5. \A d \in Conns : d # c => phase[d] \notin {"acking", "fencing"}
      BY <1>6 DEF FencePrior, LockHeld
    <2>6. \A d \in Conns : ~Displacing(d)
      BY <1>6, <2>5 DEF Displacing, FencePrior
    <2>7. connections # NoConn /\ ~evicting => homes = c
      BY <2>1, <2>6 DEF Registered
    <2> QED
      BY <1>6, <2>1, <2>2, <2>3, <2>4, <2>5, <2>7 DEF FencePrior, Registered, RevokedOffline
  <1>7. CASE ReadFrame(c) \/ ReadEnds(c)
    <2>1. phase[c] = "live"
      BY <1>7 DEF ReadFrame, ReadEnds
    <2>2. PICK p \in {"live", "ending"} : \A d \in Conns : phase'[d] = IF d = c THEN p ELSE phase[d]
      <3>1. CASE phase' = phase
        BY <2>1, <3>1
      <3>2. CASE phase' = [phase EXCEPT ![c] = "ending"]
        <4>1. \A d \in Conns : phase'[d] = IF d = c THEN "ending" ELSE phase[d]
          BY <3>2 DEF RegType
        <4> QED
          BY <4>1
      <3> QED
        BY <1>7, <3>1, <3>2 DEF ReadFrame, ReadEnds
    <2>3. UNCHANGED <<connections, homes, previous, generation, committed, lock, prior, tokenOk,
                      evicting>>
      BY <1>7 DEF ReadFrame, ReadEnds, muxVars
    <2> QED
      BY <2>1, <2>2, <2>3 DEF Registered, RevokedOffline, Displacing, MuxType
  <1>8. CASE PongStarved(c)
    BY <1>8 DEF PongStarved, regVars, Registered, RevokedOffline, Displacing
  <1>9. CASE EndAffinity(c)
    <2>1. \A d \in Conns : phase'[d] = IF d = c THEN "closing" ELSE phase[d]
      BY <1>9 DEF EndAffinity, RegType
    <2>2. UNCHANGED <<homes, previous, generation, committed, lock, prior, tokenOk, evicting>>
      BY <1>9 DEF EndAffinity
    <2>3. connections' = IF connections = c THEN NoConn ELSE connections
      BY <1>9 DEF EndAffinity
    <2>4. phase[c] = "ending"
      BY <1>9 DEF EndAffinity
    <2> QED
      BY <2>1, <2>2, <2>3, <2>4 DEF Registered, RevokedOffline, Displacing, MuxType
  <1>10. CASE EndClose(c)
    <2>1. phase[c] = "closing"
      BY <1>10 DEF EndClose
    <2>2. homes # c => homes' = homes
      BY <1>10 DEF EndClose, CloseConnection, Unregister, Rollback
    <2>3. \A d \in Conns : phase'[d] = IF d = c THEN "gone" ELSE phase[d]
      BY <1>10 DEF EndClose, RegType
    <2>4. UNCHANGED <<connections, generation, committed, lock, prior, tokenOk, evicting>>
      BY <1>10 DEF EndClose
    <2>5. \A d \in Conns : d # c => previous'[d] = previous[d]
      BY <1>10 DEF EndClose, CloseConnection, RegType
    <2>6. homes = c => connections = NoConn
      BY <2>1 DEF Registered, Displacing
    <2>7. \A d \in Conns : Displacing(d) => Displacing(d)'
      BY <2>1, <2>2, <2>3, <2>4, <2>5 DEF Displacing
    <2> QED
      BY <2>1, <2>2, <2>3, <2>4, <2>6, <2>7 DEF Registered, RevokedOffline, RegType, MuxType
  <1> QED
    BY <1>1, <1>2, <1>3, <1>4, <1>5, <1>6, <1>7, <1>8, <1>9, <1>10 DEF ScopeStep

LEMMA RegisteredReload ==
  ASSUME TypeInv, Registered, EvictHome \/ Revoke \/ Provision
  PROVE  Registered'
  <1> USE RelayMuxAssumption DEF TypeInv
  <1>1. UNCHANGED <<committed, phase, lock, prior, generation>>
    BY DEF EvictHome, Revoke, Provision
  <1>2. CASE EvictHome
    <2>1. connections # NoConn => connections \in Conns
      BY DEF MuxType
    <2>2. homes = NoConn
      BY <1>2 DEF EvictHome, Registered
    <2>3. homes' = NoConn
      BY <1>2, <2>1, <2>2 DEF EvictHome, CloseConnection, Unregister, Rollback
    <2>4. connections' = NoConn /\ ~evicting' /\ tokenOk' = tokenOk
      BY <1>2 DEF EvictHome
    <2> QED
      BY <1>1, <2>3, <2>4 DEF Registered, RevokedOffline
  <1>3. CASE Revoke
    <2>1. ~tokenOk' /\ homes' = NoConn /\ evicting' = (homes # NoConn) /\ connections' = connections
      BY <1>3 DEF Revoke
    <2>2. ~evicting
      BY <1>3 DEF Revoke, Registered
    <2>3. homes = NoConn => connections = NoConn
      BY <2>2 DEF Registered, Displacing
    <2> QED
      BY <1>1, <2>1, <2>3 DEF Registered, RevokedOffline
  <1>4. CASE Provision
    BY <1>1, <1>4 DEF Provision, muxVars, Registered, RevokedOffline, Displacing
  <1> QED
    BY <1>2, <1>3, <1>4

LEMMA RegisteredDial ==
  ASSUME TypeInv, Registered, NEW c \in Conns, Dial(c)
  PROVE  Registered'
  <1> USE RelayMuxAssumption DEF TypeInv
  <1>1. /\ \A d \in Conns : phase'[d] = IF d = c THEN "hello" ELSE phase[d]
        /\ \A d \in Conns : committed'[d] = IF d = c THEN FALSE ELSE committed[d]
    BY DEF Dial, RegType
  <1>2. UNCHANGED <<connections, homes, previous, generation, lock, prior, tokenOk, evicting>>
    BY DEF Dial
  <1>3. phase[c] \in {"none", "gone"} /\ connections # c
    BY DEF Dial, Free
  <1> QED
    BY <1>1, <1>2, <1>3 DEF Registered, RevokedOffline, Displacing, MuxType

LEMMA RegisteredStep ==
  ASSUME TypeInv, Registered, [Next]_vars
  PROVE  Registered'
  <1> DEFINE same == UNCHANGED <<connections, homes, previous, generation, committed, phase,
                                 lock, prior, tokenOk, evicting>>
  <1>1. same => Registered'
    BY DEF Registered, RevokedOffline, Displacing
  <1>2. CASE BrowserStep /\ UNCHANGED <<regVars, homeVars>>
    <2>1. UNCHANGED connections
      BY <1>2 DEF BrowserStep, RefuseRequest, OpenRequest, SendBody, UploadFails, HeadTimeout,
                  TakeChunk, BodyBroken, AbortOverflow
    <2> QED
      BY <1>1, <1>2, <2>1 DEF regVars
  <1>3. CASE RelayStep
    BY <1>3, RegisteredScope, RegisteredReload DEF RelayStep
  <1>4. CASE \E c \in Conns : Dial(c)
    BY <1>4, RegisteredDial
  <1>5. CASE HelloAcked \/ TeardownStarts \/ TeardownEnds \/ Dispatch
             \/ \E t \in tasks : Respond(t) \/ HandlerRaises(t) \/ TaskEnds(t)
    BY <1>1, <1>5 DEF HelloAcked, TeardownStarts, TeardownEnds, Dispatch, Respond, HandlerRaises,
                      TaskEnds, regVars, muxVars
  <1>6. CASE (\E c \in Conns : Cut(c)) \/ Restart
    BY <1>1, <1>6 DEF Cut, Restart
  <1>7. CASE UNCHANGED vars
    BY <1>1, <1>7 DEF vars, muxVars, regVars
  <1> QED
    BY <1>2, <1>3, <1>4, <1>5, <1>6, <1>7 DEF Next, HomeStep

(* A home whose token was taken away is not reached once the eviction has run, *)
(* whichever handler was in the middle of a registration (reload_tokens, the   *)
(* re-check after the ACK in _scope_endpoint).                                 *)
THEOREM RevokedOfflineAlways == Spec => []RevokedOffline
  <1>1. Init => Registered
    BY RegisteredInit
  <1>2. TypeInv /\ Registered /\ [Next]_vars => Registered'
    BY RegisteredStep
  <1>3. Registered => RevokedOffline
    BY DEF Registered
  <1> QED
    BY <1>1, <1>2, <1>3, TypeCorrect, PTL DEF Spec

(* One step never moves browsers to a tunnel of an equal or lower generation. *)
LEMMA FencedStep ==
  ASSUME TypeInv, Registered, [Next]_vars, connections # NoConn,
         connections' \notin {NoConn, connections}
  PROVE  generation'[connections'] > generation[connections]
  <1> USE RelayMuxAssumption
  <1>1. PICK c \in Conns : AckSent(c)
    <2>1. ~(BrowserStep /\ UNCHANGED <<regVars, homeVars>>)
      BY DEF BrowserStep, RefuseRequest, OpenRequest, SendBody, UploadFails, HeadTimeout,
             TakeChunk, BodyBroken, AbortOverflow
    <2>2. ~HomeStep
      BY DEF HomeStep, Dial, HelloAcked, TeardownStarts, TeardownEnds, Dispatch, Respond,
             HandlerRaises, TaskEnds, muxVars
    <2>3. ~((\E c \in Conns : Cut(c)) \/ Restart) /\ ~UNCHANGED vars
      BY DEF Cut, Restart, vars, muxVars
    <2>4. ~(EvictHome \/ Revoke \/ Provision)
      BY DEF EvictHome, Revoke, Provision, muxVars
    <2>5. PICK c \in Conns : ScopeStep(c)
      BY <2>1, <2>2, <2>3, <2>4 DEF Next, RelayStep
    <2>6. AckSent(c)
      BY <2>5 DEF ScopeStep, Hello, NoHello, Refuse, AckTooLate, AckFails, FencePrior, ReadFrame,
                  ReadEnds, PongStarved, EndAffinity, EndClose, muxVars
    <2> QED
      BY <2>6
  <1>2. connections' = c /\ homes = c /\ generation' = generation /\ lock = c
    BY <1>1 DEF AckSent, StillRegistered, TypeInv, LockHeld
  <1>3. ~evicting
    BY <1>2 DEF Registered
  <1>4. Displacing(c)
    BY <1>2, <1>3 DEF Registered, Displacing
  <1> QED
    BY <1>2, <1>4 DEF Displacing

(* A live tunnel gives way only to a higher generation, however registrations, *)
(* reloads and ends of tunnels interleave (HomeRegistry.register and commit).  *)
THEOREM FencedUpwardAlways == Spec => FencedUpward
  <1>1. TypeInv /\ Registered /\ [Next]_vars
          => [connections # NoConn /\ connections' \notin {NoConn, connections}
                => generation'[connections'] > generation[connections]]_vars
    BY FencedStep
  <1>2. Init => Registered
    BY RegisteredInit
  <1>3. TypeInv /\ Registered /\ [Next]_vars => Registered'
    BY RegisteredStep
  <1> QED
    BY <1>1, <1>2, <1>3, TypeCorrect, PTL DEF Spec, FencedUpward

-------------------------------------------------------------------------------
(* Leases *)

(* Closing a connection changes of an exchange only whether it is routed to. *)
LEMMA ShutdownKeeps ==
  ASSUME http \in [Reqs -> Exchanges], NEW c, Shutdown(c), NEW r \in Reqs
  PROVE  /\ http'[r].st = http[r].st /\ http'[r].conn = http[r].conn
         /\ http'[r].sid = http[r].sid /\ http'[r].q = http[r].q
         /\ http'[r].got = http[r].got /\ http'[r].failed = http[r].failed
         /\ http'[r].reg => http[r].reg
  <1>1. http[r] \in Exchanges
    OBVIOUS
  <1>2. http'[r] = http[r] \/ http'[r] = [http[r] EXCEPT !.reg = FALSE]
    BY DEF Shutdown
  <1> QED
    BY <1>1, <1>2 DEF Exchanges

(* A frame changes neither the stream of an exchange nor whether it is in      *)
(* flight; it lengthens what its owner has, or empties its queue.              *)
LEMMA RouteKeeps ==
  ASSUME http \in [Reqs -> Exchanges], NEW c, NEW f \in UpFrames, Route(c, f), NEW r \in Reqs
  PROVE  /\ http'[r].conn = http[r].conn /\ http'[r].sid = http[r].sid
         /\ http'[r].st = http[r].st \/ (http[r].st = "wait" /\ http'[r].st = "body")
         /\ http'[r] = http[r] \/ r \in Owners(c, f.n)
         /\ http'[r].got = http[r].got \/ http'[r].got = Append(http[r].got, f)
         /\ \/ http'[r].q = http[r].q /\ http'[r].failed = http[r].failed
            \/ http'[r].q = Append(http[r].q, f) /\ http'[r].failed = http[r].failed
            \/ http'[r].q = <<Frame("RESP_EOF", f.n, f.of)>> /\ http'[r].failed = TRUE
  <1>1. http[r] \in Exchanges
    OBVIOUS
  <1>2. CASE r \notin Owners(c, f.n)
    <2>1. http'[r] = http[r]
      BY <1>2 DEF Route
    <2> QED
      BY <2>1
  <1>3. CASE r \in Owners(c, f.n) /\ f.type = "RESP_HEAD"
    <2>1. http'[r] = [http[r] EXCEPT !.head = TRUE, !.got = Append(@, f),
                                     !.st = IF @ = "wait" THEN "body" ELSE @]
      BY <1>3 DEF Route
    <2>2. /\ http'[r].conn = http[r].conn /\ http'[r].sid = http[r].sid
          /\ http'[r].st = IF http[r].st = "wait" THEN "body" ELSE http[r].st
          /\ http'[r].got = Append(http[r].got, f)
          /\ http'[r].q = http[r].q /\ http'[r].failed = http[r].failed
      BY <1>1, <2>1 DEF Exchanges
    <2> QED
      BY <1>3, <2>2
  <1>4. CASE r \in Owners(c, f.n) /\ f.type # "RESP_HEAD"
    <2> DEFINE e == Enqueue(http[r], f)
    <2>1. http'[r] = [e EXCEPT !.reg = f.type # "RESP_EOF"]
      BY <1>4 DEF Route
    <2>2. \/ e = http[r]
          \/ e = [http[r] EXCEPT !.q = Append(@, f)]
          \/ e = [http[r] EXCEPT !.failed = TRUE, !.q = <<Frame("RESP_EOF", f.n, f.of)>>]
      BY DEF Enqueue
    <2> HIDE DEF e
    <2>3. /\ e.conn = http[r].conn /\ e.sid = http[r].sid /\ e.st = http[r].st
          /\ e.got = http[r].got
          /\ \/ e.q = http[r].q /\ e.failed = http[r].failed
             \/ e.q = Append(http[r].q, f) /\ e.failed = http[r].failed
             \/ e.q = <<Frame("RESP_EOF", f.n, f.of)>> /\ e.failed = TRUE
      <3>1. CASE e = http[r]
        BY <3>1
      <3>2. CASE e = [http[r] EXCEPT !.q = Append(@, f)]
        BY <1>1, <3>2 DEF Exchanges
      <3>3. CASE e = [http[r] EXCEPT !.failed = TRUE, !.q = <<Frame("RESP_EOF", f.n, f.of)>>]
        BY <1>1, <3>3 DEF Exchanges
      <3> QED
        BY <2>2, <3>1, <3>2, <3>3
    <2>4. /\ http'[r].conn = e.conn /\ http'[r].sid = e.sid /\ http'[r].st = e.st
          /\ http'[r].got = e.got /\ http'[r].q = e.q /\ http'[r].failed = e.failed
      BY <2>1
    <2> QED
      BY <1>4, <2>3, <2>4
  <1> QED
    BY <1>2, <1>3, <1>4

LEMMA EndedFields ==
  ASSUME NEW r, NEW how
  PROVE  /\ Ended(r, how).st = how /\ Ended(r, how).conn = NoConn /\ Ended(r, how).q = <<>>
         /\ Ended(r, how).got = http[r].got /\ Ended(r, how).failed = FALSE
         /\ Ended(r, how).reg = FALSE
  BY DEF Ended, InitHttp

(* The lease count, with the finiteness that counting needs. *)
Counted == IsFiniteSet(InFlight) /\ LeasesCounted

(* A step gives a lease to a request that had none, takes one from a request   *)
(* that had it, or moves none.                                                 *)
LEMMA LeaseMoves ==
  ASSUME TypeInv, Counted,
         \/ InFlight' = InFlight /\ leases' = leases
         \/ \E r \in Reqs : /\ r \notin InFlight /\ InFlight' = InFlight \union {r}
                             /\ leases' = leases + 1
         \/ \E r \in InFlight : InFlight' = InFlight \ {r} /\ leases' = Release
  PROVE  Counted'
  <1>1. CASE InFlight' = InFlight /\ leases' = leases
    BY <1>1 DEF Counted, LeasesCounted
  <1>2. CASE \E r \in Reqs : /\ r \notin InFlight /\ InFlight' = InFlight \union {r}
                             /\ leases' = leases + 1
    BY <1>2, FS_AddElement DEF Counted, LeasesCounted
  <1>3. CASE \E r \in InFlight : InFlight' = InFlight \ {r} /\ leases' = Release
    <2>1. PICK r \in InFlight : InFlight' = InFlight \ {r} /\ leases' = Release
      BY <1>3
    <2>2. /\ IsFiniteSet(InFlight \ {r})
          /\ Cardinality(InFlight \ {r}) = Cardinality(InFlight) - 1
      BY <2>1, FS_RemoveElement DEF Counted
    <2>3. Cardinality(InFlight \ {r}) \in Nat /\ Cardinality(InFlight) \in Nat
      BY <2>2, FS_CardinalityType DEF Counted
    <2>4. leases = Cardinality(InFlight) /\ leases' = Cardinality(InFlight \ {r})
      BY <2>1, <2>2, <2>3 DEF Counted, LeasesCounted, Release
    <2> QED
      BY <2>1, <2>2, <2>4 DEF Counted, LeasesCounted
  <1> QED
    BY <1>1, <1>2, <1>3

LEMMA CountedBrowser ==
  ASSUME TypeInv, Counted, BrowserStep
  PROVE  Counted'
  <1> USE DEF TypeInv, MuxType
  <1>1. PICK r \in Reqs :
          \/ RefuseRequest(r) \/ OpenRequest(r) \/ SendBody(r) \/ UploadFails(r)
          \/ HeadTimeout(r) \/ TakeChunk(r) \/ BodyBroken(r) \/ AbortOverflow(r)
    BY DEF BrowserStep
  <1>2. http[r] \in Exchanges
    OBVIOUS
  <1>3. ASSUME \A s \in Reqs : s # r => http'[s] = http[s], http'[r].st \notin {"upload", "wait", "body"}
        PROVE  InFlight' = InFlight \ {r}
    BY <1>3 DEF InFlight
  <1>4. ASSUME \A s \in Reqs : s # r => http'[s] = http[s], http'[r].st \in {"upload", "wait", "body"}
        PROVE  InFlight' = InFlight \union {r}
    BY <1>4 DEF InFlight
  <1>5. CASE RefuseRequest(r)
    <2>1. /\ \A s \in Reqs : s # r => http'[s] = http[s]
          /\ http'[r].st = "failed" /\ leases' = leases /\ r \notin InFlight
      BY <1>5, EndedFields DEF RefuseRequest, InFlight
    <2> QED
      BY <1>3, <2>1, LeaseMoves
  <1>6. CASE OpenRequest(r)
    <2>1. r \notin InFlight
      BY <1>6 DEF OpenRequest, InFlight
    <2>2. CASE http' = [http EXCEPT ![r] = Ended(r, "failed")] /\ UNCHANGED <<down, leases>>
      <3>1. /\ \A s \in Reqs : s # r => http'[s] = http[s]
            /\ http'[r].st = "failed"
        BY <2>2, EndedFields
      <3> QED
        BY <1>3, <2>1, <2>2, <3>1, LeaseMoves
    <2>3. CASE /\ http' = [http EXCEPT ![r] = [@ EXCEPT !.st = "upload", !.conn = connections,
                                     !.sid = nextSid[connections] + 1, !.reg = TRUE]]
               /\ leases' = leases + 1
      <3>1. /\ \A s \in Reqs : s # r => http'[s] = http[s]
            /\ http'[r].st = "upload"
        BY <1>2, <2>3 DEF Exchanges
      <3> QED
        BY <1>4, <2>1, <2>3, <3>1, LeaseMoves
    <2> QED
      BY <1>6, <2>2, <2>3 DEF OpenRequest
  <1>7. CASE SendBody(r)
    <2>1. /\ \A s \in Reqs : s # r => http'[s] = http[s]
          /\ http'[r].st \in {"wait", "body"} /\ leases' = leases /\ r \in InFlight
      BY <1>2, <1>7 DEF SendBody, InFlight, Exchanges
    <2> QED
      BY <1>4, <2>1, LeaseMoves
  <1>8. ASSUME AbortWith(r, Ended(r, "failed"))
        PROVE  /\ \A s \in Reqs : s # r => http'[s] = http[s]
               /\ http'[r].st = "failed"
    <2>1. http'[r] = [Ended(r, "failed") EXCEPT !.ab = TRUE, !.reg = FALSE]
      BY <1>8 DEF AbortWith
    <2>2. http'[r].st = Ended(r, "failed").st
      BY <2>1
    <2>3. \A s \in Reqs : s # r => http'[s] = http[s]
      BY <1>8 DEF AbortWith
    <2> QED
      BY <2>2, <2>3, EndedFields
  <1>9. CASE UploadFails(r) \/ HeadTimeout(r) \/ BodyBroken(r)
    <2>1. r \in InFlight /\ leases' = Release /\ AbortWith(r, Ended(r, "failed"))
      BY <1>9 DEF UploadFails, HeadTimeout, BodyBroken, InFlight
    <2> QED
      BY <1>3, <1>8, <2>1, LeaseMoves
  <1>10. CASE TakeChunk(r)
    <2>1. r \in InFlight
      BY <1>10 DEF TakeChunk, InFlight
    <2>2. CASE http[r].failed
      BY <1>3, <1>8, <1>10, <2>1, <2>2, LeaseMoves DEF TakeChunk
    <2>3. CASE ~http[r].failed /\ Head(http[r].q).type = "RESP_EOF"
      <3>1. http' = [http EXCEPT ![r] = Ended(r, "ok")] /\ leases' = Release
        BY <1>10, <2>3 DEF TakeChunk
      <3>2. /\ \A s \in Reqs : s # r => http'[s] = http[s]
            /\ http'[r].st = "ok"
        BY <3>1, EndedFields
      <3> QED
        BY <1>3, <2>1, <3>1, <3>2, LeaseMoves
    <2>4. CASE ~http[r].failed /\ Head(http[r].q).type # "RESP_EOF"
      <3>1. http' = [http EXCEPT ![r] = [http[r] EXCEPT !.q = Tail(@), !.got = Append(@, Head(http[r].q))]]
            /\ leases' = leases
        BY <1>10, <2>4 DEF TakeChunk
      <3>2. /\ \A s \in Reqs : s # r => http'[s] = http[s]
            /\ http'[r].st = http[r].st
        BY <1>2, <3>1 DEF Exchanges
      <3> QED
        BY <1>4, <1>10, <2>1, <3>1, <3>2, LeaseMoves DEF TakeChunk
    <2> QED
      BY <2>2, <2>3, <2>4
  <1>11. CASE AbortOverflow(r)
    <2>1. http' = [http EXCEPT ![r] = [http[r] EXCEPT !.ab = TRUE, !.reg = FALSE]] /\ leases' = leases
      BY <1>11 DEF AbortOverflow, AbortWith
    <2>2. /\ \A s \in Reqs : s # r => http'[s] = http[s]
          /\ http'[r].st = http[r].st
      BY <1>2, <2>1 DEF Exchanges
    <2>3. InFlight' = InFlight
      BY <2>2 DEF InFlight
    <2> QED
      BY <2>1, <2>3, LeaseMoves
  <1> QED
    BY <1>1, <1>5, <1>6, <1>7, <1>9, <1>10, <1>11

LEMMA CountedStep ==
  ASSUME TypeInv, Counted, [Next]_vars
  PROVE  Counted'
  <1>1. CASE BrowserStep /\ UNCHANGED <<regVars, homeVars>>
    BY <1>1, CountedBrowser
  <1>2. ASSUME http' = http, leases' = leases
        PROVE  Counted'
    BY <1>2, LeaseMoves DEF InFlight
  <1>3. ASSUME NEW c, Shutdown(c), leases' = leases
        PROVE  Counted'
    <2>1. \A r \in Reqs : http'[r].st = http[r].st
      BY <1>3, ShutdownKeeps DEF TypeInv, MuxType
    <2>2. InFlight' = InFlight
      BY <2>1 DEF InFlight
    <2> QED
      BY <1>3, <2>2, LeaseMoves
  <1>4. CASE RelayStep
    <2>1. CASE \E c \in Conns : ReadFrame(c)
      <3>1. PICK c \in Conns : ReadFrame(c)
        BY <2>1
      <3>2. Head(up[c]) \in UpFrames
        BY <3>1 DEF ReadFrame, TypeInv, MuxType
      <3>3. CASE Route(c, Head(up[c]))
        <4>1. \A r \in Reqs : \/ http'[r].st = http[r].st
                              \/ http[r].st = "wait" /\ http'[r].st = "body"
          BY <3>2, <3>3, RouteKeeps DEF TypeInv, MuxType
        <4>2. InFlight' = InFlight
          BY <4>1 DEF InFlight
        <4> QED
          BY <3>1, <4>2, LeaseMoves DEF ReadFrame
      <3> QED
        BY <1>2, <3>1, <3>3 DEF ReadFrame
    <2>2. CASE \E c \in Conns : AckTooLate(c) \/ AckFails(c) \/ FencePrior(c) \/ EndClose(c)
      BY <1>3, <2>2 DEF AckTooLate, AckFails, FencePrior, EndClose, CloseConnection
    <2>3. CASE \E c \in Conns : \/ Hello(c) \/ NoHello(c) \/ Refuse(c) \/ AckSent(c)
                                \/ ReadEnds(c) \/ PongStarved(c) \/ EndAffinity(c)
      BY <1>2, <2>3 DEF Hello, NoHello, Refuse, AckSent, ReadEnds, PongStarved, EndAffinity, muxVars
    <2>4. CASE EvictHome \/ Revoke \/ Provision
      BY <1>2, <1>3, <2>4 DEF EvictHome, Revoke, Provision, muxVars, CloseConnection
    <2> QED
      BY <1>4, <2>1, <2>2, <2>3, <2>4 DEF RelayStep, ScopeStep
  <1>5. CASE HomeStep
    BY <1>2, <1>5 DEF HomeStep, Dial, HelloAcked, TeardownStarts, TeardownEnds, Dispatch, Respond,
                      HandlerRaises, TaskEnds, muxVars
  <1>6. CASE (\E c \in Conns : Cut(c)) \/ Restart
    BY <1>2, <1>6 DEF Cut, Restart
  <1>7. CASE UNCHANGED vars
    BY <1>2, <1>7 DEF vars, muxVars
  <1> QED
    BY <1>1, <1>4, <1>5, <1>6, <1>7 DEF Next

(* The lease counter is the number of requests in flight at every moment, so   *)
(* no way a request can end loses one or gives one back twice (_browser_http). *)
THEOREM LeasesCountedAlways == Spec => []LeasesCounted
  <1>1. Init => Counted
    <2> HAVE Init
    <2>1. InFlight = {}
      BY DEF Init, MuxInit, InitHttp, InFlight
    <2> QED
      BY <2>1, FS_EmptySet DEF Init, MuxInit, Counted, LeasesCounted
  <1>2. TypeInv /\ Counted /\ [Next]_vars => Counted'
    BY CountedStep
  <1>3. Counted => LeasesCounted
    BY DEF Counted
  <1> QED
    BY <1>1, <1>2, <1>3, TypeCorrect, PTL DEF Spec
================================================================================

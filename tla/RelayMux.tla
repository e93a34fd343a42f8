------------------------------- MODULE RelayMux -------------------------------
(* The relay's view of one home's tunnel sockets, the multiplexer that maps    *)
(* browser HTTP requests onto them (relay/relay/proxy.py) and the browser's    *)
(* HTTP handler (relay/relay/server.py, _browser_http).                        *)
(*                                                                             *)
(* A request is a member of Reqs and is issued once.  Of a request's body      *)
(* there is the terminal REQ_DATA frame alone, of a response its head, Chunks  *)
(* pieces and its end.  Frames carry, besides their stream id, the request     *)
(* they answer ("of"): the code does not have it, the properties read it.      *)
EXTENDS Naturals, Sequences, FiniteSets

CONSTANTS
  Conns,          \* sockets the home dials (a slot is reused once both ends left it)
  NoConn,         \* no socket
  Reqs,           \* browser HTTP requests
  Chunks,         \* pieces of a response body
  EgressChunks,   \* http_egress_chunks: the response queue of one request
  HttpMax         \* http_max_per_home: requests in flight

ASSUME RelayMuxAssumption ==
  /\ NoConn \notin Conns
  /\ Chunks \in Nat /\ EgressChunks \in Nat \ {0} /\ HttpMax \in Nat

VARIABLES
  sock,         \* sock[c]: "idle", "open", "closed" (either end can tell), "cut" (neither
                \* can), or "dropped" (cut, then closed by the relay)
  up, down,     \* frames on the wire, home to relay and relay to home
  closed,       \* closed[c]: ScopeTunnel.closed
  nextSid,      \* nextSid[c]: the last stream id allocated on this registration
  aborted,      \* aborted[c]: TunnelMultiplexer._aborted
  connections,  \* RelayState.connections of the home
  http,         \* http[r]: the browser's request and its exchange
  leases        \* _active_http_by_home of the home

muxVars == <<sock, up, down, closed, nextSid, aborted, connections, http, leases>>

Frame(type, n, of) == [type |-> type, n |-> n, of |-> of]

InitHttp ==
  [st |-> "idle", conn |-> NoConn, sid |-> 0, reg |-> FALSE, head |-> FALSE,
   q |-> <<>>, failed |-> FALSE, ab |-> FALSE, got |-> <<>>]

MuxInit ==
  /\ sock = [c \in Conns |-> "idle"]
  /\ up = [c \in Conns |-> <<>>] /\ down = [c \in Conns |-> <<>>]
  /\ closed = [c \in Conns |-> FALSE]
  /\ nextSid = [c \in Conns |-> 0]
  /\ aborted = [c \in Conns |-> {}]
  /\ connections = NoConn
  /\ http = [r \in Reqs |-> InitHttp]
  /\ leases = 0

(* A write to a cut socket may sit in a buffer for ever, or time out.          *)
SendOk(c) == ~closed[c] /\ sock[c] \in {"open", "cut"}
SendFails(c) == closed[c] \/ sock[c] # "open"
OnWire(wire, c, f) == IF sock[c] = "open" THEN [wire EXCEPT ![c] = Append(@, f)] ELSE wire

(* The exchange a frame for stream id n of socket c is routed to.              *)
Owners(c, n) == {r \in Reqs : http[r].reg /\ http[r].conn = c /\ http[r].sid = n}

(* TunnelMultiplexer.shutdown: nothing will ever answer these exchanges.       *)
Shutdown(c) ==
  http' = [r \in Reqs |-> IF http[r].conn = c THEN [http[r] EXCEPT !.reg = FALSE]
                                              ELSE http[r]]

(* abort_stream and abort_request: drop the exchange, remember its id, tell    *)
(* the home.  A second abort of the same request does nothing.                 *)
AbortWith(r, h) ==
  LET c == http[r].conn IN
  /\ http' = [http EXCEPT ![r] = [h EXCEPT !.ab = TRUE, !.reg = FALSE]]
  /\ IF http[r].ab
     THEN UNCHANGED <<aborted, down>>
     ELSE
       /\ aborted' = [aborted EXCEPT ![c] = @ \union {http[r].sid}]
       /\ down' = IF SendOk(c) THEN OnWire(down, c, Frame("REQ_ABORT", http[r].sid, r))
                               ELSE down

(* release_http, called once by whoever holds the lease. *)
Release == IF leases <= 1 THEN 0 ELSE leases - 1

(* The handler is over, and its locals with it. *)
Ended(r, how) == [InitHttp EXCEPT !.st = how, !.got = http[r].got]

-------------------------------------------------------------------------------
(* _browser_http *)

(* The request finds no tunnel (502) or no free lease (503).                   *)
RefuseRequest(r) ==
  /\ http[r].st = "idle"
  /\ connections = NoConn \/ leases >= HttpMax
  /\ http' = [http EXCEPT ![r] = Ended(r, "failed")]
  /\ UNCHANGED <<sock, up, down, closed, nextSid, aborted, connections, leases>>

(* open_request: the exchange and its REQ_OPEN are one transaction.            *)
OpenRequest(r) ==
  LET c == connections  sid == nextSid[c] + 1 IN
  /\ http[r].st = "idle"
  /\ connections # NoConn /\ leases < HttpMax
  /\ nextSid' = [nextSid EXCEPT ![c] = sid]
  /\ \/ /\ SendOk(c)
        /\ down' = OnWire(down, c, Frame("REQ_OPEN", sid, r))
        /\ http' = [http EXCEPT ![r] = [@ EXCEPT !.st = "upload", !.conn = c,
                                                 !.sid = sid, !.reg = TRUE]]
        /\ leases' = leases + 1
     \/ /\ SendFails(c)
        /\ http' = [http EXCEPT ![r] = Ended(r, "failed")]
        /\ UNCHANGED <<down, leases>>
  /\ UNCHANGED <<sock, up, closed, aborted, connections>>

(* The request body ends: its terminal REQ_DATA goes down the tunnel.          *)
SendBody(r) ==
  LET c == http[r].conn IN
  /\ http[r].st = "upload"
  /\ SendOk(c)
  /\ down' = OnWire(down, c, Frame("REQ_DATA", http[r].sid, r))
  /\ http' = [http EXCEPT ![r].st = IF http[r].head THEN "body" ELSE "wait"]
  /\ UNCHANGED <<sock, up, closed, nextSid, aborted, connections, leases>>

(* The upload stalls, is too large, is abandoned by the browser, or cannot be  *)
(* written: 408, 413, 400, 502.                                                *)
UploadFails(r) ==
  /\ http[r].st = "upload"
  /\ AbortWith(r, Ended(r, "failed"))
  /\ leases' = Release
  /\ UNCHANGED <<sock, up, closed, nextSid, connections>>

(* Mutant: the 504 keeps its lease. *)
HeadTimeout_KeepsLease(r) ==
  /\ http[r].st = "wait"
  /\ AbortWith(r, Ended(r, "failed"))
  /\ UNCHANGED <<sock, up, closed, nextSid, connections, leases>>

(* Mutant: the wait for the head has no bound of its own, and relies on the    *)
(* exchange being failed by whoever drops it.                                  *)
HeadTimeout_WhileRouted(r) ==
  /\ http[r].st = "wait" /\ http[r].reg
  /\ AbortWith(r, Ended(r, "failed"))
  /\ leases' = Release
  /\ UNCHANGED <<sock, up, closed, nextSid, connections>>

(* upstream_timeout_s passes with no response head: 504.                       *)
HeadTimeout(r) ==
  /\ http[r].st = "wait"
  /\ AbortWith(r, Ended(r, "failed"))
  /\ leases' = Release
  /\ UNCHANGED <<sock, up, closed, nextSid, connections>>

(* body_iter hands the browser the next piece, or ends the response: cleanly   *)
(* at EOF, broken when the queue had overflowed.                               *)
TakeChunk(r) ==
  LET h == http[r]  f == Head(h.q) IN
  /\ h.st = "body" /\ h.q # <<>>
  /\ IF h.failed
     THEN /\ AbortWith(r, Ended(r, "failed"))
          /\ leases' = Release
     ELSE /\ http' = [http EXCEPT ![r] =
                        IF f.type = "RESP_EOF" THEN Ended(r, "ok")
                        ELSE [h EXCEPT !.q = Tail(@), !.got = Append(@, f)]]
          /\ leases' = IF f.type = "RESP_EOF" THEN Release ELSE leases
          /\ UNCHANGED <<down, aborted>>
  /\ UNCHANGED <<sock, up, closed, nextSid, connections>>

(* Mutant: the generator returns at its timeout, which ends the response.      *)
BodyBroken_Returns(r) ==
  /\ http[r].st = "body"
  /\ AbortWith(r, Ended(r, "ok"))
  /\ leases' = Release
  /\ UNCHANGED <<sock, up, closed, nextSid, connections>>

(* upstream_timeout_s passes with no next piece, or the browser hangs up: the  *)
(* response is broken off, never ended as if it were whole.                    *)
BodyBroken(r) ==
  /\ http[r].st = "body"
  /\ AbortWith(r, Ended(r, "failed"))
  /\ leases' = Release
  /\ UNCHANGED <<sock, up, closed, nextSid, connections>>

(* The task on_data spawned when the queue was full.                           *)
AbortOverflow(r) ==
  /\ http[r].failed /\ ~http[r].ab
  /\ AbortWith(r, http[r])
  /\ UNCHANGED <<sock, up, closed, nextSid, connections, leases>>

-------------------------------------------------------------------------------
(* on_tunnel_frame.  A frame for a stream nobody waits for is late when the    *)
(* relay aborted that stream, and an error that ends the tunnel otherwise.     *)

(* Mutant: an aborted stream's id is forgotten. *)
LateReply_Forgotten(c, f) == FALSE

LateReply(c, f) == f.n \in aborted[c]

RoutingError(c, f) ==
  IF Owners(c, f.n) = {} THEN ~LateReply(c, f)
  ELSE \E r \in Owners(c, f.n) :
         IF f.type = "RESP_HEAD" THEN http[r].head ELSE ~http[r].head

(* on_data: a full queue is emptied, marked failed and woken with an EOF.      *)
Enqueue(h, f) ==
  IF h.failed THEN h
  ELSE IF Len(h.q) >= EgressChunks
       THEN [h EXCEPT !.failed = TRUE, !.q = <<Frame("RESP_EOF", f.n, f.of)>>]
       ELSE [h EXCEPT !.q = Append(@, f)]

Route(c, f) ==
  http' = [r \in Reqs |->
    IF r \notin Owners(c, f.n) THEN http[r]
    ELSE IF f.type = "RESP_HEAD"
    THEN [http[r] EXCEPT !.head = TRUE, !.got = Append(@, f),
                         !.st = IF @ = "wait" THEN "body" ELSE @]
    ELSE [Enqueue(http[r], f) EXCEPT !.reg = f.type # "RESP_EOF"]]

BrowserStep ==
  \E r \in Reqs :
    \/ RefuseRequest(r) \/ OpenRequest(r) \/ SendBody(r) \/ UploadFails(r)
    \/ HeadTimeout(r) \/ TakeChunk(r) \/ BodyBroken(r) \/ AbortOverflow(r)
===============================================================================

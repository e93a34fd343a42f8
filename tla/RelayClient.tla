------------------------------ MODULE RelayClient ------------------------------
(* The home's end of the tunnel (server/astrodeck/remote/relay_client.py): the *)
(* reconnect supervisor, one connection's life, and the in-process requests it *)
(* replays.  The application behind a request is external: it sends a response *)
(* head, Chunks pieces and an end, or raises.                                  *)
EXTENDS RelayRegistry

CONSTANTS
  OpenRequestsMax,  \* _OPEN_REQUESTS_MAX
  MaxGeneration,    \* bound: the generations of one home process
  LateRaise         \* a handler may raise after its response started

ASSUME RelayClientAssumption ==
  /\ OpenRequestsMax \in Nat \ {0} /\ MaxGeneration \in Nat \ {0}
  /\ LateRaise \in BOOLEAN

VARIABLES
  ws,      \* RelayClient._ws
  link,    \* where _serve_once is: "down" (backoff), "hello", "up", "teardown"
  gen,     \* RelayClient._generation
  tasks,   \* the request tasks, the cancelled ones that have not ended yet included
  served   \* served[r]: what became of request r at the home (history)

homeVars == <<ws, link, gen, tasks, served>>

HomeInit ==
  /\ ws = NoConn /\ link = "down" /\ gen = 0
  /\ tasks = {}
  /\ served = [r \in Reqs |-> "none"]

(* A task: its socket and stream, its request, how much of the response is out *)
(* (0 nothing, 1 the head, 1 + Chunks everything but the end), whether its     *)
(* stream is aborted, and whether it is in _reqs.                              *)
Task(c, sid, r) == [conn |-> c, sid |-> sid, of |-> r, sent |-> 0, ab |-> FALSE, listed |-> TRUE]
Whole == 1 + Chunks
Listed(c) == {t \in tasks : t.listed /\ t.conn = c}
Fence(t) == [t EXCEPT !.ab = TRUE, !.listed = FALSE]
Replace(t, u) == (tasks \ {t}) \union {u}

(* A socket slot neither end refers to any more. *)
Free(c) ==
  /\ phase[c] \in {"none", "gone"}
  /\ c \notin {homes, connections, prior, lock, ws}
  /\ \A d \in Conns : previous[d] # c
  /\ \A t \in tasks : t.conn # c
  /\ \A r \in Reqs : http[r].conn = c => http[r].st \in {"ok", "failed"}

-------------------------------------------------------------------------------
(* _supervise and _serve_once *)

(* Dial, take the next generation and send the HELLO.  At the bound a dial     *)
(* repeats its generation, which only makes the relay refuse more of them.     *)
Dial(c) ==
  LET g == IF gen < MaxGeneration THEN gen + 1 ELSE gen IN
  /\ link = "down"
  /\ Free(c)
  /\ gen' = g
  /\ ws' = c /\ link' = "hello"
  /\ sock' = [sock EXCEPT ![c] = "open"]
  /\ up' = [up EXCEPT ![c] = <<Frame("HELLO", g, "home")>>]
  /\ down' = [down EXCEPT ![c] = <<>>]
  /\ closed' = [closed EXCEPT ![c] = FALSE]
  /\ nextSid' = [nextSid EXCEPT ![c] = 0]
  /\ aborted' = [aborted EXCEPT ![c] = {}]
  /\ committed' = [committed EXCEPT ![c] = FALSE]
  /\ phase' = [phase EXCEPT ![c] = "hello"]
  /\ UNCHANGED <<connections, http, leases, homes, previous, generation, lock, prior,
                 tokenOk, evicting, faults, tasks, served>>

(* The relay's answer to the HELLO: connected means authenticated.             *)
HelloAcked ==
  /\ link = "hello" /\ down[ws] # <<>>
  /\ Head(down[ws]).type = "ACK"
  /\ link' = "up"
  /\ down' = [down EXCEPT ![ws] = Tail(@)]
  /\ UNCHANGED <<sock, up, closed, nextSid, aborted, connections, http, leases, regVars,
                 ws, gen, tasks, served>>

(* Mutant: the wait for the ACK has no bound. *)
ReadOver_NoAckTimeout ==
  \/ link = "hello" /\ down[ws] # <<>> /\ Head(down[ws]).type = "NACK"
  \/ sock[ws] = "closed" /\ down[ws] = <<>>
  \/ link = "up" /\ sock[ws] \in {"cut", "dropped"}

(* The HELLO is rejected, or unanswered for _HELLO_ACK_TIMEOUT_S, or the read  *)
(* ends; a cut socket's read ends by the websocket library's own keepalive.    *)
ReadOver ==
  \/ link = "hello" /\ down[ws] # <<>> /\ Head(down[ws]).type = "NACK"
  \/ sock[ws] = "closed" /\ down[ws] = <<>>
  \/ sock[ws] \in {"cut", "dropped"}

(* The connection is over: _ws is cleared and every stream aborted before any  *)
(* task is awaited.                                                            *)
TeardownStarts ==
  /\ link \in {"hello", "up"}
  /\ ReadOver
  /\ tasks' = {IF t \in Listed(ws) THEN Fence(t) ELSE t : t \in tasks}
  /\ sock' = [sock EXCEPT ![ws] = IF @ = "open" THEN "closed" ELSE @]
  /\ down' = [down EXCEPT ![ws] = <<>>]
  /\ ws' = NoConn /\ link' = "teardown"
  /\ UNCHANGED <<up, closed, nextSid, aborted, connections, http, leases, regVars,
                 gen, served>>

(* The tasks ended, or did not within _TASK_TEARDOWN_TIMEOUT_S; then backoff.  *)
TeardownEnds ==
  /\ link = "teardown"
  /\ link' = "down"
  /\ UNCHANGED <<muxVars, regVars, ws, gen, tasks, served>>

-------------------------------------------------------------------------------
(* _dispatch *)

(* _raw_send_on and _RequestStream.send_frame: an aborted stream and a stream  *)
(* of another connection than the current one write nothing.                   *)
MaySend(t) == ~t.ab /\ ws = t.conn

(* The socket a request's frames are written to: the one its REQ_OPEN came on. *)
Wire(t) == t.conn

SendAll(c, fs) == up' = IF sock[c] = "open" THEN [up EXCEPT ![c] = @ \o fs] ELSE up

(* _open_request: a task of its own, or a 503. *)
DispatchOpen(f) ==
  /\ f.type = "REQ_OPEN"
  /\ IF Cardinality(Listed(ws)) >= OpenRequestsMax
     THEN /\ SendAll(ws, <<Frame("RESP_HEAD", f.n, f.of), Frame("RESP_EOF", f.n, f.of)>>)
          /\ served' = [served EXCEPT ![f.of] = "refused"]
          /\ UNCHANGED tasks
     ELSE /\ tasks' = tasks \union {Task(ws, f.n, f.of)}
          /\ served' = [served EXCEPT ![f.of] = "running"]
          /\ UNCHANGED up

Addressed(f) == {t \in Listed(ws) : t.sid = f.n}

(* feed_body: the body is queued for the handler, or nobody is left to read it. *)
DispatchBody(f) ==
  /\ f.type = "REQ_DATA"
  /\ UNCHANGED <<up, tasks, served>>

(* _reject_request_body_overflow: the handler is cancelled, and the request    *)
(* answered with a 413 or, once its response has started, with the end of it.  *)
DispatchOverflow(f) ==
  /\ f.type = "REQ_DATA"
  /\ \E t \in Addressed(f) :
       /\ tasks' = Replace(t, Fence(t))
       /\ \/ /\ t.sent = 0
             /\ SendAll(ws, <<Frame("RESP_HEAD", f.n, f.of), Frame("RESP_EOF", f.n, f.of)>>)
             /\ served' = [served EXCEPT ![f.of] = "refused"]
          \/ /\ t.sent \in 1 .. Whole
             /\ SendAll(ws, <<Frame("RESP_EOF", f.n, f.of)>>)
             /\ served' = [served EXCEPT ![f.of] = "cut short"]
          \/ t.sent > Whole /\ UNCHANGED <<up, served>>

(* _abort_request *)
DispatchAbort(f) ==
  /\ f.type = "REQ_ABORT"
  /\ tasks' = {IF t \in Addressed(f) THEN Fence(t) ELSE t : t \in tasks}
  /\ UNCHANGED <<up, served>>

Dispatch ==
  /\ link = "up" /\ down[ws] # <<>>
  /\ LET f == Head(down[ws]) IN
     DispatchOpen(f) \/ DispatchBody(f) \/ DispatchOverflow(f) \/ DispatchAbort(f)
  /\ down' = [down EXCEPT ![ws] = Tail(@)]
  /\ UNCHANGED <<sock, closed, nextSid, aborted, connections, http, leases, regVars, ws,
                 link, gen>>

-------------------------------------------------------------------------------
(* _run_request *)

(* Mutant: a response is written to whichever tunnel is up.                    *)
Respond_CurrentTunnel(t) ==
  /\ ws # NoConn
  /\ SendAll(ws, <<Frame(IF t.sent = 0 THEN "RESP_HEAD" ELSE "RESP_DATA", t.sid, t.of)>>)
  /\ t.sent < Whole
  /\ tasks' = Replace(t, [t EXCEPT !.sent = @ + 1])
  /\ UNCHANGED <<sock, down, closed, nextSid, aborted, connections, http, leases, regVars,
                 ws, link, gen, served>>

(* The handler sends the next part of its response, and is done after the end. *)
Respond(t) ==
  /\ MaySend(t)
  /\ \/ /\ t.sent < Whole
        /\ SendAll(Wire(t), <<Frame(IF t.sent = 0 THEN "RESP_HEAD" ELSE "RESP_DATA", t.sid, t.of)>>)
        /\ tasks' = Replace(t, [t EXCEPT !.sent = @ + 1])
        /\ UNCHANGED served
     \/ /\ t.sent = Whole
        /\ SendAll(Wire(t), <<Frame("RESP_EOF", t.sid, t.of)>>)
        /\ tasks' = IF LateRaise THEN Replace(t, [t EXCEPT !.sent = @ + 1]) ELSE tasks \ {t}
        /\ served' = [served EXCEPT ![t.of] = "whole"]
  /\ UNCHANGED <<sock, down, closed, nextSid, aborted, connections, http, leases, regVars,
                 ws, link, gen>>

(* The handler raises: a 500 and the end, whatever was sent before.            *)
HandlerRaises(t) ==
  /\ MaySend(t)
  /\ t.sent = 0 \/ LateRaise
  /\ SendAll(Wire(t), <<Frame("RESP_HEAD", t.sid, t.of), Frame("RESP_EOF", t.sid, t.of)>>)
  /\ tasks' = tasks \ {t}
  /\ served' = [served EXCEPT ![t.of] = IF t.sent = 0 THEN "refused" ELSE @]
  /\ UNCHANGED <<sock, down, closed, nextSid, aborted, connections, http, leases, regVars,
                 ws, link, gen>>

(* A task ends: its response is out, it was cancelled, or its send was fenced. *)
TaskEnds(t) ==
  /\ ~MaySend(t) \/ t.sent > Whole
  /\ tasks' = tasks \ {t}
  /\ UNCHANGED <<muxVars, regVars, ws, link, gen, served>>

-------------------------------------------------------------------------------
(* The network and the home's host. *)

(* The path between the ends goes dead without either being told.              *)
Cut(c) ==
  /\ sock[c] = "open" /\ faults < MaxFaults
  /\ faults' = faults + 1
  /\ sock' = [sock EXCEPT ![c] = "cut"]
  /\ up' = [up EXCEPT ![c] = <<>>] /\ down' = [down EXCEPT ![c] = <<>>]
  /\ UNCHANGED <<closed, nextSid, aborted, connections, http, leases, homes, previous,
                 generation, committed, phase, lock, prior, tokenOk, evicting, homeVars>>

(* The home's process stops and starts: a new client counts generations from 0. *)
Restart ==
  /\ faults < MaxFaults /\ gen > 0
  /\ faults' = faults + 1
  /\ ws' = NoConn /\ link' = "down" /\ gen' = 0 /\ tasks' = {}
  /\ \E how \in {"closed", "cut"} :
       sock' = [c \in Conns |-> IF c = ws /\ sock[c] = "open" THEN how ELSE sock[c]]
  /\ up' = [c \in Conns |-> IF c = ws /\ sock'[c] # "closed" THEN <<>> ELSE up[c]]
  /\ down' = [c \in Conns |-> IF c = ws THEN <<>> ELSE down[c]]
  /\ UNCHANGED <<closed, nextSid, aborted, connections, http, leases, homes, previous,
                 generation, committed, phase, lock, prior, tokenOk, evicting, served>>

HomeStep ==
  \/ \E c \in Conns : Dial(c)
  \/ HelloAcked \/ TeardownStarts \/ TeardownEnds \/ Dispatch
  \/ \E t \in tasks : Respond(t) \/ HandlerRaises(t) \/ TaskEnds(t)
===============================================================================

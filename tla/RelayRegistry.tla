----------------------------- MODULE RelayRegistry -----------------------------
(* The relay's registration of one home (relay/relay/registry.py), the /scope  *)
(* handler of each of its sockets (_scope_endpoint), its keepalive, and the    *)
(* SIGHUP reload of the device tokens (relay/relay/server.py).                 *)
(*                                                                             *)
(* A registration and the socket it came on are one: homes and previous hold   *)
(* sockets.  One device token, and one home, as a relay process serves.        *)
EXTENDS RelayMux

CONSTANT MaxFaults   \* bound: faults in a behaviour

VARIABLES
  homes,       \* HomeRegistry._homes of the home
  previous,    \* previous[c]: HomeRegistration.previous
  generation,  \* generation[c]: HomeRegistration.generation
  committed,   \* committed[c]: ScopeConnection._registration_committed
  phase,       \* phase[c]: where _scope_endpoint is for socket c
  lock,        \* scope_registration_lock: the socket whose handler holds it
  prior,       \* the connection that handler is fencing
  tokenOk,     \* the device token file holds the home's token
  evicting,    \* an evict_home task is scheduled
  faults       \* faults so far

regVars == <<homes, previous, generation, committed, phase, lock, prior, tokenOk,
             evicting, faults>>

RegInit ==
  /\ homes = NoConn
  /\ previous = [c \in Conns |-> NoConn]
  /\ generation = [c \in Conns |-> 0]
  /\ committed = [c \in Conns |-> FALSE]
  /\ phase = [c \in Conns |-> "none"]
  /\ lock = NoConn /\ prior = NoConn
  /\ tokenOk = TRUE /\ evicting = FALSE
  /\ faults = 0

-------------------------------------------------------------------------------
(* HomeRegistry *)

(* Mutant: an equal generation is let in. *)
Stale_Equal(g) == homes # NoConn /\ g < generation[homes]

(* An equal or lower generation than the live one's is refused. *)
Stale(g) == homes # NoConn /\ g <= generation[homes]

Register(c, g) ==
  /\ generation' = [generation EXCEPT ![c] = g]
  /\ previous' = [previous EXCEPT ![c] = homes]
  /\ homes' = c

Commit(c) ==
  /\ committed' = [committed EXCEPT ![c] = TRUE]
  /\ previous' = [previous EXCEPT ![c] = NoConn]
  /\ closed' = [x \in Conns |-> closed[x] \/ x = previous[c]]

(* ScopeConnection.close on the registry: a committed registration leaves only *)
(* if it is still the live one, an uncommitted one gives way to the one it had *)
(* displaced.                                                                  *)
Unregister(c) == homes' = IF homes = c THEN NoConn ELSE homes
Rollback(c) == homes' = IF homes = c THEN previous[c] ELSE homes

CloseConnection(c) ==
  /\ IF committed[c] THEN Unregister(c) ELSE Rollback(c)
  /\ previous' = [previous EXCEPT ![c] = NoConn]
  /\ closed' = [closed EXCEPT ![c] = TRUE]
  /\ Shutdown(c)

(* A close cannot reach the other end of a cut socket. *)
CloseSocket(c) ==
  sock' = [sock EXCEPT ![c] = IF @ \in {"cut", "dropped"} THEN "dropped" ELSE "closed"]

-------------------------------------------------------------------------------
(* _scope_endpoint *)

(* The first frame of a socket is its HELLO; the handler holds the lock until  *)
(* the ACK is written and the previous generation fenced.                      *)
Hello(c) ==
  /\ phase[c] = "hello" /\ lock = NoConn
  /\ up[c] # <<>>
  /\ LET g == Head(up[c]).n IN
     IF ~tokenOk \/ Stale(g)
     THEN /\ phase' = [phase EXCEPT ![c] = "refusing"]
          /\ UNCHANGED <<homes, previous, generation>>
     ELSE /\ Register(c, g)
          /\ phase' = [phase EXCEPT ![c] = "acking"]
  /\ lock' = c
  /\ up' = [up EXCEPT ![c] = Tail(@)]
  /\ UNCHANGED <<sock, down, closed, nextSid, aborted, connections, http, leases,
                 committed, prior, tokenOk, evicting, faults>>

(* No HELLO within scope_hello_timeout_s, or the socket died first.            *)
NoHello(c) ==
  /\ phase[c] = "hello" /\ sock[c] # "open" /\ up[c] = <<>>
  /\ phase' = [phase EXCEPT ![c] = "gone"]
  /\ CloseSocket(c)
  /\ UNCHANGED <<up, down, closed, nextSid, aborted, connections, http, leases, homes,
                 previous, generation, committed, lock, prior, tokenOk, evicting, faults>>

(* A rejecting ACK, then the socket is closed.                                 *)
Refuse(c) ==
  /\ phase[c] = "refusing"
  /\ down' = OnWire(down, c, Frame("NACK", 0, "relay"))
  /\ CloseSocket(c)
  /\ phase' = [phase EXCEPT ![c] = "gone"]
  /\ lock' = NoConn
  /\ UNCHANGED <<up, closed, nextSid, aborted, connections, http, leases, homes,
                 previous, generation, committed, prior, tokenOk, evicting, faults>>

(* Mutant: what was registered before the ACK is taken to be registered after. *)
StillRegistered_Assumed(c) == TRUE

StillRegistered(c) == homes = c

(* The ACK is on the wire and the registration still stands: it is committed,  *)
(* browsers are routed to it, and the connection it replaces is to be fenced.  *)
AckSent(c) ==
  /\ phase[c] = "acking" /\ sock[c] \in {"open", "cut"}
  /\ StillRegistered(c)
  /\ down' = OnWire(down, c, Frame("ACK", 0, "relay"))
  /\ Commit(c)
  /\ connections' = c
  /\ IF connections \in {NoConn, c}
     THEN /\ phase' = [phase EXCEPT ![c] = "live"]
          /\ lock' = NoConn
          /\ UNCHANGED prior
     ELSE /\ phase' = [phase EXCEPT ![c] = "fencing"]
          /\ prior' = connections
          /\ UNCHANGED lock
  /\ UNCHANGED <<sock, up, nextSid, aborted, http, leases, homes, generation,
                 tokenOk, evicting, faults>>

(* The home was evicted while its ACK was being written: the ACK goes out and  *)
(* the socket is closed.                                                       *)
AckTooLate(c) ==
  /\ phase[c] = "acking" /\ sock[c] \in {"open", "cut"}
  /\ ~StillRegistered(c)
  /\ down' = OnWire(down, c, Frame("ACK", 0, "relay"))
  /\ CloseSocket(c)
  /\ CloseConnection(c)
  /\ phase' = [phase EXCEPT ![c] = "gone"]
  /\ lock' = NoConn
  /\ UNCHANGED <<up, nextSid, aborted, connections, leases, generation, committed,
                 prior, tokenOk, evicting, faults>>

(* The ACK cannot be written: the registration is rolled back.                 *)
AckFails(c) ==
  /\ phase[c] = "acking" /\ sock[c] # "open"
  /\ CloseConnection(c)
  /\ CloseSocket(c)
  /\ phase' = [phase EXCEPT ![c] = "gone"]
  /\ lock' = NoConn
  /\ UNCHANGED <<up, down, nextSid, aborted, connections, leases, generation, committed,
                 prior, tokenOk, evicting, faults>>

(* The replaced connection's socket is closed and its browsers let go.         *)
FencePrior(c) ==
  /\ phase[c] = "fencing"
  /\ CloseSocket(prior)
  /\ CloseConnection(prior)
  /\ phase' = [phase EXCEPT ![c] = "live"]
  /\ lock' = NoConn /\ prior' = NoConn
  /\ UNCHANGED <<up, down, nextSid, aborted, connections, leases, generation, committed,
                 tokenOk, evicting, faults>>

(* The read loop hands one frame to the multiplexer; one it cannot route ends  *)
(* the loop.                                                                   *)
ReadFrame(c) ==
  LET f == Head(up[c]) IN
  /\ phase[c] = "live" /\ up[c] # <<>>
  /\ up' = [up EXCEPT ![c] = Tail(@)]
  /\ IF RoutingError(c, f)
     THEN /\ phase' = [phase EXCEPT ![c] = "ending"]
          /\ UNCHANGED http
     ELSE /\ Route(c, f)
          /\ UNCHANGED phase
  /\ UNCHANGED <<sock, down, closed, nextSid, aborted, connections, leases, homes, previous,
                 generation, committed, lock, prior, tokenOk, evicting, faults>>

(* The read loop meets the end of its socket.                                  *)
ReadEnds(c) ==
  /\ phase[c] = "live" /\ sock[c] \in {"closed", "dropped"} /\ up[c] = <<>>
  /\ phase' = [phase EXCEPT ![c] = "ending"]
  /\ UNCHANGED <<muxVars, homes, previous, generation, committed, lock, prior, tokenOk,
                 evicting, faults>>

(* _ping_loop: no PONG for max_misses intervals.                               *)
PongStarved(c) ==
  /\ phase[c] = "live" /\ sock[c] = "cut"
  /\ CloseSocket(c)
  /\ closed' = [closed EXCEPT ![c] = TRUE]
  /\ UNCHANGED <<up, down, nextSid, aborted, connections, http, leases, regVars>>

(* The handler's finally clause, before and after it awaits close_socket.      *)
EndAffinity(c) ==
  /\ phase[c] = "ending"
  /\ connections' = IF connections = c THEN NoConn ELSE connections
  /\ CloseSocket(c)
  /\ closed' = [closed EXCEPT ![c] = TRUE]
  /\ up' = [up EXCEPT ![c] = <<>>]
  /\ phase' = [phase EXCEPT ![c] = "closing"]
  /\ UNCHANGED <<down, nextSid, aborted, http, leases, homes, previous, generation,
                 committed, lock, prior, tokenOk, evicting, faults>>

EndClose(c) ==
  /\ phase[c] = "closing"
  /\ CloseConnection(c)
  /\ phase' = [phase EXCEPT ![c] = "gone"]
  /\ UNCHANGED <<sock, up, down, nextSid, aborted, connections, leases, generation, committed,
                 lock, prior, tokenOk, evicting, faults>>

-------------------------------------------------------------------------------
(* reload_tokens on SIGHUP: a file without the home's token evicts the home    *)
(* from the registry and schedules the closing of its connection.              *)
Revoke ==
  /\ tokenOk /\ faults < MaxFaults
  /\ faults' = faults + 1
  /\ tokenOk' = FALSE
  /\ homes' = NoConn
  /\ closed' = [c \in Conns |-> closed[c] \/ c = homes]
  /\ evicting' = (homes # NoConn)
  /\ UNCHANGED <<sock, up, down, nextSid, aborted, connections, http, leases, previous,
                 generation, committed, phase, lock, prior>>

(* A later file holds the token again.  The event loop runs the scheduled      *)
(* eviction's first step before the next signal's callback.                    *)
Provision ==
  /\ ~tokenOk /\ ~evicting
  /\ tokenOk' = TRUE
  /\ UNCHANGED <<muxVars, homes, previous, generation, committed, phase, lock, prior,
                 evicting, faults>>

(* RelayState.evict_home *)
EvictHome ==
  /\ evicting
  /\ evicting' = FALSE
  /\ connections' = NoConn
  /\ IF connections = NoConn
     THEN UNCHANGED <<sock, homes, previous, closed, http>>
     ELSE CloseSocket(connections) /\ CloseConnection(connections)
  /\ UNCHANGED <<up, down, nextSid, aborted, leases, generation, committed, phase, lock,
                 prior, tokenOk, faults>>

(* The handler and the keepalive of one socket. *)
ScopeStep(c) ==
  \/ Hello(c) \/ NoHello(c) \/ Refuse(c) \/ AckSent(c) \/ AckTooLate(c) \/ AckFails(c)
  \/ FencePrior(c) \/ ReadFrame(c) \/ ReadEnds(c) \/ PongStarved(c)
  \/ EndAffinity(c) \/ EndClose(c)
===============================================================================

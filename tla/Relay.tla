--------------------------------- MODULE Relay ---------------------------------
(* Remote access: browsers, the relay and one home, composed.                  *)
EXTENDS RelayClient

vars == <<muxVars, regVars, homeVars>>

Init == MuxInit /\ RegInit /\ HomeInit

RelayStep == ((\E c \in Conns : ScopeStep(c)) \/ EvictHome \/ Revoke \/ Provision)
             /\ UNCHANGED homeVars

Next ==
  \/ BrowserStep /\ UNCHANGED <<regVars, homeVars>>
  \/ RelayStep
  \/ HomeStep
  \/ (\E c \in Conns : Cut(c)) \/ Restart

Spec == Init /\ [][Next]_vars

(* Every handler, task and timer of the two event loops is run when it can be; *)
(* nothing obliges a browser to ask, a handler to answer, or the network and   *)
(* the token file to change.  asyncio.Lock is first come, first served, so a   *)
(* HELLO that waits for the registration lock gets it.                         *)
Fairness ==
  /\ \A c \in Conns : WF_vars(ScopeStep(c) /\ UNCHANGED homeVars)
  /\ WF_vars(EvictHome /\ UNCHANGED homeVars)
  /\ WF_vars(\E c \in Conns : Dial(c))
  /\ WF_vars(HelloAcked \/ TeardownStarts \/ TeardownEnds \/ Dispatch)
  /\ WF_vars(\E t \in tasks : TaskEnds(t))
  /\ \A r \in Reqs :
       /\ WF_vars((SendBody(r) \/ UploadFails(r)) /\ UNCHANGED <<regVars, homeVars>>)
       /\ WF_vars(HeadTimeout(r) /\ UNCHANGED <<regVars, homeVars>>)
       /\ WF_vars((TakeChunk(r) \/ BodyBroken(r)) /\ UNCHANGED <<regVars, homeVars>>)

FairSpec == Spec /\ Fairness

-------------------------------------------------------------------------------
(* No browser is handed a byte of another browser's response.  Stream ids      *)
(* start again at 1 on every tunnel, and a handler may outlive the tunnel its  *)
(* request came on: its late response must not reach the next tunnel's stream  *)
(* of the same number (_raw_send_on, _RequestStream.send_frame).               *)
NeverAnothers == \A r \in Reqs : \A i \in DOMAIN http[r].got : http[r].got[i].of = r

(* Once a reload has taken the home's token away and the eviction it scheduled *)
(* has run, browsers reach no tunnel of it, the registration whose ACK was     *)
(* being written at the time included (reload_tokens, _scope_endpoint).        *)
RevokedOffline == ~tokenOk /\ ~evicting => connections = NoConn

(* The requests a lease is held for. *)
InFlight == {r \in Reqs : http[r].st \in {"upload", "wait", "body"}}
(* Whatever way a request ends (answered, timed out, broken off, its tunnel    *)
(* gone), it gives back the one lease it took: a leak would turn into 503s for *)
(* every browser (_browser_http's release_lease).                              *)
LeasesCounted == leases = Cardinality(InFlight)

(* Browsers are moved from one live tunnel straight to another only for a      *)
(* higher generation (HomeRegistry.register, commit).                          *)
FencedUpward ==
  [][connections # NoConn /\ connections' \notin {NoConn, connections}
       => generation'[connections'] > generation[connections]]_vars

(* The relay never tears down a tunnel whose socket is sound: in particular no *)
(* reply of the home that crosses an abort, a timeout or a browser that left   *)
(* is taken for a protocol error (abort_request, _on_resp_head).               *)
TunnelSurvives ==
  [][\A c \in Conns : phase[c] = "live" /\ phase'[c] = "ending" => sock[c] # "open"]_vars

(* RemoteRequest, with the browser's view of a request read off its handler. *)
Promise == INSTANCE RemoteRequest WITH
  answer <- [r \in Reqs |-> IF http[r].st \in {"upload", "wait", "body"} THEN "open"
                                                                       ELSE http[r].st]
(* Remote access implements RemoteRequest: through redials, cuts, restarts and *)
(* timeouts a request runs at most once, and ends cleanly at the browser only  *)
(* when the home ended the response.                                           *)
KeepsPromise == Promise!Spec

(* A request that took a lease ends, even when the tunnel it was sent on dies  *)
(* and nothing can answer it any more (_browser_http's bounds on its waits).   *)
RequestEnds == \A r \in Reqs : http[r].st = "upload" ~> http[r].st \in {"ok", "failed"}

(* With its token in the file the home ends up connected, and browsers routed  *)
(* to the tunnel it reads, after any cuts, restarts and reloads, although a    *)
(* restarted home counts its generations from 0 again.                         *)
Reconnects == <>[]tokenOk => <>[](link = "up" /\ ws = connections)
===============================================================================

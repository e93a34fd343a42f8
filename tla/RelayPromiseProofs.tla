-------------------------- MODULE RelayPromiseProofs --------------------------
(* Remote access implements RemoteRequest: a request is run at most once, and a *)
(* response that ended cleanly at a browser was ended by the home.  And no     *)
(* reply of the home, however late, costs it a sound tunnel.                   *)
EXTENDS RelayStreamProofs

-------------------------------------------------------------------------------
(* What a response that ended means *)

(* A request is opened once: of its REQ_OPEN there is at most one on any wire. *)
OpenOnce ==
  \A c, d \in Conns : \A i \in DOMAIN down[c], j \in DOMAIN down[d] :
    /\ down[c][i].type = "REQ_OPEN" /\ down[d][j].type = "REQ_OPEN"
    /\ down[c][i].of = down[d][j].of
    => c = d /\ i = j

(* A request that is still on its way has not been run. *)
NotYetServed ==
  /\ \A c \in Conns : \A f \in Items(down[c]) :
       f.type = "REQ_OPEN" => served[f.of] = "none" /\ http[f.of].st # "idle"
  /\ \A r \in Reqs : http[r].st = "idle" => served[r] = "none"

(* The task of a stream that is not aborted is the one that runs its request. *)
OneServer ==
  /\ \A t \in tasks : (~t.ab <=> t.listed) /\ t.sent <= Whole
  /\ \A t \in tasks : t.listed => served[t.of] = "running"
  /\ \A t, u \in tasks : t.listed /\ u.listed /\ t.of = u.of => t = u

Endings == {"whole", "refused", "cut short"}

(* The end of a response is on its way, or has come, only if the home ended it.*)
EndsMeant ==
  /\ \A c \in Conns : \A f \in Items(up[c]) :
       f.type = "RESP_EOF" => f.of \in Reqs /\ served[f.of] \in Endings
  /\ \A r \in Reqs : ~http[r].failed =>
       \A f \in Items(http[r].q) : f.type = "RESP_EOF" => served[r] \in Endings

Service == OpenOnce /\ NotYetServed /\ OneServer /\ EndsMeant

LEMMA ServiceInit == Init => Service
  <1> HAVE Init
  <1>1. /\ \A c \in Conns : up[c] = <<>> /\ down[c] = <<>>
        /\ tasks = {}
        /\ \A r \in Reqs : http[r].st = "idle" /\ http[r].q = <<>> /\ served[r] = "none"
    BY DEF Init, MuxInit, HomeInit, InitHttp
  <1>2. OpenOnce
    BY <1>1 DEF OpenOnce
  <1> QED
    BY <1>1, <1>2, ItemsEmpty DEF Service, NotYetServed, OneServer, EndsMeant

(* No REQ_OPEN of a request is doubled by reading a wire, by clearing it, or   *)
(* by writing another frame to it.                                             *)
LEMMA OpenKept ==
  ASSUME TypeInv, OpenOnce,
         \A c \in Conns :
           \/ down'[c] = down[c] \/ down'[c] = <<>>
           \/ down[c] # <<>> /\ down'[c] = Tail(down[c])
           \/ \E f \in DownFrames : f.type # "REQ_OPEN" /\ down'[c] = Append(down[c], f)
  PROVE  OpenOnce'
  <1>1. ASSUME NEW c \in Conns
        PROVE  \E k \in {0, 1} : \A i \in DOMAIN down'[c] :
                 down'[c][i].type = "REQ_OPEN" => /\ i \in Nat /\ i + k \in DOMAIN down[c]
                                                  /\ down'[c][i] = down[c][i + k]
    <2>1. down[c] \in Seq(DownFrames)
      BY DEF TypeInv, MuxType
    <2>2. CASE down'[c] = down[c]
      <3>1. \A i \in DOMAIN down'[c] : i \in Nat /\ i + 0 = i
        BY <2>1, <2>2
      <3> QED
        BY <2>2, <3>1
    <2>3. CASE down'[c] = <<>>
      BY <2>3
    <2>4. CASE down[c] # <<>> /\ down'[c] = Tail(down[c])
      <3>1. \A i \in DOMAIN Tail(down[c]) : /\ i \in Nat /\ i + 1 \in DOMAIN down[c]
                                            /\ Tail(down[c])[i] = down[c][i + 1]
        BY <2>1, <2>4
      <3> QED
        BY <2>4, <3>1
    <2>5. CASE \E f \in DownFrames : f.type # "REQ_OPEN" /\ down'[c] = Append(down[c], f)
      <3>1. PICK f \in DownFrames : f.type # "REQ_OPEN" /\ down'[c] = Append(down[c], f)
        BY <2>5
      <3>2. \A i \in DOMAIN Append(down[c], f) :
              /\ i \in Nat /\ i + 0 = i
              /\ \/ i \in DOMAIN down[c] /\ Append(down[c], f)[i] = down[c][i]
                 \/ Append(down[c], f)[i] = f
        BY <2>1
      <3> QED
        BY <3>1, <3>2
    <2> QED
      BY <2>2, <2>3, <2>4, <2>5
  <1> SUFFICES ASSUME NEW c \in Conns, NEW d \in Conns,
                      NEW i \in DOMAIN down'[c], NEW j \in DOMAIN down'[d],
                      down'[c][i].type = "REQ_OPEN", down'[d][j].type = "REQ_OPEN",
                      down'[c][i].of = down'[d][j].of
               PROVE  c = d /\ i = j
    BY DEF OpenOnce
  <1>2. PICK k \in {0, 1} : \A m \in DOMAIN down'[c] :
                 down'[c][m].type = "REQ_OPEN" => /\ m \in Nat /\ m + k \in DOMAIN down[c]
                                                  /\ down'[c][m] = down[c][m + k]
    BY <1>1
  <1>3. PICK l \in {0, 1} : \A m \in DOMAIN down'[d] :
                 down'[d][m].type = "REQ_OPEN" => /\ m \in Nat /\ m + l \in DOMAIN down[d]
                                                  /\ down'[d][m] = down[d][m + l]
    BY <1>1
  <1>4. c = d /\ i + k = j + l
    BY <1>2, <1>3 DEF OpenOnce
  <1>5. i + k = j + k
    BY <1>2, <1>4 DEF OpenOnce
  <1> QED
    BY <1>2, <1>3, <1>4, <1>5

LEMMA ServiceBrowser ==
  ASSUME TypeInv, StreamInv, Service, BrowserStep, UNCHANGED <<regVars, homeVars>>
  PROVE  Service'
  <1>1. PICK r \in Reqs : UNCHANGED <<sock, up, connections>> /\ (Opens(r) \/ GoesOn(r))
    BY BrowserEffect DEF BrowserStep
  <1>2. UNCHANGED <<tasks, served, up>>
    BY <1>1 DEF homeVars
  <1>3. /\ down \in [Conns -> Seq(DownFrames)] /\ nextSid \in [Conns -> Nat]
        /\ http \in [Reqs -> Exchanges] /\ http[r] \in Exchanges /\ http[r].sid \in Nat
    BY DEF TypeInv, MuxType, Exchanges
  <1>4. OneServer'
    BY <1>2 DEF Service, OneServer
  <1>5. CASE Opens(r)
    <2> DEFINE c == connections  f == Frame("REQ_OPEN", nextSid[connections] + 1, r)
    <2>1. f \in DownFrames /\ f.type = "REQ_OPEN" /\ f.of = r
      <3>1. nextSid[connections] + 1 \in Nat
        BY <1>3, <1>5 DEF Opens
      <3> QED
        BY <3>1 DEF Frame, DownFrames
    <2>2. http'[r].st = "upload" /\ http'[r].q = http[r].q /\ http'[r].failed = http[r].failed
          /\ \A s \in Reqs : s # r => http'[s] = http[s]
      BY <1>3, <1>5 DEF Opens, Exchanges
    <2>3. c \in Conns /\ http[r].st = "idle" /\ served[r] = "none"
      BY <1>5 DEF Opens, Service, NotYetServed
    <2>4. \A d \in Conns : \A g \in Items(down[d]) : g.type = "REQ_OPEN" => g.of # r
      BY <2>3 DEF Service, NotYetServed
    <2> HIDE DEF f
    <2>5. down' = down \/ down' = [down EXCEPT ![c] = Append(@, f)]
      BY <1>5 DEF Opens, OnWire, f
    <2> HIDE DEF c
    <2>6. Items(Append(down[c], f)) = Items(down[c]) \union {f}
      BY <1>3, <2>1, <2>3, ItemsAppend
    <2>7. OpenOnce'
      <3>1. CASE down' = down
        BY <3>1 DEF Service, OpenOnce
      <3>2. CASE down' = [down EXCEPT ![c] = Append(@, f)]
        <4>1. ASSUME NEW d \in Conns, NEW i \in DOMAIN down'[d]
              PROVE  \/ i \in DOMAIN down[d] /\ down'[d][i] = down[d][i] /\ down[d][i] \in Items(down[d])
                     \/ d = c /\ i = Len(down[c]) + 1 /\ down'[d][i] = f
          <5>1. CASE d # c
            BY <1>3, <3>2, <4>1, <5>1 DEF Items
          <5>2. CASE d = c
            <6>1. down[c] \in Seq(DownFrames) /\ down'[d] = Append(down[c], f)
              BY <1>3, <3>2, <5>2
            <6>2. DOMAIN Append(down[c], f) = 1 .. Len(down[c]) + 1 /\ DOMAIN down[c] = 1 .. Len(down[c])
                  /\ Len(down[c]) \in Nat
              BY <6>1, <2>1
            <6>3. \/ i \in DOMAIN down[c] /\ Append(down[c], f)[i] = down[c][i]
                  \/ i = Len(down[c]) + 1 /\ Append(down[c], f)[i] = f
              BY <2>1, <4>1, <6>1, <6>2
            <6> QED
              BY <5>2, <6>1, <6>3 DEF Items
          <5> QED
            BY <5>1, <5>2
        <4> SUFFICES ASSUME NEW d \in Conns, NEW e \in Conns,
                            NEW i \in DOMAIN down'[d], NEW j \in DOMAIN down'[e],
                            down'[d][i].type = "REQ_OPEN", down'[e][j].type = "REQ_OPEN",
                            down'[d][i].of = down'[e][j].of
                     PROVE  d = e /\ i = j
          BY DEF OpenOnce
        <4>2. CASE down'[d][i].of = r
          BY <2>4, <4>1, <4>2
        <4>3. CASE down'[d][i].of # r
          <5>1. /\ i \in DOMAIN down[d] /\ down'[d][i] = down[d][i]
                /\ j \in DOMAIN down[e] /\ down'[e][j] = down[e][j]
            BY <2>1, <4>1, <4>3
          <5> QED
            BY <5>1 DEF Service, OpenOnce
        <4> QED
          BY <4>2, <4>3
      <3> QED
        BY <2>5, <3>1, <3>2
    <2>8. NotYetServed'
      <3>1. \A d \in Conns : Items(down'[d]) \subseteq Items(down[d]) \union {f}
        BY <1>3, <2>3, <2>5, <2>6
      <3>2. ASSUME NEW d \in Conns, NEW g \in Items(down'[d]), g.type = "REQ_OPEN"
            PROVE  served'[g.of] = "none" /\ http'[g.of].st # "idle"
        <4>1. CASE g = f
          BY <1>2, <2>1, <2>2, <2>3, <4>1
        <4>2. CASE g \in Items(down[d])
          <5>1. g \in DownFrames
            BY <1>3, <4>2 DEF Items
          <5>2. g.of \in Reqs /\ g.of # r
            BY <2>4, <3>2, <4>2, <5>1 DEF DownFrames
          <5> QED
            BY <1>2, <2>2, <3>2, <4>2, <5>2 DEF Service, NotYetServed
        <4> QED
          BY <3>1, <3>2, <4>1, <4>2
      <3>3. \A s \in Reqs : http'[s].st = "idle" => served'[s] = "none"
        BY <1>2, <2>2 DEF Service, NotYetServed
      <3> QED
        BY <3>2, <3>3 DEF NotYetServed
    <2>9. EndsMeant'
      BY <1>2, <2>2 DEF Service, EndsMeant
    <2> QED
      BY <1>4, <2>7, <2>8, <2>9 DEF Service
  <1>6. CASE GoesOn(r)
    <2>1. \A s \in Reqs : s # r => http'[s] = http[s]
      BY <1>6 DEF GoesOn
    <2>2. \A type \in {"REQ_DATA", "REQ_ABORT"} :
            Frame(type, http[r].sid, r) \in DownFrames /\ Frame(type, http[r].sid, r).type = type
      BY <1>3 DEF Frame, DownFrames
    <2>3. \A c \in Conns :
            \/ down'[c] = down[c]
            \/ \E f \in DownFrames : f.type # "REQ_OPEN" /\ down'[c] = Append(down[c], f)
      BY <1>6, <2>2 DEF GoesOn
    <2>4. OpenOnce'
      BY <2>3, OpenKept DEF Service
    <2>5. \A c \in Conns : \A f \in Items(down'[c]) : f.type = "REQ_OPEN" => f \in Items(down[c])
      <3> TAKE c \in Conns
      <3>1. \A f \in DownFrames : Items(Append(down[c], f)) = Items(down[c]) \union {f}
        BY <1>3, ItemsAppend
      <3>2. CASE down'[c] = down[c]
        BY <3>2
      <3>3. CASE \E f \in DownFrames : f.type # "REQ_OPEN" /\ down'[c] = Append(down[c], f)
        <4>1. PICK f \in DownFrames : f.type # "REQ_OPEN" /\ down'[c] = Append(down[c], f)
          BY <3>3
        <4>2. Items(down'[c]) = Items(down[c]) \union {f}
          BY <3>1, <4>1
        <4> QED
          BY <4>1, <4>2
      <3> QED
        BY <2>3, <3>2, <3>3
    <2>6. http[r].st # "idle" => http'[r].st # "idle"
      BY <1>6 DEF GoesOn
    <2>7. NotYetServed'
      <3>1. ASSUME NEW d \in Conns, NEW g \in Items(down'[d]), g.type = "REQ_OPEN"
            PROVE  served'[g.of] = "none" /\ http'[g.of].st # "idle"
        <4>1. g \in Items(down[d]) /\ g \in DownFrames
          BY <1>3, <2>5, <3>1, ItemsType
        <4>2. g.of \in Reqs
          BY <3>1, <4>1 DEF DownFrames
        <4> QED
          BY <1>2, <2>1, <2>6, <3>1, <4>1, <4>2 DEF Service, NotYetServed
      <3>2. http'[r].st = "idle" => http[r].st = "idle"
        BY <2>6
      <3>3. \A s \in Reqs : http'[s].st = "idle" => served'[s] = "none"
        BY <1>2, <2>1, <3>2 DEF Service, NotYetServed
      <3> QED
        BY <3>1, <3>3 DEF NotYetServed
    <2>8. EndsMeant'
      <3>1. ASSUME ~http'[r].failed, NEW f \in Items(http'[r].q), f.type = "RESP_EOF"
            PROVE  served[r] \in Endings
        BY <1>6, <3>1 DEF GoesOn, Service, EndsMeant
      <3> QED
        BY <1>2, <2>1, <3>1 DEF Service, EndsMeant
    <2> QED
      BY <1>4, <2>4, <2>7, <2>8 DEF Service
  <1> QED
    BY <1>1, <1>5, <1>6

LEMMA ServiceRelay ==
  ASSUME TypeInv, StreamInv, Service, RelayStep
  PROVE  Service'
  <1>1. Relays
    BY ScopeEffect, ReloadEffect DEF RelayStep
  <1>2. UNCHANGED <<tasks, served>>
    BY DEF RelayStep, homeVars
  <1>3. /\ down \in [Conns -> Seq(DownFrames)] /\ up \in [Conns -> Seq(UpFrames)]
        /\ http \in [Reqs -> Exchanges]
    BY DEF TypeInv, MuxType
  <1>4. OneServer'
    BY <1>2 DEF Service, OneServer
  <1>5. \A type \in {"ACK", "NACK"} :
          Frame(type, 0, "relay") \in DownFrames /\ Frame(type, 0, "relay").type = type
    BY DEF Frame, DownFrames
  <1>6. \A c \in Conns :
          \/ down'[c] = down[c]
          \/ \E f \in DownFrames : f.type # "REQ_OPEN" /\ down'[c] = Append(down[c], f)
    BY <1>1, <1>5 DEF Relays
  <1>7. OpenOnce'
    BY <1>6, OpenKept DEF Service
  <1>8. \A c \in Conns : \A f \in Items(down'[c]) : f.type = "REQ_OPEN" => f \in Items(down[c])
    <2> TAKE c \in Conns
    <2>1. \A f \in DownFrames : Items(Append(down[c], f)) = Items(down[c]) \union {f}
      BY <1>3, ItemsAppend
    <2>2. CASE down'[c] = down[c]
      BY <2>2
    <2>3. CASE \E f \in DownFrames : f.type # "REQ_OPEN" /\ down'[c] = Append(down[c], f)
      <3>1. PICK f \in DownFrames : f.type # "REQ_OPEN" /\ down'[c] = Append(down[c], f)
        BY <2>3
      <3>2. Items(down'[c]) = Items(down[c]) \union {f}
        BY <2>1, <3>1
      <3> QED
        BY <3>1, <3>2
    <2> QED
      BY <1>6, <2>2, <2>3
  <1>9. NotYetServed'
    <2>1. \A r \in Reqs : http'[r].st = "idle" <=> http[r].st = "idle"
      BY RelayOwn
    <2>2. ASSUME NEW d \in Conns, NEW g \in Items(down'[d]), g.type = "REQ_OPEN"
          PROVE  served'[g.of] = "none" /\ http'[g.of].st # "idle"
      <3>1. g \in Items(down[d]) /\ g \in DownFrames
        BY <1>3, <1>8, <2>2, ItemsType
      <3>2. g.of \in Reqs
        BY <2>2, <3>1 DEF DownFrames
      <3> QED
        BY <1>2, <2>1, <2>2, <3>1, <3>2 DEF Service, NotYetServed
    <2> QED
      BY <1>2, <2>1, <2>2 DEF Service, NotYetServed
  <1>10. EndsMeant'
    <2>1. ASSUME NEW r \in Reqs, ~http'[r].failed, NEW f \in Items(http'[r].q), f.type = "RESP_EOF"
          PROVE  served[r] \in Endings
      <3>1. /\ http'[r].failed = http[r].failed
            /\ f \in Items(http[r].q) \/ (\E c \in Conns : f \in Items(up[c]) /\ f.of = r)
        BY <2>1, RelayOwn
      <3> QED
        BY <2>1, <3>1 DEF Service, EndsMeant
    <2>2. ASSUME NEW c \in Conns, NEW f \in Items(up'[c]), f.type = "RESP_EOF"
          PROVE  f.of \in Reqs /\ served[f.of] \in Endings
      BY <1>1, <2>2 DEF Relays, Service, EndsMeant
    <2> QED
      BY <1>2, <2>1, <2>2 DEF EndsMeant
  <1> QED
    BY <1>4, <1>7, <1>9, <1>10 DEF Service

(* What a step of the home does to a request: it takes it up, or ends its      *)
(* response, or neither.                                                       *)
Serves ==
  \/ served' = served
  \/ \E r \in Reqs : /\ served[r] = "none" /\ http[r].st # "idle"
                      /\ \E s \in {"running", "refused"} : served' = [served EXCEPT ![r] = s]
  \/ \E r \in Reqs : /\ served[r] = "running"
                      /\ \E s \in Endings : served' = [served EXCEPT ![r] = s]

(* An end that was meant stays meant; new ends on the wires must be. *)
LEMMA EndsKept ==
  ASSUME TypeInv, EndsMeant, Serves, http' = http,
         \A c \in Conns : \A f \in Items(up'[c]) : f.type = "RESP_EOF" =>
           f \in Items(up[c]) \/ (f.of \in Reqs /\ served'[f.of] \in Endings)
  PROVE  EndsMeant'
  <1>1. \A r \in Reqs : served[r] \in Endings => served'[r] \in Endings
    <2> TAKE r \in Reqs
    <2> HAVE served[r] \in Endings
    <2>1. CASE served' = served
      BY <2>1
    <2>2. CASE \E s \in Reqs : /\ served[s] \in {"none", "running"}
                               /\ \E e : served' = [served EXCEPT ![s] = e]
      BY <2>2 DEF Endings, TypeInv, HomeType
    <2> QED
      BY <2>1, <2>2 DEF Serves
  <1>2. \A c \in Conns : \A f \in Items(up'[c]) :
          f.type = "RESP_EOF" => f.of \in Reqs /\ served'[f.of] \in Endings
    BY <1>1 DEF EndsMeant
  <1>3. \A r \in Reqs : ~http'[r].failed =>
          \A f \in Items(http'[r].q) : f.type = "RESP_EOF" => served'[r] \in Endings
    BY <1>1 DEF EndsMeant
  <1> QED
    BY <1>2, <1>3 DEF EndsMeant

(* The tasks and the requests on their way, when nothing new is run. *)
LEMMA ServersKept ==
  ASSUME TypeInv, OneServer, NotYetServed, OpenOnce, http' = http,
         \A c \in Conns : \/ down'[c] = down[c] \/ down'[c] = <<>>
                          \/ down[c] # <<>> /\ down'[c] = Tail(down[c]),
         \/ served' = served
         \/ \E t \in tasks, e \in Endings :
              /\ t.listed /\ served' = [served EXCEPT ![t.of] = e]
              /\ \A u \in tasks' : u.listed => u # t /\ u \in tasks,
         \A u \in tasks' :
           \/ u \in tasks \/ (u.ab = TRUE /\ u.listed = FALSE /\ u.sent <= Whole)
           \/ \E t \in tasks : /\ t \notin tasks' /\ u.of = t.of /\ u.ab = t.ab /\ u.listed = t.listed
                                /\ u.sent <= Whole
                                /\ \A w \in tasks' : w = u \/ w \in tasks
  PROVE  OneServer' /\ NotYetServed' /\ OpenOnce'
  <1>1. OpenOnce'
    BY OpenKept
  <1>2. \A c \in Conns : Items(down'[c]) \subseteq Items(down[c])
    <2> TAKE c \in Conns
    <2>1. down[c] \in Seq(DownFrames)
      BY DEF TypeInv, MuxType
    <2> QED
      BY <2>1, ItemsTail, ItemsEmpty
  <1>3. \A r \in Reqs : served[r] = "none" => served'[r] = "none"
    BY DEF OneServer, TypeInv, HomeType
  <1>4. NotYetServed'
    <2>1. ASSUME NEW c \in Conns, NEW f \in Items(down'[c]), f.type = "REQ_OPEN"
          PROVE  served'[f.of] = "none" /\ http'[f.of].st # "idle"
      <3>1. f \in Items(down[c]) /\ f \in DownFrames
        BY <1>2, ItemsType DEF TypeInv, MuxType
      <3>2. f.of \in Reqs
        BY <2>1, <3>1 DEF DownFrames
      <3> QED
        BY <1>3, <2>1, <3>1, <3>2 DEF NotYetServed
    <2> QED
      BY <1>3, <2>1 DEF NotYetServed
  <1>5. \A u \in tasks' : (~u.ab <=> u.listed) /\ u.sent <= Whole
    BY DEF OneServer
  <1>6. \A u \in tasks' : u.listed => served'[u.of] = "running"
    <2>1. \A t \in tasks : t.of \in Reqs
      BY DEF TypeInv, HomeType, TaskSet
    <2>2. CASE served' = served
      BY <2>2 DEF OneServer
    <2>3. CASE \E t \in tasks, e \in Endings :
                 /\ t.listed /\ served' = [served EXCEPT ![t.of] = e]
                 /\ \A u \in tasks' : u.listed => u # t /\ u \in tasks
      <3>1. PICK t \in tasks, e \in Endings :
                 /\ t.listed /\ served' = [served EXCEPT ![t.of] = e]
                 /\ \A u \in tasks' : u.listed => u # t /\ u \in tasks
        BY <2>3
      <3> SUFFICES ASSUME NEW u \in tasks', u.listed
                   PROVE  served'[u.of] = "running"
        OBVIOUS
      <3>2. u \in tasks /\ u # t /\ u.of # t.of
        BY <3>1 DEF OneServer
      <3> QED
        BY <2>1, <3>1, <3>2 DEF OneServer, TypeInv, HomeType
    <2> QED
      BY <2>2, <2>3
  <1>7. \A u, v \in tasks' : u.listed /\ v.listed /\ u.of = v.of => u = v
    <2> SUFFICES ASSUME NEW u \in tasks', NEW v \in tasks', u.listed, v.listed, u.of = v.of
                 PROVE  u = v
      OBVIOUS
    <2>1. CASE u \in tasks /\ v \in tasks
      BY <2>1 DEF OneServer
    <2>2. CASE u \notin tasks
      BY <2>2 DEF OneServer
    <2>3. CASE v \notin tasks
      BY <2>3 DEF OneServer
    <2> QED
      BY <2>1, <2>2, <2>3
  <1> QED
    BY <1>1, <1>4, <1>5, <1>6, <1>7 DEF OneServer

LEMMA SentFrames ==
  ASSUME TypeInv, NEW c \in Conns, NEW fs \in Seq(UpFrames), SendAll(c, fs)
  PROVE  \A d \in Conns : \A f \in Items(up'[d]) : f \in Items(up[d]) \/ f \in Items(fs)
  <1> TAKE d \in Conns
  <1>1. up[d] \in Seq(UpFrames)
    BY DEF TypeInv, MuxType
  <1>2. up'[d] = up[d] \/ up'[d] = up[d] \o fs
    BY DEF SendAll, TypeInv, MuxType
  <1>3. Items(up[d] \o fs) = Items(up[d]) \union Items(fs)
    BY <1>1, ItemsConcat
  <1> QED
    BY <1>2, <1>3

(* A handler's own steps.  One that raised after its response started would    *)
(* say the end twice, or on a response it has not finished.                    *)
LEMMA ServiceTask ==
  ASSUME TypeInv, Service, ~LateRaise,
         NEW t \in tasks, Respond(t) \/ HandlerRaises(t) \/ TaskEnds(t)
  PROVE  Service' /\ Serves
  <1> USE DEF Service
  <1>1. /\ t \in TaskSet /\ t.conn \in Conns /\ t.sid \in Nat /\ t.of \in Reqs /\ t.sent \in Nat
    BY DEF TypeInv, HomeType, TaskSet
  <1>2. http' = http /\ down' = down
    BY DEF Respond, HandlerRaises, TaskEnds, muxVars
  <1>3. (~t.ab <=> t.listed) /\ t.sent <= Whole /\ (t.listed => served[t.of] = "running")
    BY DEF OneServer
  <1> DEFINE h == Frame("RESP_HEAD", t.sid, t.of)
             d == Frame("RESP_DATA", t.sid, t.of)
             e == Frame("RESP_EOF", t.sid, t.of)
  <1>4. /\ h \in UpFrames /\ d \in UpFrames /\ e \in UpFrames
        /\ h.type # "RESP_EOF" /\ d.type # "RESP_EOF" /\ e.of = t.of
    BY <1>1 DEF Frame, UpFrames
  <1>5. CASE TaskEnds(t)
    <2>1. served' = served /\ tasks' = tasks \ {t} /\ up' = up
      BY <1>5 DEF TaskEnds, muxVars
    <2>2. Serves
      BY <2>1 DEF Serves
    <2>3. EndsMeant'
      BY <1>2, <2>1, <2>2, EndsKept
    <2>4. OneServer' /\ NotYetServed' /\ OpenOnce'
      BY <1>2, <2>1, ServersKept
    <2> QED
      BY <2>2, <2>3, <2>4
  <1>6. CASE Respond(t) /\ t.sent < Whole
    <2> DEFINE w == [t EXCEPT !.sent = @ + 1]
    <2>0. Whole \in Nat /\ t.sent # Whole /\ t.sent + 1 <= Whole /\ t.sent + 1 # t.sent
      <3>1. Whole \in Nat
        BY RelayMuxAssumption DEF Whole
      <3> QED
        BY <1>1, <1>6, <3>1
    <2>1. served' = served /\ tasks' = Replace(t, w)
      BY <1>6, <2>0 DEF Respond
    <2>2. SendAll(t.conn, <<h>>) \/ SendAll(t.conn, <<d>>)
      BY <1>6, <2>0 DEF Respond, Wire
    <2>3. /\ w.of = t.of /\ w.ab = t.ab /\ w.listed = t.listed /\ w.sent = t.sent + 1
          /\ w # t /\ w.sent <= Whole
      <3>1. w.of = t.of /\ w.ab = t.ab /\ w.listed = t.listed /\ w.sent = t.sent + 1
        BY <1>1 DEF TaskSet
      <3> HIDE DEF w
      <3> QED
        BY <2>0, <3>1
    <2>4. Serves
      BY <2>1 DEF Serves
    <2> HIDE DEF h, d, e, w
    <2>5. \A c \in Conns : \A f \in Items(up'[c]) : f.type = "RESP_EOF" => f \in Items(up[c])
      <3>1. <<h>> \in Seq(UpFrames) /\ <<d>> \in Seq(UpFrames)
        BY <1>4
      <3>4. Items(<<h>>) = {h} /\ Items(<<d>>) = {d}
        BY ItemsOneTwo
      <3>2. CASE SendAll(t.conn, <<h>>)
        BY <1>1, <1>4, <3>1, <3>2, <3>4, SentFrames
      <3>3. CASE SendAll(t.conn, <<d>>)
        BY <1>1, <1>4, <3>1, <3>3, <3>4, SentFrames
      <3> QED
        BY <2>2, <3>2, <3>3
    <2>6. EndsMeant'
      BY <1>2, <2>4, <2>5, EndsKept
    <2>7. \A u \in tasks' :
           \/ u \in tasks
           \/ /\ t \notin tasks' /\ u.of = t.of /\ u.ab = t.ab /\ u.listed = t.listed
              /\ u.sent <= Whole
              /\ \A v \in tasks' : v = u \/ v \in tasks
      BY <2>1, <2>3 DEF Replace
    <2>8. OneServer' /\ NotYetServed' /\ OpenOnce'
      BY <1>2, <2>1, <2>7, ServersKept
    <2> QED
      BY <2>4, <2>6, <2>8
  <1>7. CASE (Respond(t) /\ ~(t.sent < Whole)) \/ HandlerRaises(t)
    <2>1. t.listed
      BY <1>3, <1>7 DEF Respond, HandlerRaises, MaySend
    <2>2. /\ tasks' = tasks \ {t}
          /\ \E s \in {"whole", "refused"} : served' = [served EXCEPT ![t.of] = s]
          /\ SendAll(t.conn, <<e>>) \/ SendAll(t.conn, <<h, e>>)
      BY <1>7 DEF Respond, HandlerRaises, Wire
    <2>3. PICK s \in {"whole", "refused"} : served' = [served EXCEPT ![t.of] = s]
      BY <2>2
    <2>4. s \in Endings /\ served'[t.of] = s
      BY <1>1, <2>3 DEF Endings, TypeInv, HomeType
    <2>5. Serves
      BY <1>1, <1>3, <2>1, <2>3, <2>4 DEF Serves
    <2> HIDE DEF h, d, e
    <2>6. \A c \in Conns : \A f \in Items(up'[c]) :
            f.type = "RESP_EOF" => f \in Items(up[c]) \/ (f.of \in Reqs /\ served'[f.of] \in Endings)
      <3>1. <<e>> \in Seq(UpFrames) /\ <<h, e>> \in Seq(UpFrames)
        BY <1>4
      <3>4. Items(<<e>>) = {e} /\ Items(<<h, e>>) = {h, e}
        BY ItemsOneTwo
      <3>2. CASE SendAll(t.conn, <<e>>)
        BY <1>1, <1>4, <2>4, <3>1, <3>2, <3>4, SentFrames
      <3>3. CASE SendAll(t.conn, <<h, e>>)
        BY <1>1, <1>4, <2>4, <3>1, <3>3, <3>4, SentFrames
      <3> QED
        BY <2>2, <3>2, <3>3
    <2>7. EndsMeant'
      BY <1>2, <2>5, <2>6, EndsKept
    <2>8. OneServer' /\ NotYetServed' /\ OpenOnce'
      BY <1>2, <2>1, <2>2, <2>3, <2>4, ServersKept
    <2> QED
      BY <2>5, <2>7, <2>8
  <1> QED
    BY <1>5, <1>6, <1>7

(* The life of a connection, and the faults: responses stop, none ends. *)
LEMMA ServiceLink ==
  ASSUME TypeInv, Service,
         \/ HelloAcked \/ TeardownStarts \/ TeardownEnds \/ Restart
         \/ (\E c \in Conns : Dial(c) \/ Cut(c))
  PROVE  Service' /\ served' = served
  <1> USE DEF Service
  <1>1. http' = http /\ served' = served
    BY DEF HelloAcked, TeardownStarts, TeardownEnds, Restart, Dial, Cut, muxVars, homeVars
  <1>2. Serves
    BY <1>1 DEF Serves
  <1>3. /\ down \in [Conns -> Seq(DownFrames)] /\ up \in [Conns -> Seq(UpFrames)]
        /\ link \in {"hello", "up"} => ws \in Conns
    BY DEF TypeInv, MuxType, HomeType
  <1>4. \A c \in Conns : \/ down'[c] = down[c] \/ down'[c] = <<>>
                         \/ down[c] # <<>> /\ down'[c] = Tail(down[c])
    <2>1. CASE HelloAcked
      BY <1>3, <2>1 DEF HelloAcked
    <2>2. CASE TeardownStarts \/ TeardownEnds \/ Restart \/ (\E c \in Conns : Dial(c) \/ Cut(c))
      BY <1>3, <2>2 DEF TeardownStarts, TeardownEnds, Restart, Dial, Cut, muxVars
    <2> QED
      BY <2>1, <2>2
  <1>5. \A c \in Conns : \/ up'[c] = up[c] \/ up'[c] = <<>>
                         \/ \E g : up'[c] = <<Frame("HELLO", g, "home")>>
    <2>1. CASE \E c \in Conns : Dial(c)
      BY <1>3, <2>1 DEF Dial
    <2>2. CASE ~\E c \in Conns : Dial(c)
      BY <1>3, <2>2 DEF HelloAcked, TeardownStarts, TeardownEnds, Restart, Cut, muxVars
    <2> QED
      BY <2>1, <2>2
  <1>6. \A c \in Conns : \A f \in Items(up'[c]) : f.type = "RESP_EOF" => f \in Items(up[c])
    <2>1. \A g : Items(<<Frame("HELLO", g, "home")>>) = {Frame("HELLO", g, "home")}
                 /\ Frame("HELLO", g, "home").type # "RESP_EOF"
      <3> TAKE g
      <3>1. Frame("HELLO", g, "home").type # "RESP_EOF"
        BY DEF Frame
      <3> QED
        BY <3>1, ItemsOneTwo
    <2> TAKE c \in Conns
    <2>2. CASE up'[c] = up[c]
      BY <2>2
    <2>3. CASE up'[c] = <<>>
      <3>1. Items(up'[c]) = {}
        BY <2>3, ItemsEmpty
      <3> QED
        BY <3>1
    <2>4. CASE \E g : up'[c] = <<Frame("HELLO", g, "home")>>
      <3>1. PICK g : up'[c] = <<Frame("HELLO", g, "home")>>
        BY <2>4
      <3>2. Items(up'[c]) = {Frame("HELLO", g, "home")} /\ Frame("HELLO", g, "home").type # "RESP_EOF"
        BY <2>1, <3>1
      <3> QED
        BY <3>2
    <2> QED
      BY <1>5, <2>2, <2>3, <2>4
  <1>7. EndsMeant'
    BY <1>1, <1>2, <1>6, EndsKept
  <1>8. \A u \in tasks' : u \in tasks \/ (u.ab = TRUE /\ u.listed = FALSE /\ u.sent <= Whole)
    <2>1. ASSUME NEW t \in tasks
          PROVE  Fence(t).ab = TRUE /\ Fence(t).listed = FALSE /\ Fence(t).sent <= Whole
      <3>1. t \in TaskSet /\ t.sent <= Whole
        BY DEF TypeInv, HomeType, OneServer
      <3> QED
        BY <3>1 DEF TaskSet, Fence
    <2>2. CASE TeardownStarts
      BY <2>1, <2>2 DEF TeardownStarts
    <2>3. CASE tasks' \in {tasks, {}}
      BY <2>3
    <2> QED
      BY <2>2, <2>3 DEF HelloAcked, TeardownEnds, Restart, Dial, Cut, homeVars
  <1>9. OneServer' /\ NotYetServed' /\ OpenOnce'
    BY <1>1, <1>4, <1>8, ServersKept
  <1> QED
    BY <1>1, <1>7, <1>9

(* The REQ_OPEN that is read was the only one of its request. *)
LEMMA OpenTaken ==
  ASSUME TypeInv, OpenOnce, NEW c \in Conns, down[c] # <<>>,
         down' = [down EXCEPT ![c] = Tail(@)], Head(down[c]).type = "REQ_OPEN"
  PROVE  \A d \in Conns : \A g \in Items(down'[d]) :
           g.type = "REQ_OPEN" => g \in Items(down[d]) /\ g.of # Head(down[c]).of
  <1>1. down \in [Conns -> Seq(DownFrames)] /\ down[c] \in Seq(DownFrames)
    BY DEF TypeInv, MuxType
  <1>2. 1 \in DOMAIN down[c] /\ Head(down[c]) = down[c][1]
    BY <1>1
  <1> SUFFICES ASSUME NEW d \in Conns, NEW g \in Items(down'[d]), g.type = "REQ_OPEN"
               PROVE  g \in Items(down[d]) /\ g.of # Head(down[c]).of
    OBVIOUS
  <1>3. CASE d # c
    <2>1. down'[d] = down[d]
      BY <1>1, <1>3
    <2>2. PICK i \in DOMAIN down[d] : g = down[d][i]
      BY <2>1 DEF Items
    <2>3. g \in Items(down[d])
      BY <2>2 DEF Items
    <2> QED
      BY <1>2, <1>3, <2>2, <2>3 DEF OpenOnce
  <1>4. CASE d = c
    <2>1. down'[d] = Tail(down[c])
      BY <1>1, <1>4
    <2>2. PICK i \in DOMAIN Tail(down[c]) : g = Tail(down[c])[i]
      BY <2>1 DEF Items
    <2>3. i \in Nat /\ i >= 1 /\ i + 1 \in DOMAIN down[c] /\ Tail(down[c])[i] = down[c][i + 1]
      BY <1>1
    <2>4. g \in Items(down[c]) /\ g = down[c][i + 1]
      BY <2>2, <2>3 DEF Items
    <2>5. g.of # down[c][1].of
      <3>1. i + 1 # 1
        BY <2>3
      <3> SUFFICES ASSUME g.of = down[c][1].of
                   PROVE  FALSE
        OBVIOUS
      <3>2. i + 1 = 1
        BY <1>2, <2>3, <2>4 DEF OpenOnce
      <3> QED
        BY <3>1, <3>2
    <2> QED
      BY <1>2, <1>4, <2>4, <2>5
  <1> QED
    BY <1>3, <1>4

LEMMA ServiceOpen ==
  ASSUME TypeInv, Service, Dispatch, DispatchOpen(Head(down[ws]))
  PROVE  Service' /\ Serves
  <1> USE DEF Service
  <1> DEFINE f == Head(down[ws])
  <1>1. /\ ws \in Conns /\ down[ws] # <<>> /\ down[ws] \in Seq(DownFrames)
        /\ down \in [Conns -> Seq(DownFrames)] /\ served \in [Reqs -> {"none", "running"} \union Endings]
    BY DEF Dispatch, TypeInv, HomeType, MuxType, Endings
  <1>2. f \in Items(down[ws]) /\ f \in DownFrames
    BY <1>1, ItemsTail
  <1>3. f.type = "REQ_OPEN"
    BY DEF DispatchOpen
  <1>4. f.n \in Nat /\ f.of \in Reqs
    BY <1>2, <1>3 DEF DownFrames
  <1>5. http' = http /\ down' = [down EXCEPT ![ws] = Tail(@)]
    BY DEF Dispatch
  <1>6. \A d \in Conns : \A g \in Items(down'[d]) :
          g.type = "REQ_OPEN" => g \in Items(down[d]) /\ g.of # f.of
    BY <1>1, <1>3, <1>5, OpenTaken
  <1>7. /\ Cardinality(Listed(ws)) >= OpenRequestsMax =>
             /\ SendAll(ws, <<Frame("RESP_HEAD", f.n, f.of), Frame("RESP_EOF", f.n, f.of)>>)
             /\ served' = [served EXCEPT ![f.of] = "refused"]
             /\ tasks' = tasks
        /\ ~(Cardinality(Listed(ws)) >= OpenRequestsMax) =>
             /\ tasks' = tasks \union {Task(ws, f.n, f.of)}
             /\ served' = [served EXCEPT ![f.of] = "running"]
             /\ up' = up
    BY DEF DispatchOpen
  <1> HIDE DEF f
  <1>8. served[f.of] = "none" /\ http[f.of].st # "idle"
    BY <1>1, <1>2, <1>3 DEF NotYetServed
  <1>9. \A t \in tasks : t.of \in Reqs /\ (t.listed => t.of # f.of)
    BY <1>8 DEF OneServer, TypeInv, HomeType, TaskSet
  <1>10. PICK s \in {"running", "refused"} : served' = [served EXCEPT ![f.of] = s]
    BY <1>7
  <1>11. Serves
    BY <1>4, <1>8, <1>10 DEF Serves
  <1>12. /\ \A r \in Reqs : r # f.of => served'[r] = served[r]
         /\ served'[f.of] = s
    BY <1>1, <1>4, <1>10
  <1>13. OpenOnce'
    <2>1. \A c \in Conns : down'[c] = down[c] \/ (down[c] # <<>> /\ down'[c] = Tail(down[c]))
      BY <1>1, <1>5
    <2> QED
      BY <2>1, OpenKept
  <1>14. NotYetServed'
    <2>1. ASSUME NEW c \in Conns, NEW g \in Items(down'[c]), g.type = "REQ_OPEN"
          PROVE  served'[g.of] = "none" /\ http'[g.of].st # "idle"
      <3>1. g \in Items(down[c]) /\ g \in DownFrames /\ g.of # f.of
        BY <1>1, <1>6, <2>1, ItemsType
      <3>2. g.of \in Reqs
        BY <2>1, <3>1 DEF DownFrames
      <3> QED
        BY <1>5, <1>12, <2>1, <3>1, <3>2 DEF NotYetServed
    <2>2. \A r \in Reqs : http'[r].st = "idle" => served'[r] = "none"
      BY <1>5, <1>8, <1>12 DEF NotYetServed
    <2> QED
      BY <2>1, <2>2 DEF NotYetServed
  <1>15. OneServer' /\ EndsMeant'
    <2>1. CASE Cardinality(Listed(ws)) >= OpenRequestsMax
      <3> DEFINE h == Frame("RESP_HEAD", f.n, f.of)  e == Frame("RESP_EOF", f.n, f.of)
      <3>1. SendAll(ws, <<h, e>>) /\ tasks' = tasks /\ served'[f.of] = "refused"
        BY <1>1, <1>4, <1>7, <2>1
      <3>2. h \in UpFrames /\ e \in UpFrames /\ h.type # "RESP_EOF" /\ e.of = f.of
        BY <1>4 DEF Frame, UpFrames
      <3> HIDE DEF h, e
      <3>3. Items(<<h, e>>) = {h, e}
        BY ItemsOneTwo
      <3>4. <<h, e>> \in Seq(UpFrames)
        BY <3>2
      <3>5. \A c \in Conns : \A g \in Items(up'[c]) :
              g.type = "RESP_EOF" => g \in Items(up[c]) \/ (g.of \in Reqs /\ served'[g.of] \in Endings)
        BY <1>1, <1>4, <3>1, <3>2, <3>3, <3>4, SentFrames DEF Endings
      <3>6. EndsMeant'
        BY <1>5, <1>11, <3>5, EndsKept
      <3>7. OneServer'
        BY <1>9, <1>12, <3>1 DEF OneServer
      <3> QED
        BY <3>6, <3>7
    <2>2. CASE ~(Cardinality(Listed(ws)) >= OpenRequestsMax)
      <3> DEFINE k == Task(ws, f.n, f.of)
      <3>1. tasks' = tasks \union {k} /\ served'[f.of] = "running" /\ up' = up
        BY <1>1, <1>4, <1>7, <2>2
      <3>2. k.of = f.of /\ ~k.ab /\ k.listed /\ k.sent = 0 /\ 0 <= Whole
        BY RelayMuxAssumption DEF Task, Whole
      <3> HIDE DEF k
      <3>3. EndsMeant'
        BY <1>5, <1>11, <3>1, EndsKept
      <3>4. \A t \in tasks' : (~t.ab <=> t.listed) /\ t.sent <= Whole
        BY <3>1, <3>2 DEF OneServer
      <3>5. \A t \in tasks' : t.listed => served'[t.of] = "running"
        BY <1>9, <1>12, <3>1, <3>2 DEF OneServer
      <3>6. \A t, u \in tasks' : t.listed /\ u.listed /\ t.of = u.of => t = u
        BY <1>9, <3>1, <3>2 DEF OneServer
      <3> QED
        BY <3>3, <3>4, <3>5, <3>6 DEF OneServer
    <2> QED
      BY <2>1, <2>2
  <1> QED
    BY <1>11, <1>13, <1>14, <1>15

LEMMA OneTwoType ==
  ASSUME NEW S, NEW a \in S, NEW b \in S
  PROVE  <<a>> \in Seq(S) /\ <<a, b>> \in Seq(S)
  OBVIOUS

LEMMA ServiceDispatch ==
  ASSUME TypeInv, StreamInv, Service, Dispatch
  PROVE  Service' /\ Serves
  <1> USE DEF Service
  <1> DEFINE f == Head(down[ws])
  <1>1. /\ ws \in Conns /\ down[ws] # <<>> /\ down[ws] \in Seq(DownFrames)
        /\ down \in [Conns -> Seq(DownFrames)]
    BY DEF Dispatch, TypeInv, HomeType, MuxType
  <1>2. f \in Items(down[ws]) /\ f \in DownFrames
    BY <1>1, ItemsTail
  <1>3. f.n \in Nat /\ (f.type \in {"REQ_OPEN", "REQ_DATA", "REQ_ABORT"} => f.of \in Reqs)
    BY <1>2 DEF DownFrames
  <1>4. http' = http /\ down' = [down EXCEPT ![ws] = Tail(@)]
    BY DEF Dispatch
  <1>5. \A c \in Conns : \/ down'[c] = down[c] \/ down'[c] = <<>>
                         \/ down[c] # <<>> /\ down'[c] = Tail(down[c])
    BY <1>1, <1>4
  <1>6. DispatchOpen(f) \/ DispatchBody(f) \/ DispatchOverflow(f) \/ DispatchAbort(f)
    BY DEF Dispatch
  <1>7. CASE DispatchOpen(f)
    BY <1>7, ServiceOpen
  <1> HIDE DEF f
  <1>8. ASSUME NEW t \in tasks
        PROVE  /\ Fence(t).ab = TRUE /\ Fence(t).listed = FALSE /\ Fence(t).sent <= Whole
               /\ t.of \in Reqs /\ t.sent \in Nat /\ t.sent <= Whole
    <2>1. t \in TaskSet /\ t.sent <= Whole
      BY DEF TypeInv, HomeType, OneServer
    <2> QED
      BY <2>1 DEF TaskSet, Fence
  <1>9. CASE DispatchBody(f) \/ DispatchAbort(f)
    <2>1. served' = served /\ up' = up
      BY <1>9 DEF DispatchBody, DispatchAbort
    <2>2. \A u \in tasks' : u \in tasks \/ (u.ab = TRUE /\ u.listed = FALSE /\ u.sent <= Whole)
      BY <1>8, <1>9 DEF DispatchBody, DispatchAbort
    <2>3. Serves
      BY <2>1 DEF Serves
    <2>4. EndsMeant'
      BY <1>4, <2>1, <2>3, EndsKept
    <2>5. OneServer' /\ NotYetServed' /\ OpenOnce'
      BY <1>4, <1>5, <2>1, <2>2, ServersKept
    <2> QED
      BY <2>3, <2>4, <2>5
  <1>10. CASE DispatchOverflow(f)
    <2> DEFINE h == Frame("RESP_HEAD", f.n, f.of)  e == Frame("RESP_EOF", f.n, f.of)
    <2>1. PICK t \in Addressed(f) :
            /\ tasks' = Replace(t, Fence(t))
            /\ \/ /\ SendAll(ws, <<h, e>>)
                  /\ served' = [served EXCEPT ![f.of] = "refused"]
               \/ /\ SendAll(ws, <<e>>)
                  /\ served' = [served EXCEPT ![f.of] = "cut short"]
               \/ t.sent > Whole
      BY <1>10 DEF DispatchOverflow
    <2>2. t \in tasks /\ t.listed /\ t.conn = ws /\ t.sid = f.n
      BY <2>1 DEF Addressed, Listed
    <2>3. f.type = "REQ_DATA" /\ f.of \in Reqs
      BY <1>3, <1>10 DEF DispatchOverflow
    <2>4. DownTag(ws, f.n, f.of)
      BY <1>2, <2>3 DEF DownTag
    <2>5. TaskTag(ws, f.n, t.of)
      BY <2>2 DEF TaskTag
    <2>6. t.of = f.of
      BY <1>1, <1>3, <1>8, <2>2, <2>3, <2>4, <2>5 DEF StreamInv, Streams, Tag
    <2>7. ~(t.sent > Whole)
      <3>1. Whole \in Nat
        BY RelayMuxAssumption DEF Whole
      <3>2. t.sent \in Nat /\ t.sent <= Whole
        BY <1>8, <2>2
      <3> QED
        BY <3>1, <3>2
    <2>8. PICK s \in {"refused", "cut short"} : served' = [served EXCEPT ![f.of] = s]
      BY <2>1, <2>7
    <2>9. s \in Endings /\ served'[f.of] = s /\ served[f.of] = "running"
      BY <2>2, <2>3, <2>6, <2>8 DEF Endings, OneServer, TypeInv, HomeType
    <2>10. Serves
      BY <2>3, <2>8, <2>9 DEF Serves
    <2>11. h \in UpFrames /\ e \in UpFrames /\ h.type # "RESP_EOF" /\ e.of = f.of
      BY <1>3, <2>3 DEF Frame, UpFrames
    <2> HIDE DEF h, e
    <2>12. \A c \in Conns : \A g \in Items(up'[c]) :
             g.type = "RESP_EOF" => g \in Items(up[c]) \/ (g.of \in Reqs /\ served'[g.of] \in Endings)
      <3>0. h \in UpFrames /\ e \in UpFrames
        BY <2>11
      <3>1. <<e>> \in Seq(UpFrames) /\ <<h, e>> \in Seq(UpFrames)
        BY <3>0, OneTwoType
      <3>2. Items(<<e>>) = {e} /\ Items(<<h, e>>) = {h, e}
        BY ItemsOneTwo
      <3>3. CASE SendAll(ws, <<e>>)
        BY <1>1, <2>3, <2>9, <2>11, <3>1, <3>2, <3>3, SentFrames
      <3>4. CASE SendAll(ws, <<h, e>>)
        BY <1>1, <2>3, <2>9, <2>11, <3>1, <3>2, <3>4, SentFrames
      <3> QED
        BY <2>1, <2>7, <3>3, <3>4
    <2>13. EndsMeant'
      BY <1>4, <2>10, <2>12, EndsKept
    <2>14. \A u \in tasks' : \/ u \in tasks /\ u # t
                             \/ u.ab = TRUE /\ u.listed = FALSE /\ u.sent <= Whole
      BY <1>8, <2>1, <2>2 DEF Replace
    <2>15. OneServer' /\ NotYetServed' /\ OpenOnce'
      BY <1>4, <1>5, <2>2, <2>6, <2>8, <2>9, <2>14, ServersKept
    <2> QED
      BY <2>10, <2>13, <2>15
  <1> QED
    BY <1>6, <1>7, <1>9, <1>10

LEMMA ServiceHome ==
  ASSUME TypeInv, StreamInv, Service, ~LateRaise,
         HomeStep \/ (\E c \in Conns : Cut(c)) \/ Restart
  PROVE  Service' /\ Serves /\ http' = http
  <1>1. http' = http
    BY DEF HomeStep, HelloAcked, TeardownStarts, TeardownEnds, Restart, Dial, Cut, Dispatch, Respond,
           HandlerRaises, TaskEnds, muxVars
  <1>2. CASE Dispatch
    BY <1>1, <1>2, ServiceDispatch
  <1>3. CASE \E t \in tasks : Respond(t) \/ HandlerRaises(t) \/ TaskEnds(t)
    BY <1>1, <1>3, ServiceTask
  <1>4. CASE \/ HelloAcked \/ TeardownStarts \/ TeardownEnds \/ Restart
             \/ (\E c \in Conns : Dial(c) \/ Cut(c))
    <2>1. Service' /\ served' = served
      BY <1>4, ServiceLink
    <2> QED
      BY <1>1, <2>1 DEF Serves
  <1> QED
    BY <1>2, <1>3, <1>4 DEF HomeStep

LEMMA ServiceStep ==
  ASSUME TypeInv, StreamInv, Service, ~LateRaise, [Next]_vars
  PROVE  Service'
  <1>1. CASE BrowserStep /\ UNCHANGED <<regVars, homeVars>>
    BY <1>1, ServiceBrowser
  <1>2. CASE RelayStep
    BY <1>2, ServiceRelay
  <1>3. CASE HomeStep \/ (\E c \in Conns : Cut(c)) \/ Restart
    BY <1>3, ServiceHome
  <1>4. CASE UNCHANGED vars
    BY <1>4 DEF vars, muxVars, homeVars, Service, OpenOnce, NotYetServed, OneServer, EndsMeant
  <1> QED
    BY <1>1, <1>2, <1>3, <1>4 DEF Next

-------------------------------------------------------------------------------
(* The steps of RemoteRequest *)

(* The browser's view of a request, as Relay substitutes it for "answer". *)
Answers == [r \in Reqs |-> IF http[r].st \in {"upload", "wait", "body"} THEN "open"
                                                                      ELSE http[r].st]

LEMMA PromiseBrowser ==
  ASSUME TypeInv, StreamInv, Service, BrowserStep, UNCHANGED <<regVars, homeVars>>
  PROVE  Promise!Next \/ UNCHANGED <<Answers, served>>
  <1>1. PICK r \in Reqs : UNCHANGED <<sock, up, connections>> /\ (Opens(r) \/ GoesOn(r))
    BY BrowserEffect DEF BrowserStep
  <1>2. served' = served /\ http \in [Reqs -> Exchanges] /\ http[r] \in Exchanges
    BY DEF homeVars, TypeInv, MuxType
  <1>3. \A s \in Reqs : s # r => http'[s] = http[s]
    BY <1>1, <1>2 DEF Opens, GoesOn
  <1> DEFINE a == Answers'[r]
  <1>4. Answers' = [Answers EXCEPT ![r] = a]
    BY <1>3 DEF Answers
  <1>5. /\ http[r].st = "idle" => Answers[r] = "idle"
        /\ http[r].st \in {"upload", "wait", "body"} => Answers[r] = "open"
        /\ http'[r].st \in {"upload", "wait", "body"} => a = "open"
        /\ http'[r].st = "failed" => a = "failed"
        /\ http'[r].st = "ok" => a = "ok"
        /\ http'[r].st = http[r].st => a = Answers[r]
    BY DEF Answers
  <1>6. CASE Opens(r)
    <2>1. http'[r].st = "upload" /\ http[r].st = "idle"
      BY <1>2, <1>6 DEF Opens, Exchanges
    <2>2. Answers[r] = "idle" /\ Answers' = [Answers EXCEPT ![r] = "open"] /\ served' = served
      BY <1>2, <1>4, <1>5, <2>1
    <2>3. Promise!Issue(r)
      BY <2>2 DEF Promise!Issue, Answers
    <2> QED
      BY <2>3 DEF Promise!Next
  <1>7. CASE GoesOn(r)
    <2>1. CASE http'[r].st = "failed" /\ http[r].st \in {"idle", "upload", "wait", "body"}
      <3>1. Answers' = [Answers EXCEPT ![r] = "failed"] /\ Answers[r] \in {"idle", "open"}
        BY <1>4, <1>5, <2>1
      <3>2. Promise!Issue(r) \/ Promise!Answer(r)
        BY <1>2, <3>1 DEF Promise!Issue, Promise!Answer, Answers
      <3> QED
        BY <3>2 DEF Promise!Next
    <2>2. CASE /\ http'[r].st = "ok" /\ http[r].st = "body" /\ http[r].failed = FALSE
               /\ \E f \in Items(http[r].q) : f.type = "RESP_EOF"
      <3>1. served[r] \in Endings
        BY <2>2 DEF Service, EndsMeant
      <3>2. Answers' = [Answers EXCEPT ![r] = "ok"] /\ Answers[r] = "open"
        BY <1>4, <1>5, <2>2
      <3>3. Promise!Answer(r)
        BY <1>2, <3>1, <3>2 DEF Promise!Answer, Promise!Endings, Endings, Answers
      <3> QED
        BY <3>3 DEF Promise!Next
    <2>3. CASE \/ http'[r].st = http[r].st
               \/ http[r].st = "upload" /\ http'[r].st \in {"wait", "body"}
      <3>1. a = Answers[r]
        BY <1>5, <2>3
      <3>2. Answers' = Answers
        BY <1>4, <3>1 DEF Answers
      <3> QED
        BY <1>2, <3>2
    <2> QED
      BY <1>7, <2>1, <2>2, <2>3 DEF GoesOn
  <1> QED
    BY <1>1, <1>6, <1>7

LEMMA PromiseRelay ==
  ASSUME TypeInv, StreamInv, RelayStep
  PROVE  UNCHANGED <<Answers, served>>
  <1>1. served' = served
    BY DEF RelayStep, homeVars
  <1>2. \A r \in Reqs : http'[r].st = http[r].st \/ (http[r].st = "wait" /\ http'[r].st = "body")
    BY RelayOwn
  <1> QED
    BY <1>1, <1>2 DEF Answers

LEMMA PromiseHome ==
  ASSUME TypeInv, http' = http, Serves
  PROVE  Promise!Next \/ UNCHANGED <<Answers, served>>
  <1>1. Answers' = Answers
    BY DEF Answers
  <1>2. CASE served' = served
    BY <1>1, <1>2
  <1>3. ASSUME NEW r \in Reqs, served[r] = "none", http[r].st # "idle",
               NEW s \in {"running", "refused"}, served' = [served EXCEPT ![r] = s]
        PROVE  Promise!Next
    <2>1. Answers[r] # "idle"
      BY <1>3 DEF Answers
    <2>2. Promise!Serve(r)
      BY <1>1, <1>3, <2>1 DEF Promise!Serve, Answers
    <2> QED
      BY <2>2 DEF Promise!Next
  <1>4. ASSUME NEW r \in Reqs, served[r] = "running",
               NEW s \in Endings, served' = [served EXCEPT ![r] = s]
        PROVE  Promise!Next
    <2>1. Promise!Finish(r)
      BY <1>1, <1>4 DEF Promise!Finish, Promise!Endings, Endings, Answers
    <2> QED
      BY <2>1 DEF Promise!Next
  <1> QED
    BY <1>2, <1>3, <1>4 DEF Serves

LEMMA PromiseStep ==
  ASSUME TypeInv, StreamInv, Service, ~LateRaise, [Next]_vars
  PROVE  [Promise!Next]_<<Answers, served>>
  <1>1. CASE BrowserStep /\ UNCHANGED <<regVars, homeVars>>
    BY <1>1, PromiseBrowser
  <1>2. CASE RelayStep
    BY <1>2, PromiseRelay
  <1>3. CASE HomeStep \/ (\E c \in Conns : Cut(c)) \/ Restart
    BY <1>3, ServiceHome, PromiseHome
  <1>4. CASE UNCHANGED vars
    BY <1>4 DEF vars, muxVars, homeVars, Answers
  <1> QED
    BY <1>1, <1>2, <1>3, <1>4 DEF Next

(* Remote access implements RemoteRequest (KeepsPromise), for every number of  *)
(* sockets, requests, pieces of a response, faults and generations: a request  *)
(* is run at most once (_open_request), and the browser's response ends        *)
(* cleanly only after the home ended it.  The assumption is a contract with    *)
(* the handlers that run: one that raises after its response began gets a      *)
(* second head and an end from _run_request, with the response unfinished.     *)
THEOREM PromiseKept ==
  ASSUME ~LateRaise
  PROVE  Spec => KeepsPromise
  <1>1. Init => Service /\ Promise!Init
    <2> HAVE Init
    <2>1. Service
      BY ServiceInit
    <2>2. Promise!Init
      BY DEF Init, MuxInit, HomeInit, InitHttp, Promise!Init
    <2> QED
      BY <2>1, <2>2
  <1>2. TypeInv /\ StreamInv /\ Service /\ [Next]_vars => Service'
    BY ServiceStep
  <1>3. TypeInv /\ StreamInv /\ Service /\ [Next]_vars => [Promise!Next]_<<Answers, served>>
    BY PromiseStep
  <1> QED
    BY <1>1, <1>2, <1>3, StreamCorrect, PTL DEF Spec, KeepsPromise, Promise!Spec, Answers

-------------------------------------------------------------------------------
(* The replies of one stream come in order *)

Owner(r, c, n) == http[r].reg /\ http[r].conn = c /\ http[r].sid = n

(* A reply on stream n of socket c is routed to an exchange, or known late. *)
Awaits(c, n) == n \in aborted[c] \/ \E r \in Reqs : Owner(r, c, n)
Heard(c, n) == \A r \in Reqs : Owner(r, c, n) => http[r].head
Unheard(c, n) == \A r \in Reqs : Owner(r, c, n) => ~http[r].head

(* What is on its way up on the stream. *)
Out(c, n, type) == \E f \in Items(up[c]) : f.n = n /\ f.type = type
Silent(c, n) == \A f \in Items(up[c]) : f.n # n

(* Nothing follows the end of a response, and nothing precedes its head. *)
InOrder(s) ==
  \A i, j \in DOMAIN s : i < j /\ s[i].n = s[j].n =>
    s[i].type # "RESP_EOF" /\ s[j].type # "RESP_HEAD"

(* The wires and the tasks of a socket agree with the exchanges routed to it. *)
Neat(c) ==
  /\ InOrder(up[c])
  /\ \A f \in Items(up[c]) :
       /\ Awaits(c, f.n)
       /\ f.type = "RESP_HEAD" => Unheard(c, f.n)
       /\ f.type # "RESP_HEAD" => Heard(c, f.n) \/ Out(c, f.n, "RESP_HEAD")
  /\ \A t \in tasks : ~t.ab /\ t.conn = c =>
       /\ Awaits(c, t.sid) /\ ~Out(c, t.sid, "RESP_EOF")
       /\ t.sent = 0 => Unheard(c, t.sid) /\ Silent(c, t.sid)
       /\ t.sent # 0 => Heard(c, t.sid) \/ Out(c, t.sid, "RESP_HEAD")
  /\ \A f \in Items(down[c]) : f.type = "REQ_OPEN" =>
       Awaits(c, f.n) /\ Unheard(c, f.n) /\ Silent(c, f.n)

Orderly == \A c \in Conns : sock[c] = "open" /\ phase[c] # "hello" => Neat(c)

(* An exchange that is aborted, or that has its end, is routed to no more. *)
Left ==
  \A r \in Reqs :
    /\ http[r].st = "idle" => http[r] = InitHttp
    /\ http[r].ab => ~http[r].reg
    /\ ~http[r].failed /\ (\E f \in Items(http[r].q) : f.type = "RESP_EOF") => ~http[r].reg

Shut == \A c \in Conns : phase[c] = "closing" => sock[c] # "open"

AbortedType == aborted \in [Conns -> SUBSET Nat]

Tidy == AbortedType /\ Left /\ Shut /\ Orderly

LEMMA TidyInit == Init => Tidy
  <1> HAVE Init
  <1>1. /\ \A c \in Conns : up[c] = <<>> /\ down[c] = <<>> /\ phase[c] = "none" /\ sock[c] = "idle"
        /\ aborted = [c \in Conns |-> {}]
        /\ \A r \in Reqs : http[r] = InitHttp /\ http[r].reg = FALSE
    BY DEF Init, MuxInit, RegInit, HomeInit, InitHttp
  <1> QED
    BY <1>1 DEF Tidy, AbortedType, Left, Shut, Orderly

LEMMA ItemsHead ==
  ASSUME NEW S, NEW s \in Seq(S), s # <<>>
  PROVE  Items(s) = {Head(s)} \union Items(Tail(s))
  <1>1. DOMAIN s = 1 .. Len(s) /\ Len(s) \in Nat \ {0} /\ DOMAIN Tail(s) = 1 .. Len(s) - 1
    OBVIOUS
  <1>2. \A i \in 1 .. Len(s) - 1 : Tail(s)[i] = s[i + 1]
    OBVIOUS
  <1>3. Head(s) = s[1]
    OBVIOUS
  <1>4. \A i \in 1 .. Len(s) : i = 1 \/ (i - 1 \in 1 .. Len(s) - 1 /\ Tail(s)[i - 1] = s[i])
    BY <1>1, <1>2
  <1>5. ASSUME NEW x \in Items(s) PROVE x \in {Head(s)} \union Items(Tail(s))
    <2>1. PICK i \in 1 .. Len(s) : x = s[i]
      BY <1>1, <1>5 DEF Items
    <2>2. CASE i = 1
      BY <1>3, <2>1, <2>2
    <2>3. CASE i - 1 \in 1 .. Len(s) - 1 /\ Tail(s)[i - 1] = s[i]
      BY <1>1, <2>1, <2>3 DEF Items
    <2> QED
      BY <1>4, <2>2, <2>3
  <1> QED
    BY <1>5, ItemsTail

(* The rest of what was in order is, and agrees with the frame taken off it. *)
LEMMA OrderTail ==
  ASSUME NEW s \in Seq(UpFrames), s # <<>>, InOrder(s)
  PROVE  /\ InOrder(Tail(s))
         /\ \A g \in Items(Tail(s)) : g.n = Head(s).n =>
              Head(s).type # "RESP_EOF" /\ g.type # "RESP_HEAD"
  <1>1. DOMAIN s = 1 .. Len(s) /\ Len(s) \in Nat \ {0} /\ DOMAIN Tail(s) = 1 .. Len(s) - 1
    OBVIOUS
  <1>2. \A i \in 1 .. Len(s) - 1 : Tail(s)[i] = s[i + 1] /\ i + 1 \in DOMAIN s /\ 1 < i + 1
    OBVIOUS
  <1>3. Head(s) = s[1] /\ 1 \in DOMAIN s
    OBVIOUS
  <1>4. InOrder(Tail(s))
    <2> SUFFICES ASSUME NEW i \in 1 .. Len(s) - 1, NEW j \in 1 .. Len(s) - 1,
                        i < j, Tail(s)[i].n = Tail(s)[j].n
                 PROVE  Tail(s)[i].type # "RESP_EOF" /\ Tail(s)[j].type # "RESP_HEAD"
      BY <1>1 DEF InOrder
    <2>1. i + 1 < j + 1 /\ i + 1 \in DOMAIN s /\ j + 1 \in DOMAIN s
      BY <1>2
    <2> QED
      BY <1>2, <2>1 DEF InOrder
  <1>5. ASSUME NEW g \in Items(Tail(s)), g.n = Head(s).n
        PROVE  Head(s).type # "RESP_EOF" /\ g.type # "RESP_HEAD"
    <2>1. PICK i \in 1 .. Len(s) - 1 : g = Tail(s)[i]
      BY <1>1, <1>5 DEF Items
    <2>2. g = s[i + 1] /\ i + 1 \in DOMAIN s /\ 1 < i + 1
      BY <1>2, <2>1
    <2> QED
      BY <1>3, <1>5, <2>2 DEF InOrder
  <1> QED
    BY <1>4, <1>5

(* Frames written behind others, when neither breaks the other's order. *)
LEMMA OrderConcat ==
  ASSUME NEW s \in Seq(UpFrames), NEW u \in Seq(UpFrames), InOrder(s), InOrder(u),
         \A f \in Items(s), g \in Items(u) : f.n = g.n =>
           f.type # "RESP_EOF" /\ g.type # "RESP_HEAD"
  PROVE  InOrder(s \o u)
  <1>1. /\ DOMAIN s = 1 .. Len(s) /\ DOMAIN u = 1 .. Len(u)
        /\ Len(s) \in Nat /\ Len(u) \in Nat /\ DOMAIN (s \o u) = 1 .. Len(s) + Len(u)
    OBVIOUS
  <1>2. \A i \in 1 .. Len(s) + Len(u) :
          \/ i \in 1 .. Len(s) /\ (s \o u)[i] = s[i]
          \/ i > Len(s) /\ i - Len(s) \in 1 .. Len(u) /\ (s \o u)[i] = u[i - Len(s)]
    BY <1>1
  <1> SUFFICES ASSUME NEW i \in 1 .. Len(s) + Len(u), NEW j \in 1 .. Len(s) + Len(u),
                      i < j, (s \o u)[i].n = (s \o u)[j].n
               PROVE  (s \o u)[i].type # "RESP_EOF" /\ (s \o u)[j].type # "RESP_HEAD"
    BY <1>1 DEF InOrder
  <1>3. CASE i \in 1 .. Len(s) /\ j \in 1 .. Len(s) /\ (s \o u)[i] = s[i] /\ (s \o u)[j] = s[j]
    BY <1>1, <1>3 DEF InOrder
  <1>4. CASE /\ i \in 1 .. Len(s) /\ (s \o u)[i] = s[i]
             /\ j - Len(s) \in 1 .. Len(u) /\ (s \o u)[j] = u[j - Len(s)]
    <2>1. s[i] \in Items(s) /\ u[j - Len(s)] \in Items(u)
      BY <1>1, <1>4 DEF Items
    <2> QED
      BY <1>4, <2>1
  <1>5. CASE /\ i - Len(s) \in 1 .. Len(u) /\ (s \o u)[i] = u[i - Len(s)]
             /\ j - Len(s) \in 1 .. Len(u) /\ (s \o u)[j] = u[j - Len(s)]
    <2>1. i - Len(s) < j - Len(s)
      BY <1>1
    <2> QED
      BY <1>1, <1>5, <2>1 DEF InOrder
  <1> QED
    BY <1>1, <1>2, <1>3, <1>4, <1>5

(* A step that writes nothing up the socket, and by which an exchange leaves   *)
(* its stream only when the stream is remembered as aborted.                   *)
LEMMA NeatKept ==
  ASSUME NEW c \in Conns, Neat(c), up'[c] = up[c],
         \A n \in aborted[c] : n \in aborted'[c],
         \A r \in Reqs : http'[r].reg /\ http'[r].conn = c =>
           /\ http[r].reg /\ http[r].conn = c
           /\ http'[r].sid = http[r].sid /\ http'[r].head = http[r].head,
         \A r \in Reqs : http[r].reg /\ http[r].conn = c =>
           \/ http'[r].reg /\ http'[r].conn = c /\ http'[r].sid = http[r].sid
           \/ http[r].sid \in aborted'[c],
         \A f \in Items(down'[c]) : f.type = "REQ_OPEN" => f \in Items(down[c]),
         \A t \in tasks' : ~t.ab /\ t.conn = c =>
           \/ t \in tasks
           \/ t.sent = 0 /\ \E f \in Items(down[c]) : f.type = "REQ_OPEN" /\ f.n = t.sid
  PROVE  Neat(c)'
  <1>1. \A n : /\ Awaits(c, n) => Awaits(c, n)'
               /\ Heard(c, n) => Heard(c, n)'
               /\ Unheard(c, n) => Unheard(c, n)'
    BY DEF Awaits, Heard, Unheard, Owner
  <1>2. \A n : /\ \A type : Out(c, n, type)' <=> Out(c, n, type)
               /\ Silent(c, n)' <=> Silent(c, n)
               /\ Silent(c, n) => ~Out(c, n, "RESP_EOF")
    BY DEF Out, Silent
  <1>3. ASSUME NEW t \in tasks', ~t.ab /\ t.conn = c
        PROVE  /\ Awaits(c, t.sid)' /\ ~Out(c, t.sid, "RESP_EOF")'
               /\ t.sent = 0 => Unheard(c, t.sid)' /\ Silent(c, t.sid)'
               /\ t.sent # 0 => Heard(c, t.sid)' \/ Out(c, t.sid, "RESP_HEAD")'
    BY <1>1, <1>2, <1>3 DEF Neat
  <1> QED
    BY <1>1, <1>2, <1>3 DEF Neat

(* The home writes replies of one stream: all of a response, or what follows   *)
(* its head.                                                                   *)
Says(c, n, fs) ==
  /\ SendAll(c, fs) /\ InOrder(fs) /\ \A f \in Items(fs) : f.n = n
  /\ UNCHANGED <<http, aborted, sock, phase>> /\ phase[c] # "hello"
  /\ Neat(c) =>
       /\ Awaits(c, n)
       /\ \/ /\ Silent(c, n) /\ Unheard(c, n)
             /\ \E f \in Items(fs) : f.type = "RESP_HEAD"
          \/ /\ ~Out(c, n, "RESP_EOF") /\ (Heard(c, n) \/ Out(c, n, "RESP_HEAD"))
             /\ \A f \in Items(fs) : f.type # "RESP_HEAD"
  /\ \A d \in Conns : \A f \in Items(down'[d]) : f.type = "REQ_OPEN" =>
       f \in Items(down[d]) /\ (d = c => f.n # n)
  /\ \A t \in tasks' : ~t.ab =>
       \/ t \in tasks /\ (t.conn = c => t.sid # n)
       \/ t.conn = c /\ t.sid = n /\ t.sent # 0 /\ \A f \in Items(fs) : f.type # "RESP_EOF"

LEMMA NeatSays ==
  ASSUME TypeInv, NEW c \in Conns, NEW n, NEW fs \in Seq(UpFrames), Says(c, n, fs),
         sock[c] = "open", Neat(c)
  PROVE  Neat(c)'
  <1>1. /\ up[c] \in Seq(UpFrames) /\ up'[c] = up[c] \o fs /\ http' = http /\ aborted' = aborted
        /\ InOrder(fs) /\ \A f \in Items(fs) : f.n = n
    BY DEF Says, SendAll, TypeInv, MuxType
  <1>2. /\ Awaits(c, n)
        /\ \/ /\ Silent(c, n) /\ Unheard(c, n)
              /\ \E f \in Items(fs) : f.type = "RESP_HEAD"
           \/ /\ ~Out(c, n, "RESP_EOF") /\ (Heard(c, n) \/ Out(c, n, "RESP_HEAD"))
              /\ \A f \in Items(fs) : f.type # "RESP_HEAD"
    BY DEF Says
  <1>3. \A f \in Items(down'[c]) : f.type = "REQ_OPEN" => f \in Items(down[c]) /\ f.n # n
    BY DEF Says
  <1>4. \A t \in tasks' : ~t.ab /\ t.conn = c =>
          \/ t.sid # n /\ t \in tasks
          \/ t.sid = n /\ t.sent # 0 /\ \A f \in Items(fs) : f.type # "RESP_EOF"
    BY DEF Says
  <1>5. Items(up'[c]) = Items(up[c]) \union Items(fs)
    BY <1>1, ItemsConcat
  <1>6. InOrder(up[c]) /\ \A f \in Items(up[c]), g \in Items(fs) : f.n = g.n =>
           f.type # "RESP_EOF" /\ g.type # "RESP_HEAD"
    BY <1>1, <1>2 DEF Neat, Silent, Out
  <1>7. InOrder(up'[c])
    BY <1>1, <1>6, OrderConcat
  <1>8. \A m : /\ Awaits(c, m) => Awaits(c, m)'
               /\ Heard(c, m) => Heard(c, m)'
               /\ Unheard(c, m) => Unheard(c, m)'
    BY <1>1 DEF Awaits, Heard, Unheard, Owner
  <1>9. \A m : /\ \A type : Out(c, m, type) => Out(c, m, type)'
               /\ m # n => (\A type : Out(c, m, type)' => Out(c, m, type))
               /\ m # n => (Silent(c, m) => Silent(c, m)')
    BY <1>1, <1>5 DEF Out, Silent
  <1>10. Heard(c, n)' \/ Out(c, n, "RESP_HEAD")'
    BY <1>1, <1>2, <1>5, <1>8, <1>9 DEF Out
  <1>11. (\A f \in Items(fs) : f.type # "RESP_EOF") => ~Out(c, n, "RESP_EOF")'
    BY <1>2, <1>5 DEF Out, Silent
  <1>12. ASSUME NEW f \in Items(up'[c])
        PROVE  /\ Awaits(c, f.n)'
               /\ f.type = "RESP_HEAD" => Unheard(c, f.n)'
               /\ f.type # "RESP_HEAD" => Heard(c, f.n)' \/ Out(c, f.n, "RESP_HEAD")'
    <2>1. CASE f \in Items(up[c])
      BY <1>8, <1>9, <2>1 DEF Neat
    <2>2. CASE f \in Items(fs)
      BY <1>1, <1>2, <1>8, <1>10, <2>2
    <2> QED
      BY <1>5, <1>12, <2>1, <2>2
  <1>13. ASSUME NEW t \in tasks', ~t.ab /\ t.conn = c
        PROVE  /\ Awaits(c, t.sid)' /\ ~Out(c, t.sid, "RESP_EOF")'
               /\ t.sent = 0 => Unheard(c, t.sid)' /\ Silent(c, t.sid)'
               /\ t.sent # 0 => Heard(c, t.sid)' \/ Out(c, t.sid, "RESP_HEAD")'
    <2>1. CASE t.sid # n /\ t \in tasks
      BY <1>8, <1>9, <1>13, <2>1 DEF Neat
    <2>2. CASE t.sid = n /\ t.sent # 0 /\ \A f \in Items(fs) : f.type # "RESP_EOF"
      BY <1>2, <1>8, <1>10, <1>11, <2>2
    <2> QED
      BY <1>4, <1>13, <2>1, <2>2
  <1>14. ASSUME NEW f \in Items(down'[c]), f.type = "REQ_OPEN"
         PROVE  Awaits(c, f.n)' /\ Unheard(c, f.n)' /\ Silent(c, f.n)'
    BY <1>3, <1>8, <1>9, <1>14 DEF Neat
  <1> QED
    BY <1>7, <1>12, <1>13, <1>14 DEF Neat

(* No frame of an orderly socket is a protocol error. *)
LEMMA NoRoutingError ==
  ASSUME TypeInv, NEW c \in Conns, Neat(c), up[c] # <<>>
  PROVE  ~RoutingError(c, Head(up[c]))
  <1> DEFINE f == Head(up[c])
  <1>1. up[c] \in Seq(UpFrames)
    BY DEF TypeInv, MuxType
  <1>2. /\ Items(up[c]) = {f} \union Items(Tail(up[c]))
        /\ \A g \in Items(Tail(up[c])) : g.n = f.n => g.type # "RESP_HEAD"
    BY <1>1, ItemsHead, OrderTail DEF Neat
  <1> HIDE DEF f
  <1>3. f \in Items(up[c])
    BY <1>2
  <1>4. Owners(c, f.n) = {r \in Reqs : Owner(r, c, f.n)}
    BY DEF Owners, Owner
  <1>5. Owners(c, f.n) = {} => LateReply(c, f)
    BY <1>3, <1>4 DEF Neat, Awaits, LateReply
  <1>6. f.type = "RESP_HEAD" => \A r \in Owners(c, f.n) : ~http[r].head
    BY <1>3, <1>4 DEF Neat, Unheard
  <1>7. f.type # "RESP_HEAD" => \A r \in Owners(c, f.n) : http[r].head
    <2> HAVE f.type # "RESP_HEAD"
    <2>1. ~Out(c, f.n, "RESP_HEAD")
      BY <1>2 DEF Out
    <2> QED
      BY <1>3, <1>4, <2>1 DEF Neat, Heard
  <1>8. ~RoutingError(c, f)
    BY <1>5, <1>6, <1>7 DEF RoutingError
  <1> QED
    BY <1>8 DEF f

(* A browser's step other than opening its request: the exchange goes on as it *)
(* was, or leaves its stream, which is then remembered as aborted if a reply   *)
(* may still come.                                                             *)
Leaves(r) ==
  /\ \A s \in Reqs : s # r => http'[s] = http[s]
  /\ http'[r].st # "idle"
  /\ aborted' \in [Conns -> SUBSET Nat]
  /\ \A c \in Conns : \A n \in aborted[c] : n \in aborted'[c]
  /\ \/ /\ http'[r].conn = http[r].conn /\ http'[r].sid = http[r].sid
        /\ http'[r].reg = http[r].reg /\ http'[r].head = http[r].head
        /\ http'[r].ab = http[r].ab /\ http'[r].failed = http[r].failed
        /\ Items(http'[r].q) \subseteq Items(http[r].q)
     \/ /\ http'[r].reg = FALSE
        /\ \A c \in Conns : http[r].reg /\ http[r].conn = c => http[r].sid \in aborted'[c]

LEMMA AbortLeaves ==
  ASSUME TypeInv, Tidy, NEW r \in Reqs, NEW h, AbortWith(r, h),
         \/ h = http[r] /\ http[r].st # "idle"
         \/ \E how : how # "idle" /\ h = Ended(r, how)
  PROVE  Leaves(r)
  <1>1. /\ http \in [Reqs -> Exchanges] /\ http[r] \in Exchanges /\ http[r].sid \in Nat
        /\ aborted \in [Conns -> SUBSET Nat]
    BY DEF TypeInv, MuxType, Exchanges, Tidy, AbortedType
  <1>2. http' = [http EXCEPT ![r] = [h EXCEPT !.ab = TRUE, !.reg = FALSE]]
    BY DEF AbortWith
  <1>3. http'[r].reg = FALSE /\ http'[r].st # "idle"
    <2>1. http'[r] = [h EXCEPT !.ab = TRUE, !.reg = FALSE]
      BY <1>1, <1>2
    <2>2. CASE h = http[r] /\ http[r].st # "idle"
      BY <1>1, <2>1, <2>2 DEF Exchanges
    <2>3. ASSUME NEW how, how # "idle", h = Ended(r, how)
          PROVE  http'[r].reg = FALSE /\ http'[r].st # "idle"
      BY <2>1, <2>3 DEF Ended, InitHttp
    <2> QED
      BY <2>2, <2>3
  <1>4. CASE http[r].ab
    <2>1. aborted' = aborted /\ ~http[r].reg
      BY <1>4 DEF AbortWith, Tidy, Left
    <2> QED
      BY <1>1, <1>2, <1>3, <2>1 DEF Leaves
  <1>5. CASE ~http[r].ab
    <2>1. aborted' = [aborted EXCEPT ![http[r].conn] = @ \union {http[r].sid}]
      BY <1>5 DEF AbortWith
    <2> QED
      BY <1>1, <1>2, <1>3, <2>1 DEF Leaves
  <1> QED
    BY <1>4, <1>5

LEMMA BrowserLeaves ==
  ASSUME TypeInv, Conned, Tidy, NEW r \in Reqs,
         \/ RefuseRequest(r) \/ OpenRequest(r) \/ SendBody(r) \/ UploadFails(r)
         \/ HeadTimeout(r) \/ TakeChunk(r) \/ BodyBroken(r) \/ AbortOverflow(r)
  PROVE  (Opens(r) /\ aborted' = aborted) \/ Leaves(r)
  <1> USE RelayMuxAssumption
  <1>1. /\ http \in [Reqs -> Exchanges] /\ http[r] \in Exchanges /\ http[r].q \in Seq(UpFrames)
        /\ aborted \in [Conns -> SUBSET Nat]
    BY DEF TypeInv, MuxType, Exchanges, Tidy, AbortedType
  <1>2. ASSUME NEW how, how # "idle", http' = [http EXCEPT ![r] = Ended(r, how)],
               aborted' = aborted,
               ~http[r].reg \/ http[r].conn = NoConn
        PROVE  Leaves(r)
    <2>1. http'[r].reg = FALSE /\ http'[r].st # "idle"
      BY <1>1, <1>2 DEF Ended, InitHttp
    <2> QED
      BY <1>1, <1>2, <2>1 DEF Leaves
  <1>3. CASE RefuseRequest(r) \/ (OpenRequest(r) /\ http' = [http EXCEPT ![r] = Ended(r, "failed")])
    <2>1. /\ http' = [http EXCEPT ![r] = Ended(r, "failed")] /\ aborted' = aborted
          /\ http[r].st = "idle"
      BY <1>3 DEF RefuseRequest, OpenRequest
    <2>2. http[r].conn = NoConn
      BY <2>1 DEF Conned
    <2> QED
      BY <1>2, <2>1, <2>2
  <1>4. CASE OpenRequest(r) /\ http' # [http EXCEPT ![r] = Ended(r, "failed")]
    <2>1. Opens(r) /\ aborted' = aborted
      BY <1>4 DEF OpenRequest, Opens, TypeInv, MuxType
    <2> QED
      BY <2>1
  <1>5. CASE SendBody(r)
    <2>1. /\ http' = [http EXCEPT ![r].st = IF http[r].head THEN "body" ELSE "wait"]
          /\ aborted' = aborted
      BY <1>5 DEF SendBody
    <2>2. /\ http'[r].conn = http[r].conn /\ http'[r].sid = http[r].sid
          /\ http'[r].reg = http[r].reg /\ http'[r].head = http[r].head
          /\ http'[r].ab = http[r].ab /\ http'[r].failed = http[r].failed
          /\ http'[r].q = http[r].q /\ http'[r].st # "idle"
          /\ \A s \in Reqs : s # r => http'[s] = http[s]
      BY <1>1, <2>1 DEF Exchanges
    <2> QED
      BY <1>1, <2>1, <2>2 DEF Leaves
  <1>6. CASE UploadFails(r) \/ HeadTimeout(r) \/ BodyBroken(r)
    BY <1>6, AbortLeaves DEF UploadFails, HeadTimeout, BodyBroken
  <1>7. CASE AbortOverflow(r)
    <2>1. http[r].st # "idle"
      BY <1>7 DEF AbortOverflow, Tidy, Left, InitHttp
    <2> QED
      BY <1>7, <2>1, AbortLeaves DEF AbortOverflow
  <1>8. CASE TakeChunk(r) /\ http[r].failed
    BY <1>8, AbortLeaves DEF TakeChunk
  <1>9. CASE TakeChunk(r) /\ ~http[r].failed
    <2> DEFINE f == Head(http[r].q)
    <2>1. /\ http' = [http EXCEPT ![r] =
                        IF f.type = "RESP_EOF" THEN Ended(r, "ok")
                        ELSE [http[r] EXCEPT !.q = Tail(@), !.got = Append(@, f)]]
          /\ aborted' = aborted /\ http[r].q # <<>>
      BY <1>9 DEF TakeChunk
    <2>2. f \in Items(http[r].q) /\ Items(Tail(http[r].q)) \subseteq Items(http[r].q)
      BY <1>1, <2>1, ItemsTail
    <2> HIDE DEF f
    <2>3. CASE f.type = "RESP_EOF"
      <3>1. ~http[r].reg
        BY <1>9, <2>2, <2>3 DEF Tidy, Left
      <3>2. http' = [http EXCEPT ![r] = Ended(r, "ok")]
        BY <2>1, <2>3
      <3> QED
        BY <1>2, <2>1, <3>1, <3>2
    <2>4. CASE f.type # "RESP_EOF"
      <3>1. /\ http'[r] = [http[r] EXCEPT !.q = Tail(@), !.got = Append(@, f)]
            /\ \A s \in Reqs : s # r => http'[s] = http[s]
        BY <1>1, <2>1, <2>4
      <3>2. /\ http'[r].conn = http[r].conn /\ http'[r].sid = http[r].sid
            /\ http'[r].reg = http[r].reg /\ http'[r].head = http[r].head
            /\ http'[r].ab = http[r].ab /\ http'[r].failed = http[r].failed
            /\ http'[r].q = Tail(http[r].q) /\ http'[r].st = http[r].st
            /\ http[r].st # "idle"
        BY <1>1, <1>9, <3>1 DEF Exchanges, TakeChunk
      <3> QED
        BY <1>1, <2>1, <2>2, <3>1, <3>2 DEF Leaves
    <2> QED
      BY <2>3, <2>4
  <1> QED
    BY <1>3, <1>4, <1>5, <1>6, <1>7, <1>8, <1>9

LEMMA TidyBrowser ==
  ASSUME TypeInv, Registered, StreamInv, Tidy, BrowserStep, UNCHANGED <<regVars, homeVars>>
  PROVE  Tidy'
  <1> USE RelayMuxAssumption
  <1>1. PICK r \in Reqs : /\ UNCHANGED <<sock, up, connections>> /\ (Opens(r) \/ GoesOn(r))
                          /\ (Opens(r) /\ aborted' = aborted) \/ Leaves(r)
    BY BrowserEffect, BrowserLeaves DEF BrowserStep, StreamInv
  <1>2. UNCHANGED <<sock, phase, tasks, up>>
    BY <1>1 DEF regVars, homeVars
  <1>3. /\ http \in [Reqs -> Exchanges] /\ http[r] \in Exchanges /\ http[r].sid \in Nat
        /\ aborted \in [Conns -> SUBSET Nat]
        /\ down \in [Conns -> Seq(DownFrames)] /\ nextSid \in [Conns -> Nat]
        /\ up \in [Conns -> Seq(UpFrames)]
    BY DEF TypeInv, MuxType, Exchanges, Tidy, AbortedType
  <1>4. Shut'
    BY <1>2 DEF Tidy, Shut
  <1>5. CASE Opens(r) /\ aborted' = aborted
    <2>1. PICK c \in Conns : c = connections /\ http[r] = InitHttp
      BY <1>5 DEF Opens, Tidy, Left
    <2>2. PICK sid \in Nat : sid = nextSid[c] + 1
      BY <1>3
    <2>a. nextSid[c] \in Nat /\ sid > nextSid[c] /\ phase[c] # "hello"
      BY <1>3, <2>1, <2>2 DEF Registered
    <2> DEFINE f == Frame("REQ_OPEN", sid, r)
    <2>3. /\ http'[r].conn = c /\ http'[r].sid = sid /\ http'[r].reg = TRUE
          /\ http'[r].head = FALSE /\ http'[r].ab = FALSE /\ http'[r].st = "upload"
          /\ http'[r].q = <<>> /\ ~http[r].reg
          /\ \A s \in Reqs : s # r => http'[s] = http[s]
      BY <1>3, <1>5, <2>1, <2>2 DEF Opens, InitHttp
    <2>4. \A d \in Conns : down'[d] = down[d] \/ (d = c /\ down'[d] = Append(down[d], f))
      BY <1>3, <1>5, <2>1, <2>2 DEF Opens, OnWire
    <2>5. f \in DownFrames /\ f.n = sid
      BY <2>2 DEF Frame, DownFrames
    <2>6. /\ aborted' = aborted
          /\ \A n \in Nat, s \in Reqs : Tag(c, n, s) => n # sid
      BY <1>5, <2>2, <2>a DEF StreamInv, Streams
    <2> HIDE DEF f
    <2>7. \A d \in Conns : Items(Append(down[d], f)) = Items(down[d]) \union {f}
      BY <1>3, <2>5, ItemsAppend
    <2>8. ASSUME NEW d \in Conns, d # c, Neat(d) PROVE Neat(d)'
      <3>1. down'[d] = down[d]
        BY <2>4, <2>8
      <3>2. \A s \in Reqs : http'[s].conn = d \/ (http[s].reg /\ http[s].conn = d) => http'[s] = http[s]
        BY <2>3, <2>8
      <3> QED
        BY <1>2, <2>6, <2>8, <3>1, <3>2, NeatKept
    <2>9. ASSUME Neat(c) PROVE Neat(c)'
      <3>1. /\ \A g \in Items(up[c]) : g.n # sid
            /\ \A t \in tasks : t.conn = c => t.sid # sid
            /\ \A g \in Items(down[c]) : g.type = "REQ_OPEN" => g.n # sid
        <4>1. \A g \in Items(up[c]) : g.n \in Nat /\ g.of \in Reqs /\ g.type # "HELLO"
          <5>1. Items(up[c]) \subseteq UpFrames
            BY <1>3, <2>1, ItemsType
          <5> QED
            BY <2>a, <5>1 DEF UpFrames, StreamInv, Greeted
        <4>2. \A g \in Items(down[c]) : g.type = "REQ_OPEN" => g.n \in Nat /\ g.of \in Reqs
          <5>1. Items(down[c]) \subseteq DownFrames
            BY <1>3, <2>1, ItemsType
          <5> QED
            BY <5>1 DEF DownFrames
        <4>3. \A t \in tasks : t.sid \in Nat /\ t.of \in Reqs
          BY DEF TypeInv, HomeType, TaskSet
        <4> QED
          BY <2>6, <4>1, <4>2, <4>3 DEF Tag, UpTag, DownTag, TaskTag
      <3>2. \A n : n # sid => /\ Awaits(c, n) => Awaits(c, n)'
                              /\ Heard(c, n) => Heard(c, n)'
                              /\ Unheard(c, n) => Unheard(c, n)'
        BY <2>3, <2>6 DEF Awaits, Heard, Unheard, Owner
      <3>3. Awaits(c, sid)' /\ Unheard(c, sid)' /\ Silent(c, sid)'
        <4>1. Awaits(c, sid)'
          BY <2>3 DEF Awaits, Owner
        <4>2. Silent(c, sid)'
          BY <1>2, <3>1 DEF Silent
        <4>3. ASSUME NEW s \in Reqs, s # r, Owner(s, c, sid)' PROVE FALSE
          BY <2>2, <2>3, <2>6, <4>3 DEF Owner, Tag, HttpTag
        <4> QED
          BY <2>3, <4>1, <4>2, <4>3 DEF Unheard, Owner
      <3>4. \A n : /\ \A type : Out(c, n, type)' <=> Out(c, n, type)
                   /\ Silent(c, n)' <=> Silent(c, n)
        BY <1>2 DEF Out, Silent
      <3>5. \A g \in Items(down'[c]) : g \in Items(down[c]) \/ g = f
        BY <2>1, <2>4, <2>7
      <3>6. InOrder(up'[c])
        BY <1>2, <2>9 DEF Neat
      <3>7. \A g \in Items(up'[c]) :
              /\ Awaits(c, g.n)'
              /\ g.type = "RESP_HEAD" => Unheard(c, g.n)'
              /\ g.type # "RESP_HEAD" => Heard(c, g.n)' \/ Out(c, g.n, "RESP_HEAD")'
        BY <1>2, <2>9, <3>1, <3>2, <3>4 DEF Neat
      <3>8. \A t \in tasks' : ~t.ab /\ t.conn = c =>
              /\ Awaits(c, t.sid)' /\ ~Out(c, t.sid, "RESP_EOF")'
              /\ t.sent = 0 => Unheard(c, t.sid)' /\ Silent(c, t.sid)'
              /\ t.sent # 0 => Heard(c, t.sid)' \/ Out(c, t.sid, "RESP_HEAD")'
        BY <1>2, <2>9, <3>1, <3>2, <3>4 DEF Neat
      <3>9. \A g \in Items(down'[c]) : g.type = "REQ_OPEN" =>
              Awaits(c, g.n)' /\ Unheard(c, g.n)' /\ Silent(c, g.n)'
        BY <2>5, <2>9, <3>1, <3>2, <3>3, <3>4, <3>5 DEF Neat
      <3> QED
        BY <3>6, <3>7, <3>8, <3>9 DEF Neat
    <2>10. Orderly'
      BY <1>2, <2>8, <2>9 DEF Tidy, Orderly
    <2>11. Left'
      BY <2>3, ItemsEmpty DEF Tidy, Left
    <2>12. AbortedType'
      BY <2>6 DEF Tidy, AbortedType
    <2> QED
      BY <1>4, <2>10, <2>11, <2>12 DEF Tidy
  <1>6. CASE Leaves(r)
    <2>1. ~Opens(r)
      <3>1. ASSUME Opens(r) PROVE FALSE
        <4>1. /\ http'[r].conn = connections /\ http'[r].reg = TRUE /\ connections \in Conns
              /\ http[r].conn = NoConn
          BY <1>3, <3>1 DEF Opens, Exchanges, StreamInv, Conned
        <4> QED
          BY <1>6, <4>1 DEF Leaves
      <3> QED
        BY <3>1
    <2>2. GoesOn(r)
      BY <1>1, <2>1
    <2>3. \A c \in Conns : \A f \in Items(down'[c]) : f.type = "REQ_OPEN" => f \in Items(down[c])
      <3> TAKE c \in Conns
      <3>1. CASE down'[c] = down[c]
        BY <3>1
      <3>2. ASSUME NEW type \in {"REQ_DATA", "REQ_ABORT"},
                   down'[c] = Append(down[c], Frame(type, http[r].sid, r))
            PROVE  \A f \in Items(down'[c]) : f.type = "REQ_OPEN" => f \in Items(down[c])
        <4> DEFINE g == Frame(type, http[r].sid, r)
        <4>1. g \in DownFrames /\ g.type # "REQ_OPEN"
          BY <1>3 DEF Frame, DownFrames
        <4>2. Items(down'[c]) = Items(down[c]) \union {g}
          BY <1>3, <3>2, <4>1, ItemsAppend
        <4> QED
          BY <4>1, <4>2
      <3> QED
        BY <2>2, <3>1, <3>2 DEF GoesOn
    <2>4. ASSUME NEW c \in Conns, Neat(c) PROVE Neat(c)'
      <3>1. \A s \in Reqs : http'[s].reg /\ http'[s].conn = c =>
              /\ http[s].reg /\ http[s].conn = c
              /\ http'[s].sid = http[s].sid /\ http'[s].head = http[s].head
        BY <1>6 DEF Leaves
      <3>2. \A s \in Reqs : http[s].reg /\ http[s].conn = c =>
              \/ http'[s].reg /\ http'[s].conn = c /\ http'[s].sid = http[s].sid
              \/ http[s].sid \in aborted'[c]
        BY <1>6 DEF Leaves
      <3>3. \A n \in aborted[c] : n \in aborted'[c]
        BY <1>6 DEF Leaves
      <3> QED
        BY <1>2, <2>3, <2>4, <3>1, <3>2, <3>3, NeatKept
    <2>5. Orderly'
      BY <1>2, <2>4 DEF Tidy, Orderly
    <2>6. Left'
      BY <1>6 DEF Tidy, Left, Leaves
    <2>7. AbortedType'
      BY <1>6 DEF Leaves, AbortedType
    <2> QED
      BY <1>4, <2>5, <2>6, <2>7 DEF Tidy
  <1> QED
    BY <1>1, <1>5, <1>6

(* What a frame does to the exchange it is routed to. *)
LEMMA RouteFields ==
  ASSUME http \in [Reqs -> Exchanges], NEW c, NEW f \in UpFrames, Route(c, f),
         NEW r \in Owners(c, f.n)
  PROVE  /\ http'[r].conn = http[r].conn /\ http'[r].sid = http[r].sid
         /\ http'[r].ab = http[r].ab
         /\ f.type = "RESP_HEAD" => /\ http'[r].head = TRUE /\ http'[r].reg = http[r].reg
                                    /\ http'[r].q = http[r].q /\ http'[r].failed = http[r].failed
         /\ f.type # "RESP_HEAD" => /\ http'[r].head = http[r].head
                                    /\ http'[r].reg = (f.type # "RESP_EOF")
                                    /\ \/ http'[r].failed = TRUE
                                       \/ /\ http'[r].failed = http[r].failed
                                          /\ http'[r].q = Append(http[r].q, f)
  <1>1. r \in Reqs /\ http[r] \in Exchanges
    BY DEF Owners
  <1>2. CASE f.type = "RESP_HEAD"
    <2>1. http'[r] = [http[r] EXCEPT !.head = TRUE, !.got = Append(@, f),
                                     !.st = IF @ = "wait" THEN "body" ELSE @]
      BY <1>1, <1>2 DEF Route
    <2> QED
      BY <1>1, <1>2, <2>1 DEF Exchanges
  <1>3. CASE f.type # "RESP_HEAD"
    <2> DEFINE e == Enqueue(http[r], f)
    <2>1. http'[r] = [e EXCEPT !.reg = f.type # "RESP_EOF"]
      BY <1>1, <1>3 DEF Route
    <2>2. \/ e = http[r] /\ http[r].failed
          \/ e = [http[r] EXCEPT !.q = Append(@, f)]
          \/ e = [http[r] EXCEPT !.failed = TRUE, !.q = <<Frame("RESP_EOF", f.n, f.of)>>]
      BY DEF Enqueue
    <2> HIDE DEF e
    <2>3. /\ e \in [st : {"idle", "upload", "wait", "body", "ok", "failed"},
                    conn : Conns \union {NoConn}, sid : Nat, reg : BOOLEAN, head : BOOLEAN,
                    q : {e.q}, failed : BOOLEAN, ab : BOOLEAN, got : Seq(UpFrames)]
          /\ e.conn = http[r].conn /\ e.sid = http[r].sid /\ e.ab = http[r].ab
          /\ e.head = http[r].head
          /\ e.failed = TRUE \/ (e.failed = http[r].failed /\ e.q = Append(http[r].q, f))
      <3>1. CASE e = http[r] /\ http[r].failed
        BY <1>1, <3>1 DEF Exchanges
      <3>2. CASE e = [http[r] EXCEPT !.q = Append(@, f)]
        BY <1>1, <3>2 DEF Exchanges
      <3>3. CASE e = [http[r] EXCEPT !.failed = TRUE, !.q = <<Frame("RESP_EOF", f.n, f.of)>>]
        BY <1>1, <3>3 DEF Exchanges
      <3> QED
        BY <2>2, <3>1, <3>2, <3>3
    <2>4. /\ http'[r].conn = e.conn /\ http'[r].sid = e.sid /\ http'[r].ab = e.ab
          /\ http'[r].head = e.head /\ http'[r].q = e.q /\ http'[r].failed = e.failed
          /\ http'[r].reg = (f.type # "RESP_EOF")
      BY <2>1, <2>3
    <2> QED
      BY <1>3, <2>3, <2>4
  <1> QED
    BY <1>2, <1>3

(* A frame read and routed leaves its socket orderly. *)
LEMMA NeatRead ==
  ASSUME TypeInv, NEW c \in Conns, Neat(c), up[c] # <<>>, up'[c] = Tail(up[c]),
         Route(c, Head(up[c])), aborted' = aborted, down' = down, tasks' = tasks
  PROVE  Neat(c)'
  <1>1. up[c] \in Seq(UpFrames) /\ http \in [Reqs -> Exchanges]
    BY DEF TypeInv, MuxType
  <1>2. PICK f \in UpFrames : f = Head(up[c])
    BY <1>1
  <1>3. PICK n : n = f.n
    OBVIOUS
  <1>4. /\ Items(up[c]) = {f} \union Items(up'[c])
        /\ InOrder(up'[c])
        /\ \A g \in Items(up'[c]) : g.n = n => f.type # "RESP_EOF" /\ g.type # "RESP_HEAD"
    BY <1>1, <1>2, <1>3, ItemsHead, OrderTail DEF Neat
  <1>5. \A r \in Reqs : Owner(r, c, n) <=> r \in Owners(c, f.n)
    BY <1>3 DEF Owner, Owners
  <1>6. \A r \in Reqs : r \notin Owners(c, f.n) => http'[r] = http[r]
    BY <1>2 DEF Route
  <1>7. \A r \in Reqs : Owner(r, c, n) =>
          /\ http'[r].conn = http[r].conn /\ http'[r].sid = http[r].sid
          /\ f.type = "RESP_HEAD" => http'[r].head = TRUE /\ http'[r].reg = http[r].reg
          /\ f.type # "RESP_HEAD" => http'[r].head = http[r].head /\ http'[r].reg = (f.type # "RESP_EOF")
    <2> TAKE r \in Reqs
    <2> HAVE Owner(r, c, n)
    <2>1. r \in Owners(c, f.n) /\ Route(c, f)
      BY <1>2, <1>5
    <2> QED
      BY <1>1, <2>1, RouteFields
  <1>8. \A m : m # n =>
          /\ Awaits(c, m) => Awaits(c, m)'
          /\ Heard(c, m) => Heard(c, m)'
          /\ Unheard(c, m) => Unheard(c, m)'
          /\ Silent(c, m) => Silent(c, m)'
          /\ \A type : Out(c, m, type)' <=> Out(c, m, type)
    <2> TAKE m
    <2> HAVE m # n
    <2>1. \A r \in Reqs : Owner(r, c, m)' \/ Owner(r, c, m) => http'[r] = http[r]
      <3> TAKE r \in Reqs
      <3>1. CASE Owner(r, c, n)
        BY <1>7, <3>1 DEF Owner
      <3>2. CASE ~Owner(r, c, n)
        BY <1>5, <1>6, <3>2
      <3> QED
        BY <3>1, <3>2
    <2>2. /\ Awaits(c, m) => Awaits(c, m)'
          /\ Heard(c, m) => Heard(c, m)'
          /\ Unheard(c, m) => Unheard(c, m)'
      BY <2>1 DEF Awaits, Heard, Unheard, Owner
    <2>3. (Silent(c, m) => Silent(c, m)') /\ (\A type : Out(c, m, type)' <=> Out(c, m, type))
      BY <1>3, <1>4 DEF Silent, Out
    <2> QED
      BY <2>2, <2>3
  <1>9. /\ \A g \in Items(down[c]) : g.type = "REQ_OPEN" => g.n # n
        /\ \A t \in tasks : ~t.ab /\ t.conn = c /\ t.sid = n => t.sent # 0 /\ f.type # "RESP_EOF"
    BY <1>3, <1>4 DEF Neat, Silent, Out
  <1>10. f.type # "RESP_EOF" => Awaits(c, n)' /\ Heard(c, n)' /\ ~Out(c, n, "RESP_HEAD")'
    <2> HAVE f.type # "RESP_EOF"
    <2>1. Awaits(c, n)
      BY <1>3, <1>4 DEF Neat
    <2>2. Awaits(c, n)'
      BY <1>7, <2>1 DEF Awaits, Owner
    <2>3. ~Out(c, n, "RESP_HEAD")'
      BY <1>4 DEF Out
    <2>4. \A r \in Reqs : Owner(r, c, n)' => Owner(r, c, n)
      BY <1>5, <1>6, <1>7 DEF Owner
    <2>5. f.type # "RESP_HEAD" => Heard(c, n)
      BY <1>3, <1>4, <2>3 DEF Neat, Out
    <2>6. Heard(c, n)'
      BY <1>7, <2>4, <2>5 DEF Heard
    <2> QED
      BY <2>2, <2>3, <2>6
  <1>11. ASSUME NEW g \in Items(up'[c])
         PROVE  /\ Awaits(c, g.n)'
                /\ g.type = "RESP_HEAD" => Unheard(c, g.n)'
                /\ g.type # "RESP_HEAD" => Heard(c, g.n)' \/ Out(c, g.n, "RESP_HEAD")'
    <2>1. CASE g.n = n
      BY <1>4, <1>10, <2>1
    <2>2. CASE g.n # n
      BY <1>4, <1>8, <2>2 DEF Neat
    <2> QED
      BY <2>1, <2>2
  <1>12. ASSUME NEW t \in tasks', ~t.ab /\ t.conn = c
         PROVE  /\ Awaits(c, t.sid)' /\ ~Out(c, t.sid, "RESP_EOF")'
                /\ t.sent = 0 => Unheard(c, t.sid)' /\ Silent(c, t.sid)'
                /\ t.sent # 0 => Heard(c, t.sid)' \/ Out(c, t.sid, "RESP_HEAD")'
    <2>1. CASE t.sid = n
      <3>1. ~Out(c, n, "RESP_EOF")'
        BY <1>4, <1>12, <2>1 DEF Neat, Out
      <3> QED
        BY <1>9, <1>10, <1>12, <2>1, <3>1
    <2>2. CASE t.sid # n
      BY <1>8, <1>12, <2>2 DEF Neat
    <2> QED
      BY <2>1, <2>2
  <1>13. ASSUME NEW g \in Items(down'[c]), g.type = "REQ_OPEN"
         PROVE  Awaits(c, g.n)' /\ Unheard(c, g.n)' /\ Silent(c, g.n)'
    BY <1>8, <1>9, <1>13 DEF Neat
  <1> QED
    BY <1>4, <1>11, <1>12, <1>13 DEF Neat

LEMMA TidyRead ==
  ASSUME TypeInv, Tidy, NEW c \in Conns, ReadFrame(c), UNCHANGED homeVars
  PROVE  Tidy'
  <1>1. /\ up[c] \in Seq(UpFrames) /\ up \in [Conns -> Seq(UpFrames)] /\ http \in [Reqs -> Exchanges]
        /\ phase \in [Conns -> Phases]
    BY DEF TypeInv, MuxType, RegType
  <1>2. /\ phase[c] = "live" /\ up[c] # <<>> /\ up' = [up EXCEPT ![c] = Tail(@)]
        /\ UNCHANGED <<sock, down, aborted, tasks>>
        /\ \/ phase' = [phase EXCEPT ![c] = "ending"] /\ http' = http
           \/ phase' = phase /\ Route(c, Head(up[c]))
        /\ RoutingError(c, Head(up[c])) \/ Route(c, Head(up[c]))
    BY DEF ReadFrame, homeVars
  <1>3. PICK f \in UpFrames : f = Head(up[c])
    BY <1>1, <1>2
  <1>4. Shut' /\ AbortedType'
    BY <1>1, <1>2 DEF Tidy, Shut, AbortedType
  <1>5. \A r \in Reqs : http'[r] = http[r] \/ (r \in Owners(c, f.n) /\ Route(c, f))
    BY <1>2, <1>3 DEF Route
  <1>6. ASSUME NEW d \in Conns, Neat(d), sock[d] = "open"
        PROVE  Neat(d)'
    <2>1. CASE d = c
      <3>1. Route(c, Head(up[c]))
        BY <1>2, <1>6, <2>1, NoRoutingError
      <3> QED
        BY <1>1, <1>2, <1>6, <2>1, <3>1, NeatRead
    <2>2. CASE d # c
      <3>1. \A r \in Reqs : http[r].conn = d \/ http'[r].conn = d => http'[r] = http[r]
        <4>1. \A r \in Owners(c, f.n) : http[r].conn = c
          BY DEF Owners
        <4>2. ASSUME Route(c, f), NEW r \in Owners(c, f.n) PROVE http'[r].conn = http[r].conn
          BY <1>1, <4>2, RouteFields
        <4> QED
          BY <1>5, <2>2, <4>1, <4>2
      <3>2. up'[d] = up[d]
        BY <1>1, <1>2, <2>2
      <3> QED
        BY <1>2, <1>6, <3>1, <3>2, NeatKept
    <2> QED
      BY <2>1, <2>2
  <1>7. Orderly'
    BY <1>1, <1>2, <1>6 DEF Tidy, Orderly
  <1>8. Left'
    <2> SUFFICES ASSUME NEW r \in Reqs
                 PROVE  /\ http'[r].st = "idle" => http'[r] = InitHttp
                        /\ http'[r].ab => ~http'[r].reg
                        /\ ~http'[r].failed /\ (\E g \in Items(http'[r].q) : g.type = "RESP_EOF")
                             => ~http'[r].reg
      BY DEF Left
    <2>1. CASE http'[r] = http[r]
      BY <2>1 DEF Tidy, Left
    <2>2. CASE r \in Owners(c, f.n) /\ Route(c, f)
      <3>1. http[r].reg /\ http[r].st # "idle"
        BY <2>2 DEF Owners, Tidy, Left, InitHttp
      <3>2. http'[r].st # "idle"
        BY <1>1, <2>2, <3>1, RouteKeeps
      <3>3. /\ http'[r].ab = http[r].ab
            /\ f.type = "RESP_HEAD" => /\ http'[r].reg = http[r].reg
                                       /\ http'[r].q = http[r].q
                                       /\ http'[r].failed = http[r].failed
            /\ f.type # "RESP_HEAD" => /\ http'[r].reg = (f.type # "RESP_EOF")
                                       /\ \/ http'[r].failed = TRUE
                                          \/ /\ http'[r].failed = http[r].failed
                                             /\ http'[r].q = Append(http[r].q, f)
        <4>1. Route(c, f) /\ r \in Owners(c, f.n) /\ http \in [Reqs -> Exchanges]
          BY <1>1, <2>2
        <4> QED
          BY <4>1, RouteFields
      <3>4. Items(Append(http[r].q, f)) = Items(http[r].q) \union {f}
        BY <1>1, ItemsAppend DEF Exchanges
      <3>5. ~http[r].ab /\ (~http[r].failed => \A g \in Items(http[r].q) : g.type # "RESP_EOF")
        BY <3>1 DEF Tidy, Left
      <3> QED
        BY <3>2, <3>3, <3>4, <3>5
    <2> QED
      BY <1>5, <2>1, <2>2
  <1> QED
    BY <1>4, <1>7, <1>8 DEF Tidy

LEMMA CloseKeeps ==
  ASSUME sock \in [Conns -> Socks], NEW x \in Conns, CloseSocket(x)
  PROVE  sock'[x] # "open" /\ \A d \in Conns : d # x => sock'[d] = sock[d]
  BY DEF CloseSocket

(* The relay's own steps other than reading a frame: they close sockets and    *)
(* stop routing to the exchanges of sockets that are closed.                   *)
Closes ==
  /\ aborted' = aborted
  /\ \A d \in Conns :
       /\ sock'[d] = "open" => /\ sock[d] = "open" /\ up'[d] = up[d]
                               /\ phase'[d] # "hello" => phase[d] # "hello"
       /\ phase'[d] = "closing" => sock'[d] # "open"
  /\ http' = http \/ \E x \in Conns : Shutdown(x) /\ sock'[x] # "open"

LEMMA ScopeCloses ==
  ASSUME TypeInv, Tidy, NEW c \in Conns, ScopeStep(c), ~Hello(c), ~ReadFrame(c)
  PROVE  Closes
  <1>1. /\ sock \in [Conns -> Socks] /\ up \in [Conns -> Seq(UpFrames)] /\ phase \in [Conns -> Phases]
        /\ phase[c] = "fencing" => prior \in Conns
    BY DEF TypeInv, MuxType, RegType, LockHeld
  <1>2. Shut
    BY DEF Tidy
  <1>3. CASE NoHello(c) \/ Refuse(c)
    <2>1. /\ sock'[c] # "open" /\ \A d \in Conns : d # c => sock'[d] = sock[d]
      BY <1>1, <1>3, CloseKeeps DEF NoHello, Refuse
    <2>2. UNCHANGED <<aborted, up, http>> /\ phase' = [phase EXCEPT ![c] = "gone"]
      BY <1>3 DEF NoHello, Refuse
    <2> QED
      BY <1>1, <1>2, <2>1, <2>2 DEF Closes, Shut
  <1>4. CASE AckSent(c)
    <2>1. /\ UNCHANGED <<aborted, up, http, sock>> /\ phase[c] # "hello"
          /\ \E p \in {"live", "fencing"} : phase' = [phase EXCEPT ![c] = p]
      BY <1>4 DEF AckSent
    <2> QED
      BY <1>1, <1>2, <2>1 DEF Closes, Shut
  <1>5. CASE AckTooLate(c) \/ AckFails(c)
    <2>1. /\ sock'[c] # "open" /\ \A d \in Conns : d # c => sock'[d] = sock[d]
      BY <1>1, <1>5, CloseKeeps DEF AckTooLate, AckFails
    <2>2. UNCHANGED <<aborted, up>> /\ Shutdown(c) /\ phase' = [phase EXCEPT ![c] = "gone"]
      BY <1>5 DEF AckTooLate, AckFails, CloseConnection
    <2> QED
      BY <1>1, <1>2, <2>1, <2>2 DEF Closes, Shut
  <1>6. CASE FencePrior(c)
    <2>1. prior \in Conns
      BY <1>1, <1>6 DEF FencePrior
    <2>2. PICK x \in Conns : x = prior
      BY <2>1
    <2>3. /\ sock'[x] # "open" /\ \A d \in Conns : d # x => sock'[d] = sock[d]
      BY <1>1, <1>6, <2>2, CloseKeeps DEF FencePrior
    <2>4. /\ UNCHANGED <<aborted, up>> /\ Shutdown(x)
          /\ phase' = [phase EXCEPT ![c] = "live"] /\ phase[c] # "hello"
      BY <1>6, <2>2 DEF FencePrior, CloseConnection
    <2> QED
      BY <1>1, <1>2, <2>3, <2>4 DEF Closes, Shut
  <1>7. CASE ReadEnds(c)
    <2>1. /\ UNCHANGED <<aborted, up, http, sock>> /\ phase[c] # "hello"
          /\ phase' = [phase EXCEPT ![c] = "ending"]
      BY <1>7 DEF ReadEnds, muxVars
    <2> QED
      BY <1>1, <1>2, <2>1 DEF Closes, Shut
  <1>8. CASE PongStarved(c)
    <2>1. /\ sock'[c] # "open" /\ \A d \in Conns : d # c => sock'[d] = sock[d]
      BY <1>1, <1>8, CloseKeeps DEF PongStarved
    <2>2. UNCHANGED <<aborted, up, http, phase>>
      BY <1>8 DEF PongStarved, regVars
    <2> QED
      BY <1>1, <1>2, <2>1, <2>2 DEF Closes, Shut
  <1>9. CASE EndAffinity(c)
    <2>1. /\ sock'[c] # "open" /\ \A d \in Conns : d # c => sock'[d] = sock[d]
      BY <1>1, <1>9, CloseKeeps DEF EndAffinity
    <2>2. /\ UNCHANGED <<aborted, http>> /\ phase' = [phase EXCEPT ![c] = "closing"]
          /\ up' = [up EXCEPT ![c] = <<>>]
      BY <1>9 DEF EndAffinity
    <2> QED
      BY <1>1, <1>2, <2>1, <2>2 DEF Closes, Shut
  <1>10. CASE EndClose(c)
    <2>1. /\ UNCHANGED <<aborted, up, sock>> /\ Shutdown(c) /\ phase[c] = "closing"
          /\ phase' = [phase EXCEPT ![c] = "gone"]
      BY <1>10 DEF EndClose, CloseConnection
    <2> QED
      BY <1>1, <1>2, <2>1 DEF Closes, Shut
  <1> QED
    BY <1>3, <1>4, <1>5, <1>6, <1>7, <1>8, <1>9, <1>10 DEF ScopeStep

LEMMA ReloadCloses ==
  ASSUME TypeInv, Tidy, EvictHome \/ Revoke \/ Provision
  PROVE  Closes
  <1>1. /\ sock \in [Conns -> Socks] /\ connections \in Conns \union {NoConn}
    BY DEF TypeInv, MuxType
  <1>2. Shut /\ UNCHANGED <<aborted, up, phase>>
    BY DEF Tidy, EvictHome, Revoke, Provision, muxVars
  <1>3. CASE UNCHANGED <<sock, http>>
    BY <1>2, <1>3 DEF Closes, Shut
  <1>4. CASE EvictHome /\ connections # NoConn
    <2>1. PICK x \in Conns : x = connections
      BY <1>1, <1>4
    <2>2. CloseSocket(x) /\ Shutdown(x)
      BY <1>4, <2>1 DEF EvictHome, CloseConnection
    <2>3. sock'[x] # "open" /\ \A d \in Conns : d # x => sock'[d] = sock[d]
      BY <1>1, <2>2, CloseKeeps
    <2> QED
      BY <1>2, <2>2, <2>3 DEF Closes, Shut
  <1> QED
    BY <1>3, <1>4 DEF EvictHome, Revoke, Provision, muxVars

LEMMA TidyCloses ==
  ASSUME TypeInv, StreamInv, Tidy, Relays, Closes, UNCHANGED homeVars
  PROVE  Tidy'
  <1> USE RelayMuxAssumption
  <1>1. http \in [Reqs -> Exchanges] /\ down \in [Conns -> Seq(DownFrames)] /\ tasks' = tasks
    BY DEF TypeInv, MuxType, homeVars
  <1>2. PICK x \in Conns \union {NoConn} :
          \A r \in Reqs :
            \/ http'[r] = http[r]
            \/ /\ x \in Conns /\ sock'[x] # "open" /\ http[r].conn = x /\ http'[r].conn = x
               /\ http'[r].reg = FALSE /\ http'[r].st # "idle"
    <2>1. CASE http' = http
      BY <2>1
    <2>2. ASSUME NEW x \in Conns, Shutdown(x), sock'[x] # "open"
          PROVE  \A r \in Reqs :
                   \/ http'[r] = http[r]
                   \/ /\ sock'[x] # "open" /\ http[r].conn = x /\ http'[r].conn = x
                      /\ http'[r].reg = FALSE /\ http'[r].st # "idle"
      <3> TAKE r \in Reqs
      <3>1. CASE http[r].conn # x
        BY <2>2, <3>1 DEF Shutdown
      <3>2. CASE http[r].conn = x
        <4>1. http'[r] = [http[r] EXCEPT !.reg = FALSE] /\ http[r] \in Exchanges
          BY <1>1, <2>2, <3>2 DEF Shutdown
        <4>2. http'[r].reg = FALSE /\ http'[r].conn = x /\ http'[r].st = http[r].st
          BY <3>2, <4>1 DEF Exchanges
        <4>3. http[r].st # "idle"
          BY <3>2 DEF StreamInv, Conned
        <4> QED
          BY <2>2, <3>2, <4>2, <4>3
      <3> QED
        BY <3>1, <3>2
    <2>3. http' = http \/ \E x \in Conns : Shutdown(x) /\ sock'[x] # "open"
      BY DEF Closes
    <2>4. CASE \E x \in Conns : Shutdown(x) /\ sock'[x] # "open"
      <3>1. PICK x \in Conns : Shutdown(x) /\ sock'[x] # "open"
        BY <2>4
      <3> QED
        BY <2>2, <3>1
    <2> QED
      BY <2>1, <2>3, <2>4
  <1>3. Left'
    BY <1>2 DEF Tidy, Left
  <1>4. Shut' /\ AbortedType'
    BY DEF Closes, Shut, Tidy, AbortedType
  <1>5. ASSUME NEW d \in Conns, sock'[d] = "open", phase'[d] # "hello"
        PROVE  Neat(d)'
    <2>1. sock[d] = "open" /\ up'[d] = up[d] /\ phase[d] # "hello" /\ aborted' = aborted
      BY <1>5 DEF Closes
    <2>2. Neat(d)
      BY <2>1 DEF Tidy, Orderly
    <2>3. \A f \in Items(down'[d]) : f.type = "REQ_OPEN" => f \in Items(down[d])
      <3>1. \A type \in {"ACK", "NACK"} : /\ Frame(type, 0, "relay") \in DownFrames
                                         /\ Frame(type, 0, "relay").type = type
        BY DEF Frame, DownFrames
      <3>2. \A type \in {"ACK", "NACK"} :
              Items(Append(down[d], Frame(type, 0, "relay"))) = Items(down[d]) \union {Frame(type, 0, "relay")}
        BY <1>1, <3>1, ItemsAppend
      <3> QED
        BY <3>1, <3>2 DEF Relays
    <2>4. \A r \in Reqs : http[r].conn = d \/ http'[r].conn = d => http'[r] = http[r]
      BY <1>2, <1>5
    <2> QED
      BY <1>1, <2>1, <2>2, <2>3, <2>4, NeatKept
  <1> QED
    BY <1>3, <1>4, <1>5 DEF Tidy, Orderly

LEMMA TidyHello ==
  ASSUME TypeInv, StreamInv, Tidy, NEW c \in Conns, Hello(c), UNCHANGED homeVars
  PROVE  Tidy'
  <1>1. /\ up \in [Conns -> Seq(UpFrames)] /\ phase \in [Conns -> Phases]
    BY DEF TypeInv, MuxType, RegType
  <1>2. /\ phase[c] = "hello" /\ up[c] # <<>> /\ up' = [up EXCEPT ![c] = Tail(@)]
        /\ UNCHANGED <<sock, down, aborted, http, tasks>>
        /\ \E p \in {"refusing", "acking"} : phase' = [phase EXCEPT ![c] = p]
    BY DEF Hello, homeVars
  <1>3. Shut' /\ AbortedType' /\ Left'
    BY <1>1, <1>2 DEF Tidy, Shut, AbortedType, Left
  <1>4. Neat(c)'
    <2>1. /\ up'[c] = <<>> /\ Items(down'[c]) = {} /\ \A t \in tasks' : t.conn # c
      <3>1. Items(down[c]) = {} /\ Len(up[c]) <= 1 /\ \A t \in tasks : t.conn # c
        BY <1>2 DEF StreamInv, Fresh
      <3>2. Tail(up[c]) = <<>>
        BY <1>1, <1>2, <3>1
      <3> QED
        BY <1>1, <1>2, <3>1, <3>2
    <2>2. InOrder(up'[c]) /\ Items(up'[c]) = {}
      BY <2>1, ItemsEmpty DEF InOrder
    <2> QED
      BY <2>1, <2>2 DEF Neat
  <1>5. ASSUME NEW d \in Conns, d # c, Neat(d) PROVE Neat(d)'
    <2>1. up'[d] = up[d]
      BY <1>1, <1>2, <1>5
    <2> QED
      BY <1>2, <1>5, <2>1, NeatKept
  <1>6. Orderly'
    BY <1>1, <1>2, <1>4, <1>5 DEF Tidy, Orderly
  <1> QED
    BY <1>3, <1>6 DEF Tidy

LEMMA TidyRelay ==
  ASSUME TypeInv, StreamInv, Tidy, RelayStep
  PROVE  Tidy'
  <1>1. UNCHANGED homeVars
    BY DEF RelayStep
  <1>2. CASE EvictHome \/ Revoke \/ Provision
    BY <1>1, <1>2, ReloadEffect, ReloadCloses, TidyCloses
  <1>3. ASSUME NEW c \in Conns, ScopeStep(c)
        PROVE  Tidy'
    <2>1. CASE Hello(c)
      BY <1>1, <2>1, TidyHello
    <2>2. CASE ReadFrame(c)
      BY <1>1, <2>2, TidyRead
    <2>3. CASE ~Hello(c) /\ ~ReadFrame(c)
      BY <1>1, <1>3, <2>3, ScopeEffect, ScopeCloses, TidyCloses
    <2> QED
      BY <2>1, <2>2, <2>3
  <1> QED
    BY <1>2, <1>3 DEF RelayStep

(* A stream that is being served is served by one task, and its REQ_OPEN has   *)
(* been read.                                                                  *)
LEMMA ServedAlone ==
  ASSUME TypeInv, StreamInv, Service, NEW t \in tasks, ~t.ab
  PROVE  /\ \A u \in tasks : ~u.ab /\ u.conn = t.conn /\ u.sid = t.sid => u = t
         /\ \A f \in Items(down[t.conn]) : f.type = "REQ_OPEN" => f.n # t.sid
  <1>1. /\ t.conn \in Conns /\ t.sid \in Nat /\ t.of \in Reqs
        /\ \A u \in tasks : u.of \in Reqs
        /\ down[t.conn] \in Seq(DownFrames)
    BY DEF TypeInv, HomeType, TaskSet, MuxType
  <1>2. Tag(t.conn, t.sid, t.of)
    BY DEF Tag, TaskTag
  <1>3. ASSUME NEW u \in tasks, ~u.ab /\ u.conn = t.conn /\ u.sid = t.sid
        PROVE  u = t
    <2>1. Tag(t.conn, t.sid, u.of)
      BY <1>3 DEF Tag, TaskTag
    <2>2. u.of = t.of
      BY <1>1, <1>2, <2>1 DEF StreamInv, Streams
    <2> QED
      BY <1>3, <2>2 DEF Service, OneServer
  <1>4. ASSUME NEW f \in Items(down[t.conn]), f.type = "REQ_OPEN", f.n = t.sid
        PROVE  FALSE
    <2>1. f \in DownFrames
      BY <1>1, ItemsType
    <2>2. f.of \in Reqs
      BY <1>4, <2>1 DEF DownFrames
    <2>3. Tag(t.conn, t.sid, f.of)
      BY <1>4 DEF Tag, DownTag
    <2>4. f.of = t.of
      BY <1>1, <1>2, <2>2, <2>3 DEF StreamInv, Streams
    <2>5. served[t.of] = "running" /\ served[f.of] = "none"
      BY <1>1, <1>4 DEF Service, OneServer, NotYetServed
    <2> QED
      BY <2>4, <2>5
  <1> QED
    BY <1>3, <1>4

LEMMA TidySays ==
  ASSUME TypeInv, Tidy, NEW c \in Conns, NEW n, NEW fs \in Seq(UpFrames), Says(c, n, fs)
  PROVE  Tidy'
  <1>1. up \in [Conns -> Seq(UpFrames)]
    BY DEF TypeInv, MuxType
  <1>2. Left' /\ Shut' /\ AbortedType'
    BY DEF Says, Tidy, Left, Shut, AbortedType
  <1>3. ASSUME NEW d \in Conns, d # c, Neat(d) PROVE Neat(d)'
    <2>1. up'[d] = up[d]
      BY <1>1, <1>3 DEF Says, SendAll
    <2>2. /\ http' = http /\ aborted' = aborted
          /\ \A f \in Items(down'[d]) : f.type = "REQ_OPEN" => f \in Items(down[d])
          /\ \A t \in tasks' : ~t.ab /\ t.conn = d => t \in tasks
      BY <1>3 DEF Says
    <2> QED
      BY <1>3, <2>1, <2>2, NeatKept
  <1>4. ASSUME sock[c] = "open", Neat(c) PROVE Neat(c)'
    BY <1>4, NeatSays
  <1>5. Orderly'
    BY <1>3, <1>4 DEF Says, Tidy, Orderly
  <1> QED
    BY <1>2, <1>5 DEF Tidy

LEMMA OneTwoOrder ==
  ASSUME NEW a, NEW b, a.type # "RESP_EOF", b.type # "RESP_HEAD"
  PROVE  InOrder(<<a, b>>) /\ \A e : InOrder(<<e>>)
  <1>1. \A e : InOrder(<<e>>)
    BY DEF InOrder
  <1>2. InOrder(<<a, b>>)
    <2> SUFFICES ASSUME NEW i \in DOMAIN <<a, b>>, NEW j \in DOMAIN <<a, b>>, i < j
                 PROVE  <<a, b>>[i].type # "RESP_EOF" /\ <<a, b>>[j].type # "RESP_HEAD"
      BY DEF InOrder
    <2>1. DOMAIN <<a, b>> = 1 .. 2
      OBVIOUS
    <2>2. i = 1 /\ j = 2
      BY <2>1
    <2> QED
      BY <2>2
  <1> QED
    BY <1>1, <1>2

(* The home says nothing, and takes up no request but one it has been sent. *)
LEMMA TidyQuiet ==
  ASSUME TypeInv, Tidy, UNCHANGED <<http, aborted, phase>>,
         \A d \in Conns : sock'[d] = "open" => sock[d] = "open" /\ up'[d] = up[d],
         \A d \in Conns : Items(down'[d]) \subseteq Items(down[d]),
         \A t \in tasks' : ~t.ab =>
           \/ t \in tasks
           \/ t.sent = 0 /\ \E f \in Items(down[t.conn]) : f.type = "REQ_OPEN" /\ f.n = t.sid
  PROVE  Tidy'
  <1>1. Left' /\ Shut' /\ AbortedType'
    BY DEF Tidy, Left, Shut, AbortedType
  <1>2. ASSUME NEW d \in Conns, sock'[d] = "open", Neat(d) PROVE Neat(d)'
    BY <1>2, NeatKept
  <1>3. Orderly'
    BY <1>2 DEF Tidy, Orderly
  <1> QED
    BY <1>1, <1>3 DEF Tidy

LEMMA TidyTask ==
  ASSUME TypeInv, StreamInv, Service, ~LateRaise, Tidy,
         NEW t \in tasks, Respond(t) \/ HandlerRaises(t) \/ TaskEnds(t)
  PROVE  Tidy'
  <1>0. Whole \in Nat /\ Whole # 0
    BY RelayMuxAssumption DEF Whole
  <1>1. t \in TaskSet /\ t.conn \in Conns /\ t.sid \in Nat /\ t.of \in Reqs /\ t.sent \in Nat
    BY DEF TypeInv, HomeType, TaskSet
  <1>2. UNCHANGED <<http, aborted, phase, sock, down>>
    BY DEF Respond, HandlerRaises, TaskEnds, muxVars, regVars
  <1>3. CASE TaskEnds(t)
    <2>1. up' = up /\ tasks' = tasks \ {t}
      BY <1>3 DEF TaskEnds, muxVars
    <2> QED
      BY <1>2, <2>1, TidyQuiet
  <1>4. CASE Respond(t) \/ HandlerRaises(t)
    <2>1. PICK c \in Conns : c = t.conn
      BY <1>1
    <2>2. PICK n \in Nat : n = t.sid
      BY <1>1
    <2>3. ~t.ab /\ phase[c] # "hello"
      BY <1>4, <2>1 DEF Respond, HandlerRaises, MaySend, StreamInv, Fresh
    <2>4. /\ \A u \in tasks : ~u.ab /\ u.conn = c /\ u.sid = n => u = t
          /\ \A f \in Items(down[c]) : f.type = "REQ_OPEN" => f.n # n
      BY <2>1, <2>2, <2>3, ServedAlone
    <2>5. Neat(c) =>
            /\ Awaits(c, n) /\ ~Out(c, n, "RESP_EOF")
            /\ t.sent = 0 => Unheard(c, n) /\ Silent(c, n)
            /\ t.sent # 0 => Heard(c, n) \/ Out(c, n, "RESP_HEAD")
      BY <2>1, <2>2, <2>3 DEF Neat
    <2> DEFINE h == Frame("RESP_HEAD", n, t.of)
               d == Frame("RESP_DATA", n, t.of)
               e == Frame("RESP_EOF", n, t.of)
               w == [t EXCEPT !.sent = @ + 1]
    <2>6. /\ h \in UpFrames /\ d \in UpFrames /\ e \in UpFrames
          /\ h.type = "RESP_HEAD" /\ d.type = "RESP_DATA" /\ e.type = "RESP_EOF"
          /\ h.n = n /\ d.n = n /\ e.n = n
      BY <1>1 DEF Frame, UpFrames
    <2>7. /\ w.conn = c /\ w.sid = n /\ w.sent # 0
      BY <1>1, <2>1, <2>2 DEF TaskSet
    <2>8. \/ t.sent = 0 /\ SendAll(c, <<h>>) /\ tasks' = Replace(t, w)
          \/ t.sent # 0 /\ SendAll(c, <<d>>) /\ tasks' = Replace(t, w)
          \/ t.sent # 0 /\ SendAll(c, <<e>>) /\ tasks' = tasks \ {t}
          \/ t.sent = 0 /\ SendAll(c, <<h, e>>) /\ tasks' = tasks \ {t}
      BY <1>0, <1>1, <1>4, <2>1, <2>2 DEF Respond, HandlerRaises, Wire
    <2> HIDE DEF h, d, e, w
    <2>9. /\ <<h>> \in Seq(UpFrames) /\ <<d>> \in Seq(UpFrames) /\ <<e>> \in Seq(UpFrames)
          /\ <<h, e>> \in Seq(UpFrames)
      BY <2>6, OneTwoType
    <2>10. /\ Items(<<h>>) = {h} /\ Items(<<d>>) = {d} /\ Items(<<e>>) = {e}
           /\ Items(<<h, e>>) = {h, e}
      BY ItemsOneTwo
    <2>11. InOrder(<<h>>) /\ InOrder(<<d>>) /\ InOrder(<<e>>) /\ InOrder(<<h, e>>)
      BY <2>6, OneTwoOrder
    <2>12. \A q \in Conns : \A f \in Items(down'[q]) : f.type = "REQ_OPEN" =>
             f \in Items(down[q]) /\ (q = c => f.n # n)
      BY <1>2, <2>4
    <2>13. /\ tasks' = Replace(t, w) => \A u \in tasks' : ~u.ab =>
                \/ u \in tasks /\ (u.conn = c => u.sid # n)
                \/ u.conn = c /\ u.sid = n /\ u.sent # 0
           /\ tasks' = tasks \ {t} => \A u \in tasks' : ~u.ab => u \in tasks /\ (u.conn = c => u.sid # n)
      BY <2>4, <2>7 DEF Replace
    <2>14. PICK fs \in Seq(UpFrames) :
             /\ SendAll(c, fs) /\ InOrder(fs) /\ \A f \in Items(fs) : f.n = n
             /\ \/ t.sent = 0 /\ \E f \in Items(fs) : f.type = "RESP_HEAD"
                \/ t.sent # 0 /\ \A f \in Items(fs) : f.type # "RESP_HEAD"
             /\ \A u \in tasks' : ~u.ab =>
                  \/ u \in tasks /\ (u.conn = c => u.sid # n)
                  \/ u.conn = c /\ u.sid = n /\ u.sent # 0 /\ \A f \in Items(fs) : f.type # "RESP_EOF"
      <3> USE <2>9
      <3>1. CASE t.sent = 0 /\ SendAll(c, <<h>>) /\ tasks' = Replace(t, w)
        <4> WITNESS <<h>> \in Seq(UpFrames)
        <4> QED
          BY <2>6, <2>10, <2>11, <2>13, <3>1
      <3>2. CASE t.sent # 0 /\ SendAll(c, <<d>>) /\ tasks' = Replace(t, w)
        <4> WITNESS <<d>> \in Seq(UpFrames)
        <4> QED
          BY <2>6, <2>10, <2>11, <2>13, <3>2
      <3>3. CASE t.sent # 0 /\ SendAll(c, <<e>>) /\ tasks' = tasks \ {t}
        <4> WITNESS <<e>> \in Seq(UpFrames)
        <4> QED
          BY <2>6, <2>10, <2>11, <2>13, <3>3
      <3>4. CASE t.sent = 0 /\ SendAll(c, <<h, e>>) /\ tasks' = tasks \ {t}
        <4> WITNESS <<h, e>> \in Seq(UpFrames)
        <4> QED
          BY <2>6, <2>10, <2>11, <2>13, <3>4
      <3> QED
        BY <2>8, <3>1, <3>2, <3>3, <3>4
    <2>15. Neat(c) =>
             /\ Awaits(c, n)
             /\ \/ /\ Silent(c, n) /\ Unheard(c, n)
                   /\ \E f \in Items(fs) : f.type = "RESP_HEAD"
                \/ /\ ~Out(c, n, "RESP_EOF") /\ (Heard(c, n) \/ Out(c, n, "RESP_HEAD"))
                   /\ \A f \in Items(fs) : f.type # "RESP_HEAD"
      BY <2>5, <2>14
    <2>16. Says(c, n, fs)
      BY <1>2, <2>3, <2>12, <2>14, <2>15 DEF Says
    <2> QED
      BY <2>16, TidySays
  <1> QED
    BY <1>3, <1>4

LEMMA TidyDispatch ==
  ASSUME TypeInv, StreamInv, Service, Tidy, Dispatch
  PROVE  Tidy'
  <1>1. /\ ws \in Conns /\ down[ws] # <<>> /\ down \in [Conns -> Seq(DownFrames)]
    BY DEF Dispatch, TypeInv, HomeType, MuxType
  <1>2. PICK c \in Conns : c = ws
    BY <1>1
  <1>3. PICK f \in DownFrames : f = Head(down[c])
    BY <1>1, <1>2
  <1>4. f \in Items(down[c]) /\ f.n \in Nat
    BY <1>1, <1>2, <1>3, ItemsTail DEF DownFrames
  <1>5. PICK n \in Nat : n = f.n
    BY <1>4
  <1>6. /\ UNCHANGED <<http, aborted, phase, sock>> /\ phase[c] # "hello"
        /\ down' = [down EXCEPT ![c] = Tail(@)]
        /\ DispatchOpen(f) \/ DispatchBody(f) \/ DispatchOverflow(f) \/ DispatchAbort(f)
    BY <1>2, <1>3 DEF Dispatch, regVars, StreamInv, Fresh
  <1>7. \A d \in Conns : Items(down'[d]) \subseteq Items(down[d])
    BY DispatchEffect DEF Speaks
  <1>8. ASSUME NEW t \in tasks PROVE Fence(t).ab = TRUE
    <2>1. t \in TaskSet
      BY DEF TypeInv, HomeType
    <2> QED
      BY <2>1 DEF TaskSet, Fence
  <1>9. ASSUME up' = up, \A u \in tasks' : ~u.ab => u \in tasks
        PROVE  Tidy'
    BY <1>6, <1>7, <1>9, TidyQuiet
  <1>10. CASE DispatchBody(f) \/ DispatchAbort(f)
    <2>1. up' = up /\ \A u \in tasks' : ~u.ab => u \in tasks
      BY <1>8, <1>10 DEF DispatchBody, DispatchAbort
    <2> QED
      BY <1>9, <2>1
  <1> DEFINE h == Frame("RESP_HEAD", f.n, f.of)
             e == Frame("RESP_EOF", f.n, f.of)
  <1>11. ASSUME f.of \in Reqs
         PROVE  /\ <<e>> \in Seq(UpFrames) /\ <<h, e>> \in Seq(UpFrames)
                /\ InOrder(<<e>>) /\ InOrder(<<h, e>>)
                /\ \A g \in Items(<<e>>) : g.n = n /\ g.type # "RESP_HEAD"
                /\ \A g \in Items(<<h, e>>) : g.n = n
                /\ \E g \in Items(<<h, e>>) : g.type = "RESP_HEAD"
    <2>1. /\ h \in UpFrames /\ e \in UpFrames /\ h.type = "RESP_HEAD" /\ e.type = "RESP_EOF"
          /\ h.n = n /\ e.n = n
      BY <1>4, <1>5, <1>11 DEF Frame, UpFrames
    <2> HIDE DEF h, e
    <2>2. Items(<<e>>) = {e} /\ Items(<<h, e>>) = {h, e}
      BY ItemsOneTwo
    <2> QED
      BY <2>1, <2>2, OneTwoType, OneTwoOrder
  <1>12. CASE DispatchOpen(f)
    <2>1. f.type = "REQ_OPEN" /\ f.of \in Reqs
      BY <1>12 DEF DispatchOpen, DownFrames
    <2>2. \A u \in tasks : ~u.ab /\ u.conn = c => u.sid # n
      BY <1>4, <1>5, <2>1, ServedAlone
    <2>3. CASE SendAll(c, <<h, e>>) /\ tasks' = tasks
      <3>1. \A d \in Conns : \A g \in Items(down'[d]) : g.type = "REQ_OPEN" =>
              g \in Items(down[d]) /\ (d = c => g.n # n)
        <4> SUFFICES ASSUME NEW d \in Conns, NEW g \in Items(down'[d]), g.type = "REQ_OPEN"
                     PROVE  g \in Items(down[d]) /\ (d = c => g.n # n)
          OBVIOUS
        <4>1. g \in Items(down[d]) /\ g.of # f.of
          BY <1>1, <1>2, <1>3, <1>6, <2>1, OpenTaken DEF Service
        <4>2. ASSUME d = c, g.n = n PROVE FALSE
          <5>1. g \in DownFrames
            BY <1>1, <4>1, ItemsType
          <5>2. g.of \in Reqs
            BY <5>1 DEF DownFrames
          <5>3. Tag(c, n, g.of) /\ Tag(c, n, f.of)
            BY <1>4, <1>5, <2>1, <4>1, <4>2 DEF Tag, DownTag
          <5> QED
            BY <2>1, <4>1, <5>2, <5>3 DEF StreamInv, Streams
        <4> QED
          BY <4>1, <4>2
      <3>2. Neat(c) => Awaits(c, n) /\ Silent(c, n) /\ Unheard(c, n)
        BY <1>4, <1>5, <2>1 DEF Neat
      <3> HIDE DEF h, e
      <3>3. Says(c, n, <<h, e>>)
        BY <1>6, <1>11, <2>1, <2>2, <2>3, <3>1, <3>2 DEF Says
      <3> QED
        BY <1>11, <2>1, <3>3, TidySays
    <2>4. CASE up' = up /\ tasks' = tasks \union {Task(c, f.n, f.of)}
      <3>1. /\ Task(c, f.n, f.of).sent = 0 /\ Task(c, f.n, f.of).conn = c
            /\ Task(c, f.n, f.of).sid = f.n
        BY DEF Task
      <3>2. \A u \in tasks' : ~u.ab =>
              \/ u \in tasks
              \/ u.sent = 0 /\ \E g \in Items(down[u.conn]) : g.type = "REQ_OPEN" /\ g.n = u.sid
        BY <1>4, <2>1, <2>4, <3>1
      <3> QED
        BY <1>6, <1>7, <2>4, <3>2, TidyQuiet
    <2> QED
      BY <1>2, <1>12, <2>3, <2>4 DEF DispatchOpen
  <1>13. CASE DispatchOverflow(f)
    <2>1. f.type = "REQ_DATA" /\ f.of \in Reqs
      BY <1>13 DEF DispatchOverflow, DownFrames
    <2>2. PICK t \in tasks :
            /\ t.listed /\ t.conn = c /\ t.sid = n /\ tasks' = Replace(t, Fence(t))
            /\ \/ t.sent = 0 /\ SendAll(c, <<h, e>>)
               \/ t.sent # 0 /\ SendAll(c, <<e>>)
               \/ up' = up
      <3>1. \A t \in tasks : t.sent \in 1 .. Whole => t.sent # 0
        OBVIOUS
      <3> QED
        BY <1>2, <1>5, <1>13, <3>1 DEF DispatchOverflow, Addressed, Listed
    <2>3. ~t.ab
      BY <2>2 DEF Service, OneServer
    <2>4. /\ \A u \in tasks : ~u.ab /\ u.conn = c /\ u.sid = n => u = t
          /\ \A g \in Items(down[c]) : g.type = "REQ_OPEN" => g.n # n
      BY <2>2, <2>3, ServedAlone
    <2>5. \A u \in tasks' : ~u.ab => u \in tasks /\ (u.conn = c => u.sid # n)
      BY <1>8, <2>2, <2>4 DEF Replace
    <2>6. \A d \in Conns : \A g \in Items(down'[d]) : g.type = "REQ_OPEN" =>
            g \in Items(down[d]) /\ (d = c => g.n # n)
      BY <1>7, <2>4
    <2>7. Neat(c) =>
            /\ Awaits(c, n) /\ ~Out(c, n, "RESP_EOF")
            /\ t.sent = 0 => Unheard(c, n) /\ Silent(c, n)
            /\ t.sent # 0 => Heard(c, n) \/ Out(c, n, "RESP_HEAD")
      BY <2>2, <2>3 DEF Neat
    <2> HIDE DEF h, e
    <2>8. CASE t.sent = 0 /\ SendAll(c, <<h, e>>)
      <3>1. Says(c, n, <<h, e>>)
        BY <1>6, <1>11, <2>1, <2>5, <2>6, <2>7, <2>8 DEF Says
      <3> QED
        BY <1>11, <2>1, <3>1, TidySays
    <2>9. CASE t.sent # 0 /\ SendAll(c, <<e>>)
      <3>1. Says(c, n, <<e>>)
        BY <1>6, <1>11, <2>1, <2>5, <2>6, <2>7, <2>9 DEF Says
      <3> QED
        BY <1>11, <2>1, <3>1, TidySays
    <2>10. CASE up' = up
      BY <1>9, <2>5, <2>10
    <2> QED
      BY <2>2, <2>8, <2>9, <2>10
  <1> QED
    BY <1>6, <1>10, <1>12, <1>13

(* A connection that ends, or is cut, carries nothing more. *)
LEMMA TidyLink ==
  ASSUME TypeInv, Tidy,
         \/ HelloAcked \/ TeardownStarts \/ TeardownEnds \/ Restart
         \/ \E c \in Conns : Cut(c)
  PROVE  Tidy'
  <1>1. UNCHANGED <<http, aborted, phase>>
    BY DEF HelloAcked, TeardownStarts, TeardownEnds, Restart, Cut, muxVars, regVars
  <1>2. /\ sock \in [Conns -> Socks] /\ up \in [Conns -> Seq(UpFrames)]
        /\ link \in {"hello", "up"} => ws \in Conns
    BY DEF TypeInv, MuxType, HomeType
  <1>3. ASSUME NEW d \in Conns, sock'[d] = "open"
        PROVE  sock[d] = "open" /\ up'[d] = up[d]
    <2>1. CASE HelloAcked \/ TeardownEnds
      BY <1>3, <2>1 DEF HelloAcked, TeardownEnds, muxVars
    <2>2. CASE TeardownStarts
      BY <1>2, <1>3, <2>2 DEF TeardownStarts
    <2>3. CASE \E c \in Conns : Cut(c)
      BY <1>2, <1>3, <2>3 DEF Cut
    <2>4. CASE Restart
      BY <1>2, <1>3, <2>4 DEF Restart
    <2> QED
      BY <2>1, <2>2, <2>3, <2>4
  <1>4. \A d \in Conns : Items(down'[d]) \subseteq Items(down[d])
    BY LinkEffect DEF Speaks
  <1>5. \A u \in tasks' : ~u.ab => u \in tasks
    <2>1. ASSUME NEW t \in tasks PROVE Fence(t).ab = TRUE
      <3>1. t \in TaskSet
        BY DEF TypeInv, HomeType
      <3> QED
        BY <3>1 DEF TaskSet, Fence
    <2>2. CASE TeardownStarts
      BY <2>1, <2>2 DEF TeardownStarts
    <2>3. CASE tasks' \in {tasks, {}}
      BY <2>3
    <2> QED
      BY <2>2, <2>3 DEF HelloAcked, TeardownEnds, Restart, Cut, homeVars
  <1> QED
    BY <1>1, <1>3, <1>4, <1>5, TidyQuiet

(* A dialled socket is not held to anything until its HELLO is read. *)
LEMMA TidyDial ==
  ASSUME TypeInv, StreamInv, Tidy, NEW c \in Conns, Dial(c)
  PROVE  Tidy'
  <1>1. /\ sock \in [Conns -> Socks] /\ up \in [Conns -> Seq(UpFrames)] /\ phase \in [Conns -> Phases]
        /\ down \in [Conns -> Seq(DownFrames)] /\ aborted \in [Conns -> SUBSET Nat]
    BY DEF TypeInv, MuxType, RegType, Tidy, AbortedType
  <1>2. http' = http /\ tasks' = tasks /\ aborted' = [aborted EXCEPT ![c] = {}]
        /\ phase' = [phase EXCEPT ![c] = "hello"] /\ sock' = [sock EXCEPT ![c] = "open"]
    BY DEF Dial
  <1>3. Left' /\ Shut' /\ AbortedType'
    BY <1>1, <1>2 DEF Tidy, Left, Shut, AbortedType
  <1>4. ASSUME NEW d \in Conns, d # c, Neat(d) PROVE Neat(d)'
    <2>1. up'[d] = up[d] /\ down'[d] = down[d] /\ aborted'[d] = aborted[d]
      BY <1>1, <1>4 DEF Dial
    <2> QED
      BY <1>2, <1>4, <2>1, NeatKept
  <1>5. Orderly'
    BY <1>1, <1>2, <1>4 DEF Tidy, Orderly
  <1> QED
    BY <1>3, <1>5 DEF Tidy

LEMMA TidyStep ==
  ASSUME TypeInv, Registered, StreamInv, Service, ~LateRaise, Tidy, [Next]_vars
  PROVE  Tidy'
  <1>1. CASE BrowserStep /\ UNCHANGED <<regVars, homeVars>>
    BY <1>1, TidyBrowser
  <1>2. CASE RelayStep
    BY <1>2, TidyRelay
  <1>3. CASE HomeStep \/ (\E c \in Conns : Cut(c)) \/ Restart
    BY <1>3, TidyDispatch, TidyTask, TidyLink, TidyDial DEF HomeStep
  <1>4. CASE UNCHANGED vars
    <2>1. UNCHANGED <<http, aborted, phase, sock, up, down, tasks>>
      BY <1>4 DEF vars, muxVars, regVars, homeVars
    <2> QED
      BY <2>1, TidyQuiet
  <1> QED
    BY <1>1, <1>2, <1>3, <1>4 DEF Next

(* The read loop of a sound tunnel ends by a frame it cannot route, or not at  *)
(* all.                                                                        *)
LEMMA SurvivesStep ==
  ASSUME TypeInv, Tidy, [Next]_vars, NEW c \in Conns,
         phase[c] = "live", phase'[c] = "ending"
  PROVE  sock[c] # "open"
  <1>1. phase \in [Conns -> Phases]
    BY DEF TypeInv, RegType
  <1>2. PICK d \in Conns : ScopeStep(d)
    <2>1. phase' # phase
      OBVIOUS
    <2>2. CASE Dispatch \/ (\E t \in tasks : Respond(t) \/ HandlerRaises(t) \/ TaskEnds(t))
      BY <2>1, <2>2 DEF Dispatch, Respond, HandlerRaises, TaskEnds, regVars
    <2>3. CASE HelloAcked \/ TeardownStarts \/ TeardownEnds \/ Restart \/ (\E d \in Conns : Cut(d))
      BY <2>1, <2>3 DEF HelloAcked, TeardownStarts, TeardownEnds, Restart, Cut, regVars
    <2>4. CASE \E d \in Conns : Dial(d)
      BY <1>1, <2>4 DEF Dial
    <2>5. CASE EvictHome \/ Revoke \/ Provision \/ UNCHANGED regVars
      BY <2>1, <2>5 DEF EvictHome, Revoke, Provision, regVars
    <2> QED
      BY <2>2, <2>3, <2>4, <2>5 DEF Next, HomeStep, RelayStep, vars
  <1>3. ReadEnds(c) \/ (ReadFrame(c) /\ RoutingError(c, Head(up[c])))
    <2>1. CASE d = c
      BY <1>1, <1>2, <2>1 DEF ScopeStep, Hello, NoHello, Refuse, AckSent, AckTooLate, AckFails,
          FencePrior, ReadFrame, PongStarved, EndAffinity, EndClose, regVars
    <2>2. CASE d # c
      <3>1. phase'[c] = phase[c]
        BY <1>1, <1>2, <2>2 DEF ScopeStep, Hello, NoHello, Refuse, AckSent, AckTooLate, AckFails,
            FencePrior, ReadFrame, ReadEnds, PongStarved, EndAffinity, EndClose, regVars
      <3> QED
        BY <3>1
    <2> QED
      BY <2>1, <2>2
  <1>4. CASE ReadEnds(c)
    BY <1>4 DEF ReadEnds
  <1>5. CASE ReadFrame(c) /\ RoutingError(c, Head(up[c]))
    <2>1. ~Neat(c)
      BY <1>5, NoRoutingError DEF ReadFrame
    <2> QED
      BY <2>1 DEF Tidy, Orderly
  <1> QED
    BY <1>3, <1>4, <1>5

(* The relay never tears down a tunnel whose socket is sound (TunnelSurvives), *)
(* for every number of sockets, requests, pieces, faults and generations: a    *)
(* reply that crosses an abort, a timeout or a browser that left is known late *)
(* (abort_request, on_tunnel_frame), and the home starts a response once and   *)
(* says nothing after its end.  The contract with the handlers is the one      *)
(* above: one that raises late sends a second head, which is a protocol error. *)
THEOREM TunnelSurvivesAlways ==
  ASSUME ~LateRaise
  PROVE  Spec => TunnelSurvives
  <1> DEFINE I == TypeInv /\ Registered /\ StreamInv /\ Service /\ Tidy
             Kept == \A c \in Conns : phase[c] = "live" /\ phase'[c] = "ending" => sock[c] # "open"
  <1>1. Spec => [](TypeInv /\ Registered /\ StreamInv)
    BY StreamCorrect
  <1>2. Init => Service /\ Tidy
    BY ServiceInit, TidyInit
  <1>3. TypeInv /\ Registered /\ StreamInv /\ Service /\ Tidy /\ [Next]_vars => Service' /\ Tidy'
    BY ServiceStep, TidyStep
  <1>4. TypeInv /\ Tidy /\ [Next]_vars => [Kept]_vars
    BY SurvivesStep
  <1>5. Spec => [](TypeInv /\ Tidy)
    BY <1>1, <1>2, <1>3, PTL DEF Spec
  <1>6. Spec => [][Kept]_vars
    BY <1>4, <1>5, PTL DEF Spec
  <1> QED
    BY <1>6 DEF TunnelSurvives
=================================================================================

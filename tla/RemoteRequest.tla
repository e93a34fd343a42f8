----------------------------- MODULE RemoteRequest -----------------------------
(* What remote access promises of a browser's request, whatever happens to the *)
(* tunnels it crosses: the home runs it at most once, and the browser gets a   *)
(* response that ends cleanly only after the home ended that response.  A      *)
(* request that failed may still have run, and may still be running.           *)
EXTENDS Naturals

CONSTANT Reqs

VARIABLES
  answer,   \* answer[r]: "idle", "open", "ok" or "failed", as the browser sees it
  served    \* served[r]: "none", "running" or how the home ended the response

Endings == {"whole", "refused", "cut short"}

Init ==
  /\ answer = [r \in Reqs |-> "idle"]
  /\ served = [r \in Reqs |-> "none"]

Issue(r) ==
  /\ answer[r] = "idle"
  /\ \E a \in {"open", "failed"} : answer' = [answer EXCEPT ![r] = a]
  /\ UNCHANGED served

Serve(r) ==
  /\ answer[r] # "idle" /\ served[r] = "none"
  /\ \E s \in {"running", "refused"} : served' = [served EXCEPT ![r] = s]
  /\ UNCHANGED answer

Finish(r) ==
  /\ served[r] = "running"
  /\ \E s \in Endings : served' = [served EXCEPT ![r] = s]
  /\ UNCHANGED answer

Answer(r) ==
  /\ answer[r] = "open"
  /\ \/ served[r] \in Endings /\ answer' = [answer EXCEPT ![r] = "ok"]
     \/ answer' = [answer EXCEPT ![r] = "failed"]
  /\ UNCHANGED served

Next == \E r \in Reqs : Issue(r) \/ Serve(r) \/ Finish(r) \/ Answer(r)

Spec == Init /\ [][Next]_<<answer, served>>
===============================================================================

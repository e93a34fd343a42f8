------------------------------ MODULE HubMotion ------------------------------
(***************************************************************************)
(* The hub's motion authority: hub._motion_lock, the motion epoch and       *)
(* Hub.goto_and_center, with the plain goto of api/app.py beside it.        *)
(*                                                                          *)
(* The epoch is only ever compared with an earlier reading of itself, so    *)
(* the counter is kept as the set of motion tasks whose reading is out of   *)
(* date (fenced), and those overtaken by an operator's STOP (halted).       *)
(* go[t] is where the goto of task t stands: the route's, or the run's.     *)
(***************************************************************************)
EXTENDS Rig

VARIABLES lock, fenced, halted, go

hub == <<lock, fenced, halted, go>>

Tasks == {"run", "route"}
Holders == Tasks \cup {"dome"}

GotoSteps == {"none",
              "entered", "unpark", "track", "relock", "frame", "arrive",  \* goto_and_center
              "pEntered", "pUnpark", "pTrack", "pArrive",                 \* _plain_goto
              "parkWait", "parkSent",                                     \* /api/mount/park
              "done", "aborted", "unknown"}

HubTypeOK ==
    /\ lock \in Holders \cup {"free"}
    /\ fenced \subseteq Tasks
    /\ halted \subseteq Tasks
    /\ go \in [Tasks -> GotoSteps]

HubInit ==
    /\ lock = "free"
    /\ fenced = {}
    /\ halted = {}
    /\ go = [t \in Tasks |-> "none"]

(* bump_motion_epoch(cause): every reading taken so far is out of date.     *)
Bump(operator) ==
    /\ fenced' = Tasks
    /\ halted' = IF operator THEN Tasks ELSE halted

(* A motion path reads the epoch. *)
ReadEpoch(t) ==
    /\ fenced' = fenced \ {t}
    /\ halted' = halted \ {t}

CommittedClean(t) == t \notin fenced

GoTo(t, step) == go' = [go EXCEPT ![t] = step]

(* A cancelled task's "async with _motion_lock" lets the lock go.           *)
LockAfterCancel(t) == IF lock = t THEN "free" ELSE lock

(* ... and its driver may halt the goto it was waiting for (the AM5 does).  *)
CancelSlew(inSlew) == mount' = mount \/ (inSlew /\ mount' = AfterStop)

RouteInSlew == go["route"] \in {"arrive", "pArrive"}

(* How a goto ends: the run reads the verdict, a route's task just ends.    *)
Verdict(t, v) == IF t = "run" THEN v ELSE "none"

----------------------------------------------------------------------------
(* Hub.goto_and_center *)

(* Under the lock: the fence, then the one position gate (#888).            *)
CenterLock(t) ==
    /\ go[t] = "entered"
    /\ lock = "free"
    /\ IF ~CommittedClean(t) THEN GoTo(t, Verdict(t, "aborted")) /\ UNCHANGED lock
       ELSE IF ~posKnown THEN GoTo(t, Verdict(t, "unknown")) /\ UNCHANGED lock
       ELSE GoTo(t, "unpark") /\ lock' = t
    /\ UNCHANGED <<rig, fenced, halted>>

CenterUnpark(t) ==
    /\ go[t] = "unpark"
    /\ mount' = AfterUnpark
    /\ GoTo(t, "track")
    /\ UNCHANGED <<roof, posKnown, faults, lock, fenced, halted>>

(* Tracking on, and the lock is released before the centring attempts.      *)
CenterTrack(t) ==
    /\ go[t] = "track"
    /\ mount' = AfterTrackOn
    /\ GoTo(t, "relock")
    /\ lock' = "free"
    /\ UNCHANGED <<roof, posKnown, faults, fenced, halted>>

(* Mutant: the fence is asked before the first slew's setup only. *)
MutCenterSlew(t) ==
    /\ go[t] = "relock"
    /\ lock = "free"
    /\ IF ~posKnown
       THEN GoTo(t, Verdict(t, "unknown")) /\ UNCHANGED <<mount, lock>>
       ELSE /\ lock' = t
            /\ IF JnowMount THEN GoTo(t, "frame") /\ UNCHANGED mount
               ELSE GoTo(t, "arrive") /\ mount' = AfterSlew
    /\ UNCHANGED <<roof, posKnown, faults, fenced, halted>>

(* One centring attempt: lock, fence, gate, then the target in the mount's  *)
(* frame, which for a JNOW mount is an await, and the slew.                 *)
CenterSlew(t) ==
    /\ go[t] = "relock"
    /\ lock = "free"
    /\ IF ~CommittedClean(t)
       THEN GoTo(t, Verdict(t, "aborted")) /\ UNCHANGED <<mount, lock>>
       ELSE IF ~posKnown
       THEN GoTo(t, Verdict(t, "unknown")) /\ UNCHANGED <<mount, lock>>
       ELSE /\ lock' = t
            /\ IF JnowMount THEN GoTo(t, "frame") /\ UNCHANGED mount
               ELSE GoTo(t, "arrive") /\ mount' = AfterSlew
    /\ UNCHANGED <<roof, posKnown, faults, fenced, halted>>

(* The precession's thread is done: nothing is asked again.                 *)
CenterSend(t) ==
    /\ go[t] = "frame"
    /\ GoTo(t, "arrive") /\ mount' = AfterSlew
    /\ UNCHANGED <<roof, posKnown, faults, lock, fenced, halted>>

(* The slew is over. A miss with the fence moved is an abort; otherwise the *)
(* field is solved, and centred or slewed to again.                         *)
CenterArrive(t, next) ==
    /\ go[t] = "arrive"
    /\ mount # "slewing"
    /\ lock' = "free"
    /\ IF mount # "tracking" /\ ~CommittedClean(t)
       THEN GoTo(t, Verdict(t, "aborted")) /\ UNCHANGED mount
       ELSE mount' = AfterTrackOn /\ GoTo(t, next)    \* _retrack_after_missed_goto
    /\ UNCHANGED <<roof, posKnown, faults, fenced, halted>>

CenterDone(t) == CenterArrive(t, Verdict(t, "done"))
CenterAgain(t) == CenterArrive(t, "relock")

CenterNext(t) ==
    CenterLock(t) \/ CenterUnpark(t) \/ CenterTrack(t) \/ CenterSlew(t)
    \/ CenterSend(t) \/ CenterDone(t) \/ CenterAgain(t)

----------------------------------------------------------------------------
(* _plain_goto: the lock is held from the first check to the slew's end.    *)
PlainLock ==
    /\ go["route"] = "pEntered"
    /\ lock = "free"
    /\ IF CommittedClean("route") /\ posKnown
       THEN GoTo("route", "pUnpark") /\ lock' = "route"
       ELSE GoTo("route", "none") /\ UNCHANGED lock
    /\ UNCHANGED <<rig, fenced, halted>>

PlainUnpark ==
    /\ go["route"] = "pUnpark"
    /\ mount' = AfterUnpark
    /\ GoTo("route", "pTrack")
    /\ UNCHANGED <<roof, posKnown, faults, lock, fenced, halted>>

(* Tracking on; the fence, not the position gate, is asked again.           *)
PlainSlew ==
    /\ go["route"] = "pTrack"
    /\ IF CommittedClean("route")
       THEN /\ mount' = IF AfterTrackOn = "parked" THEN "parked" ELSE "slewing"
            /\ GoTo("route", "pArrive")
            /\ UNCHANGED lock
       ELSE /\ mount' = AfterTrackOn
            /\ GoTo("route", "none")
            /\ lock' = "free"
    /\ UNCHANGED <<roof, posKnown, faults, fenced, halted>>

PlainArrive ==
    /\ go["route"] = "pArrive"
    /\ mount # "slewing"
    /\ GoTo("route", "none")
    /\ lock' = "free"
    /\ UNCHANGED <<rig, fenced, halted>>

PlainNext == PlainLock \/ PlainUnpark \/ PlainSlew \/ PlainArrive
=============================================================================

----------------------------- MODULE RecoveryLadder -----------------------------
(* sequence/resume_arm.py, _recover: what is made true again before an armed   *)
(* session is started. A task of its own, awaiting the safety monitor, the     *)
(* focuser, a plate solve, a park, the slew-limit check and the goto one after *)
(* the other; stop_recovery asks it to stop and cancels what it awaits.        *)
EXTENDS SessionRun

VARIABLES
  arm,      \* [on, s, step, stop, result, home, out]: the ladder, "recovering" while on
  events    \* bound: what may still go wrong or be asked by the operator

ladder == <<arm, events>>

NoLadder == [on |-> FALSE, s |-> NoSession, step |-> "none", stop |-> FALSE,
             result |-> "none", home |-> FALSE, out |-> FALSE]

(* The steps that use the camera, the focuser or the mount. *)
Commands == {"autofocus", "solve", "park", "recentre", "repark"}
Awaits == Commands \cup {"safety", "focus", "parked", "limits", "slewing"}

Faulty == events > 0 /\ events' = events - 1
Fine == UNCHANGED events

(* Mutant: only a run that took over ends the ladder. *)
MustStop_RunOnly == Running

(* _must_stop: asked before each step that focuses, exposes or slews. *)
MustStop == arm.stop \/ Running

At(step) == LoopFree /\ arm.on /\ arm.step = step

Return(result) == arm' = [arm EXCEPT !.step = "returned", !.result = result]
Goes(step) == arm' = [arm EXCEPT !.step = step]
GoesUnlessStopped(step) == IF MustStop THEN Return("none") ELSE Goes(step)
StillRig == UNCHANGED <<store, run, section, aborting, route, mount, known>>

(* Before anything moves: something is to be shot tonight, and the safety      *)
(* monitor says safe; no reading, a stale one and unsafe hold.                 *)
Safety ==
  /\ At("safety")
  /\ \/ Goes("focus") /\ Fine
     \/ Return("refused") /\ Faulty
  /\ StillRig

(* Where the mount stands is measured, unless it stands at park and knows it.  *)
Point == GoesUnlessStopped(IF known THEN "parked" ELSE "solve")

(* A focuser that kept its position, or cannot be swept, is left alone. *)
Focus ==
  /\ At("focus")
  /\ \/ Point /\ Fine
     \/ GoesUnlessStopped("autofocus") /\ Fine
  /\ StillRig

Autofocus ==
  /\ At("autofocus")
  /\ \/ Point /\ Fine
     \/ Return("refused") /\ Faulty
  /\ StillRig

(* _mount_is_parked, a read of the mount: one that cannot be made is a no. The *)
(* stop is not asked for again after it.                                       *)
MountIsParked ==
  /\ At("parked")
  /\ \/ /\ mount = "parked"
        /\ arm' = [arm EXCEPT !.step = "limits", !.home = TRUE]
        /\ Fine
     \/ Goes("solve") /\ IF mount = "parked" THEN Faulty ELSE Fine
  /\ StillRig

(* The blind solve and its sync: taken; taken near the pole, or refused, where *)
(* a mount that did not know its position still does not; not to be trusted;   *)
(* or no solve, from which a mount that knows its position is parked.          *)
Solve ==
  /\ At("solve")
  /\ \/ /\ Goes("limits") /\ known' = TRUE /\ Fine
     \/ /\ IF known THEN Goes("limits") ELSE Return("refused")
        /\ UNCHANGED known /\ Faulty
     \/ /\ Return("refused") /\ UNCHANGED known /\ Faulty
     \/ /\ IF known THEN GoesUnlessStopped("park") ELSE Return("refused")
        /\ UNCHANGED known /\ Faulty
  /\ UNCHANGED <<store, run, section, aborting, route, mount>>

(* _park_for_resume: a park that fails, or from an unknown position, holds. *)
Park ==
  /\ At("park")
  /\ \/ /\ known
        /\ arm' = [arm EXCEPT !.step = "limits", !.home = TRUE]
        /\ mount' = "parked" /\ Fine
     \/ /\ Return("refused") /\ UNCHANGED mount
        /\ IF known THEN Faulty ELSE Fine
  /\ UNCHANGED <<store, run, section, aborting, route, known>>

(* The first candidate above its floor and inside the limits is gone to: none  *)
(* may be, or none may be owed. The driver is asked again: the check awaited.  *)
Limits ==
  /\ At("limits")
  /\ \/ Return("refused") /\ Faulty
     \/ Return("fit") /\ Fine
     \/ /\ IF MustStop THEN Return("none")
           ELSE IF known THEN Goes("recentre") ELSE Return("refused")
        /\ Fine
  /\ StillRig

(* goto_and_center has the motion lock: its own gate, and the mount moves. *)
Slew ==
  /\ At("recentre")
  /\ \/ known /\ mount' = "out" /\ arm' = [arm EXCEPT !.step = "slewing", !.out = TRUE]
     \/ ~known /\ Return("refused") /\ UNCHANGED mount
  /\ Fine
  /\ UNCHANGED <<store, run, section, aborting, route, known>>

(* _recentre_hold: an attempt that left the park parks again. *)
RecentreHold == IF arm.home THEN GoesUnlessStopped("repark") ELSE Return("refused")

(* A target centred; or a miss, held. *)
Recentre ==
  /\ At("slewing")
  /\ \/ Return("fit") /\ Fine
     \/ RecentreHold /\ Faulty
  /\ StillRig

(* The operator halted the mount under the goto: disarmed, and left alone.     *)
RecentreHalted ==
  /\ At("slewing") /\ Unlocked /\ Faulty
  /\ disk' = WriteDisarm(disk, arm.s)
  /\ arm' = [arm EXCEPT !.step = "returned", !.result = "halted"]
  /\ UNCHANGED <<worker, night, dark, engine>>

Repark ==
  /\ At("repark")
  /\ \/ known /\ Return("refused") /\ mount' = "parked" /\ Fine
     \/ /\ Return("not parked") /\ UNCHANGED mount
        /\ IF known THEN Faulty ELSE Fine
  /\ UNCHANGED <<store, run, section, aborting, route, known>>

(* stop_recovery: the flag is up; the ladder of another session is left alone. *)
StopRecovery(s) == IF arm.on /\ arm.s = s THEN [arm EXCEPT !.stop = TRUE] ELSE arm

(* The await it cancelled ends there; one that swallows it ends as it would.   *)
Cancelled ==
  /\ LoopFree /\ arm.on /\ arm.stop /\ arm.step \in Awaits
  /\ Return("none")
  /\ Fine /\ StillRig

(* A link that reopened reads its home pole: the position is a default.        *)
LinkReopens ==
  /\ known /\ known' = FALSE
  /\ Faulty
  /\ UNCHANGED <<store, run, section, aborting, route, mount, arm>>
================================================================================

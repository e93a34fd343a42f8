---------------------------- MODULE UpdateSupervisor ----------------------------
(***************************************************************************)
(* supervisor/supervisor.py: Supervisor.run_forever. `spc` is the point in *)
(* the loop; every file write is a step of its own, because the power can  *)
(* fail between two of them and an OSError in one abandons the iteration.  *)
(* The backoff and the length of the probe window are time, and are left   *)
(* out: a probe may time out at any moment.                                *)
(***************************************************************************)
EXTENDS InstallRoot

VARIABLES
  spc,      \* where run_forever stands
  target,   \* the version it launches
  good,     \* its in-memory last_good
  probing,  \* the next health check decides an update
  nv        \* the version read from pending-update.json

sup == <<spc, target, good, probing, nv>>

SupPCs == {"down", "launch", "probe", "commit_good", "commit_result",
           "commit_freeze", "rb_mark", "rb_result", "rb_restore", "rb_restoring",
           "rb_current", "wait", "apply", "stopped"}

SupTypeOK ==
  /\ spc \in SupPCs
  /\ target \in Versions
  /\ good \in Versions
  /\ probing \in BOOLEAN
  /\ nv \in Versions \cup {None}

SupInit ==
  /\ spc = "down"
  /\ target = Initial
  /\ good = Initial
  /\ probing = FALSE
  /\ nv = None

(* `_clear_freeze`: unlink, an OSError is swallowed and the file stays. *)
ClearFreeze ==
  \/ freeze' = None /\ UNCHANGED osErrs
  \/ /\ OsErrorLeft /\ freeze # None
     /\ osErrs' = osErrs + 1
     /\ UNCHANGED freeze

---------------------------------------------------------------------------------
(* Mutant: a first start does not seed last-good. *)
Start_Unseeded ==
  /\ spc \in {"down", "stopped"}
  /\ spc' = "launch"
  /\ target' = current
  /\ good' = lastGood
  /\ probing' = FALSE
  /\ UNCHANGED <<nv, current, lastGood, pending, result, failed, releases, pip,
                 freeze, venv, procs, faults>>

(* Up to the loop: `current` is trusted, and is the first last-good. *)
Start ==
  /\ spc \in {"down", "stopped"}
  /\ spc' = "launch"
  /\ target' = current
  /\ lastGood' = IF lastGood = None THEN current ELSE lastGood
  /\ good' = lastGood'
  /\ probing' = FALSE
  /\ UNCHANGED <<nv, current, pending, result, failed, releases, pip, freeze, venv,
                 procs, faults>>

(* A pointer that cannot be read counts as absent: `current` is then reseeded *)
(* with --initial-version, `last-good` with whatever `current` says.          *)
StartMisread ==
  /\ spc \in {"down", "stopped"}
  /\ OsErrorLeft
  /\ osErrs' = osErrs + 1
  /\ spc' = "launch"
  /\ \/ /\ current' = Initial
        /\ lastGood' = IF lastGood = None THEN Initial ELSE lastGood
     \/ lastGood' = current /\ UNCHANGED current
  /\ target' = current'
  /\ good' = lastGood'
  /\ probing' = FALSE
  /\ UNCHANGED <<nv, pending, result, failed, releases, pip, freeze, venv, procs,
                 losses, crashes>>

Launch ==
  /\ spc = "launch"
  /\ \E p \in Procs :
       /\ pst[p] = "free"
       /\ child' = p
       /\ pst' = [pst EXCEPT ![p] = "booting"]
       /\ pver' = [pver EXCEPT ![p] = target]
  /\ spc' = IF probing THEN "probe" ELSE "wait"
  /\ UNCHANGED <<target, good, probing, nv, disk, code, port, faults>>

(* `_real_health`: whoever listens answers, with the version it runs. *)
Health(v) == port # None /\ pver[port] = v

(* Mutant: a child that is alive counts as healthy. *)
ProbeHealthy_Alive ==
  /\ spc = "probe"
  /\ Alive(child)
  /\ spc' = "commit_good"
  /\ UNCHANGED <<target, good, probing, nv, disk, procs, faults>>

(* `_await_health` polls the child before it asks for its health. *)
ProbeHealthy ==
  /\ spc = "probe"
  /\ Alive(child)
  /\ Health(target)
  /\ spc' = "commit_good"
  /\ UNCHANGED <<target, good, probing, nv, disk, procs, faults>>

(* Mutant: the unhealthy child is not terminated. *)
ProbeUnhealthy_NoKill ==
  /\ spc = "probe"
  /\ spc' = "rb_mark"
  /\ child' = None
  /\ UNCHANGED <<target, good, probing, nv, disk, pst, pver, code, port, faults>>

(* The child died or the window closed; `_safe_terminate` kills and reaps it. *)
ProbeUnhealthy ==
  /\ spc = "probe"
  /\ spc' = "rb_mark"
  /\ pst' = [pst EXCEPT ![child] = "free"]
  /\ port' = IF port = child THEN None ELSE port
  /\ child' = None
  /\ UNCHANGED <<target, good, probing, nv, disk, pver, code, faults>>

CommitLastGood ==
  /\ spc = "commit_good"
  /\ lastGood' = target
  /\ good' = target
  /\ spc' = "commit_result"
  /\ UNCHANGED <<target, probing, nv, current, pending, result, failed, releases, pip,
                 freeze, venv, procs, faults>>

CommitResult ==
  /\ spc = "commit_result"
  /\ result' = [ok |-> TRUE, version |-> target]
  /\ spc' = "commit_freeze"
  /\ UNCHANGED <<target, good, probing, nv, current, lastGood, pending, failed,
                 releases, pip, freeze, venv, procs, faults>>

CommitFreeze ==
  /\ spc = "commit_freeze"
  /\ ClearFreeze
  /\ probing' = FALSE
  /\ spc' = "wait"
  /\ UNCHANGED <<target, good, nv, current, lastGood, pending, result, failed,
                 releases, pip, venv, procs, losses, crashes>>

RollbackMark ==
  /\ spc = "rb_mark"
  /\ failed' = failed \cup {target}
  /\ spc' = "rb_result"
  /\ UNCHANGED <<target, good, probing, nv, current, lastGood, pending, result,
                 releases, pip, freeze, venv, procs, faults>>

RollbackResult ==
  /\ spc = "rb_result"
  /\ result' = [ok |-> FALSE, version |-> target]
  /\ spc' = "rb_restore"
  /\ UNCHANGED <<target, good, probing, nv, current, lastGood, pending, failed,
                 releases, pip, freeze, venv, procs, faults>>

(* `_restore_venv` runs pip: the environment is Mixed until pip is done. *)
RestoreBegin ==
  /\ spc = "rb_restore"
  /\ \/ freeze = None /\ spc' = "rb_current" /\ UNCHANGED <<venv, osErrs>>
     \/ freeze # None /\ spc' = "rb_restoring" /\ venv' = Mixed /\ UNCHANGED osErrs
     \/ /\ freeze # None /\ OsErrorLeft   \* the snapshot cannot be read
        /\ osErrs' = osErrs + 1
        /\ spc' = "rb_current"
        /\ UNCHANGED venv
  /\ UNCHANGED <<target, good, probing, nv, current, lastGood, pending, result,
                 failed, releases, pip, freeze, procs, losses, crashes>>

RestoreEnd ==
  /\ spc = "rb_restoring"
  /\ venv' = IF pip = None THEN freeze ELSE Mixed
  /\ ClearFreeze
  /\ spc' = "rb_current"
  /\ UNCHANGED <<target, good, probing, nv, current, lastGood, pending, result,
                 failed, releases, pip, procs, losses, crashes>>

(* A failed restore is logged, and the snapshot is dropped all the same. *)
RestoreFails ==
  /\ spc = "rb_restoring"
  /\ OsErrorLeft
  /\ osErrs' = osErrs + 1
  /\ freeze' = None
  /\ spc' = "rb_current"
  /\ UNCHANGED <<target, good, probing, nv, current, lastGood, pending, result,
                 failed, releases, pip, venv, procs, losses, crashes>>

(* Mutant: the pointer goes back, the loop's own target does not. *)
RollbackCurrent_KeepsTarget ==
  /\ spc = "rb_current"
  /\ current' = good
  /\ probing' = FALSE
  /\ spc' = "launch"
  /\ UNCHANGED <<target, good, nv, lastGood, pending, result, failed, releases, pip,
                 freeze, venv, procs, faults>>

RollbackCurrent ==
  /\ spc = "rb_current"
  /\ current' = good
  /\ target' = good
  /\ probing' = FALSE
  /\ spc' = "launch"
  /\ UNCHANGED <<good, nv, lastGood, pending, result, failed, releases, pip, freeze,
                 venv, procs, faults>>

(* `proc.wait()` returns. On exit 92 the pending update is read and removed. *)
ChildExits ==
  /\ spc = "wait"
  /\ child # None /\ pst[child] = "exited"
  /\ pst' = [pst EXCEPT ![child] = "free"]
  /\ child' = None
  /\ \/ /\ code[child] = "stop"
        /\ spc' = "stopped"
        /\ UNCHANGED <<nv, pending, osErrs>>
     \/ /\ code[child] = "crash"
        /\ spc' = "launch"
        /\ UNCHANGED <<nv, pending, osErrs>>
     \/ /\ code[child] = "apply"
        /\ spc' = "apply"
        /\ nv' = pending
        /\ \/ pending' = None /\ UNCHANGED osErrs
           \/ OsErrorLeft /\ osErrs' = osErrs + 1 /\ UNCHANGED pending
  /\ UNCHANGED <<target, good, probing, current, lastGood, result, failed,
                 releases, pip, freeze, venv, pver, code, port, losses, crashes>>

(* Mutant: a version that failed before is tried again. *)
Applicable_Retry(v) == v # None /\ v \in releases

Applicable(v) == v # None /\ v \notin failed /\ v \in releases

(* Mutant: the new version is started without probation. *)
ApplyPending_NoProbe ==
  /\ spc = "apply"
  /\ Applicable(nv)
  /\ current' = nv
  /\ target' = nv
  /\ spc' = "launch"
  /\ UNCHANGED <<good, probing, nv, lastGood, pending, result, failed, releases, pip,
                 freeze, venv, procs, faults>>

ApplyPending ==
  /\ spc = "apply"
  /\ Applicable(nv)
  /\ current' = nv
  /\ target' = nv
  /\ probing' = TRUE
  /\ spc' = "launch"
  /\ UNCHANGED <<good, nv, lastGood, pending, result, failed, releases, pip, freeze,
                 venv, procs, faults>>

(* Mutant: a refused request is not reported. *)
RejectPending_Silent ==
  /\ spc = "apply"
  /\ ~Applicable(nv)
  /\ spc' = "launch"
  /\ UNCHANGED <<target, good, probing, nv, disk, procs, faults>>

RejectPending ==
  /\ spc = "apply"
  /\ ~Applicable(nv)
  /\ spc' = "launch"
  /\ IF nv # None
     THEN result' = [ok |-> FALSE, version |-> nv] /\ ClearFreeze
     ELSE UNCHANGED <<result, freeze, osErrs>>
  /\ UNCHANGED <<target, good, probing, nv, current, lastGood, pending, failed,
                 releases, pip, venv, procs, losses, crashes>>

(* `except (OSError, SubprocessError)`: log, back off, next iteration. The   *)
(* iteration's local state stays as it was, and so does a process it had     *)
(* already launched: only the handle on it is gone.                          *)
ContainError ==
  /\ OsErrorLeft
  /\ \/ spc \in {"commit_good", "commit_result", "rb_mark", "rb_result", "rb_current"}
     \/ spc = "apply" /\ nv # None
     \/ spc = "launch"
  /\ osErrs' = osErrs + 1
  /\ spc' = "launch"
  /\ child' = None
  /\ pst' = [p \in Procs |-> IF p = child /\ pst[p] = "exited" THEN "free" ELSE pst[p]]
  /\ UNCHANGED <<target, good, probing, nv, disk, pver, code, port, losses, crashes>>

SupNext ==
  \/ Start \/ StartMisread \/ Launch \/ ProbeHealthy \/ ProbeUnhealthy
  \/ CommitLastGood \/ CommitResult \/ CommitFreeze
  \/ RollbackMark \/ RollbackResult \/ RestoreBegin \/ RestoreEnd \/ RestoreFails
  \/ RollbackCurrent \/ ChildExits \/ ApplyPending \/ RejectPending \/ ContainError
=================================================================================

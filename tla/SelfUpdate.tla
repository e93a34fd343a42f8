------------------------------- MODULE SelfUpdate -------------------------------
(***************************************************************************)
(* The supervisor and the server together, on one install root, with power *)
(* losses.                                                                 *)
(***************************************************************************)
EXTENDS UpdateSupervisor, UpdateService

vars == <<disk, procs, faults, sup, svc>>

(* Everything that runs is gone; the files are as the last atomic write or *)
(* rename left them (`write_text_atomic`, `write_json_atomic`).            *)
PowerLoss ==
  /\ losses < MaxPowerLosses
  /\ spc # "down"
  /\ losses' = losses + 1
  /\ spc' = "down"
  /\ pst' = [p \in Procs |-> "free"]
  /\ port' = None
  /\ child' = None
  /\ pip' = None
  /\ UNCHANGED <<current, lastGood, pending, result, failed, releases, freeze, venv,
                 pver, code, osErrs, crashes, target, good, probing, nv, svc>>

Init == RootInit /\ SupInit /\ SvcInit

Next ==
  \/ SupNext /\ UNCHANGED svc
  \/ SvcNext /\ UNCHANGED sup
  \/ PowerLoss

Spec == Init /\ [][Next]_vars

(* A process that can come up does, one that cannot fails; the supervisor, *)
(* pip and the awaits of the pipeline go on. Nothing is assumed of the     *)
(* operator, of faults, of new releases, or of a supervisor that was       *)
(* stopped: systemd restarts it only after a power loss.                   *)
Boot(p) == (Fit(p) /\ BootUp(p)) \/ BootFail(p)
FairSpec ==
  /\ Spec
  /\ WF_vars(spc = "down" /\ Start /\ UNCHANGED svc)
  /\ WF_vars(SupNext /\ spc \notin {"down", "stopped", "probe"} /\ UNCHANGED svc)
  /\ WF_vars((ProbeHealthy \/ ProbeUnhealthy) /\ UNCHANGED svc)
  /\ \A p \in Procs : WF_vars(Boot(p) /\ UNCHANGED sup)
  /\ WF_vars((Pipeline \/ WatchResult) /\ UNCHANGED sup)

---------------------------------------------------------------------------------
TypeOK == RootTypeOK /\ SupTypeOK /\ SvcTypeOK

(* protocol.py:16, "last version that passed health-check": the version a   *)
(* rollback goes to, on disk and in the supervisor's memory, is never one   *)
(* that cannot come up.                                                     *)
RollbackTargetHealthy ==
  /\ good \notin Broken
  /\ lastGood # None => lastGood \notin Broken

(* The rollback target is never a version marked failed: no order of commit,*)
(* rollback, restart and re-offer makes the two files disagree.             *)
LastGoodNotFailed == lastGood \notin failed

(* supervisor.py:141-145: there is never a server the supervisor does not   *)
(* hold a handle on, so none is left running unwatched.                     *)
Supervised == \A p \in Procs : Alive(p) => p = child

(* The tree `current` names is staged whenever the supervisor starts it:    *)
(* stage_release, which removes a tree before it writes it, never takes it  *)
(* away.                                                                    *)
CurrentStaged == current \in releases

(* Whatever OS call fails in the middle of an iteration, to be caught at     *)
(* its end (supervisor.py:230), the versions the install root names stay     *)
(* usable: the one to roll back to comes up, and the one to start is there.  *)
ReleasesUsable == RollbackTargetHealthy /\ CurrentStaged

(* "never retried" (protocol.py:19): a version marked failed is not started.*)
FailedNeverLaunched ==
  [][\A p \in Procs : pst[p] = "free" /\ pst'[p] = "booting" => pver'[p] \notin failed]_vars

(* design spec section 1, "a bad release can't brick the scope": a release  *)
(* that cannot come up is only ever started on probation, where the failed  *)
(* health check rolls it back; started without one it would be relaunched   *)
(* for ever.                                                                *)
BrokenOnlyOnProbation == [][Launch /\ target \in Broken => probing]_vars

(* supervisor.py:200-204: a requested apply is answered, by a result for    *)
(* that version, whatever the supervisor decides.                           *)
ApplyAnswered ==
  \A v \in Versions :
    (spc = "apply" /\ nv = v) ~> (result # None /\ result.version = v)

(* The watchdog's whole job (supervisor.py:141): after any failure a server *)
(* listens again, unless the operator stopped it.                           *)
Recovers == []<>(Serving \/ spc = "stopped")
=================================================================================

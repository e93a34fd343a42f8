------------------------------ MODULE UpdateService ------------------------------
(***************************************************************************)
(* The server's side of an update: update/service.py UpdateService.apply,  *)
(* update/stage.py, and the boot and exit of a server process.             *)
(*                                                                         *)
(* `job` is where the one apply pipeline of the listening server stands:   *)
(* _spawn runs one task in the "system.update" lane. It is read only while *)
(* a server listens, and a server starts with it "idle".                   *)
(***************************************************************************)
EXTENDS InstallRoot

VARIABLES
  job,       \* the await the apply pipeline is at
  offer,     \* the release the pipeline works on
  latest,    \* the newest release published on GitHub
  rig,       \* "idle" or "busy": hub.restart_blocker, a run or a motion
  watching,  \* _watch_result polls for a result
  shown      \* update_state.last_result

svc == <<job, offer, latest, rig, watching, shown>>

Jobs == {"idle", "downloading", "staging", "staged", "pending", "frozen",
         "reconciling", "exiting"}

SvcTypeOK ==
  /\ job \in Jobs
  /\ offer \in Versions
  /\ latest \in Versions
  /\ rig \in {"idle", "busy"}
  /\ watching \in BOOLEAN
  /\ shown \in Results \cup {None}

SvcInit ==
  /\ job = "idle"
  /\ offer = Initial
  /\ latest = Initial
  /\ rig = "idle"
  /\ watching = FALSE
  /\ shown = None

Serving == port # None
pipeline == <<offer, latest, rig, watching, shown>>

---------------------------------------------------------------------------------
(* Boot and exit of server processes. *)

Fit(p) == /\ pver[p] \notin Broken
          /\ pver[p] \in releases
          /\ venv = Deps[pver[p]]

(* A build may also come up on dependencies it was not shipped with.       *)
(* `load_boot_result` consumes the result, or watches for one to appear.   *)
BootUp(p) ==
  /\ pst[p] = "booting"
  /\ port = None
  /\ pver[p] \notin Broken /\ pver[p] \in releases
  /\ pst' = [pst EXCEPT ![p] = "up"]
  /\ port' = p
  /\ job' = "idle"
  /\ rig' = "idle"
  /\ shown' = result
  /\ watching' = (result = None)
  /\ result' = None
  /\ UNCHANGED <<offer, latest, current, lastGood, pending, failed, releases,
                 freeze, venv, pip, pver, code, child, faults>>

(* The build cannot start: broken, missing, wrong dependencies, or the port *)
(* is taken.                                                                *)
BootFail(p) ==
  /\ pst[p] = "booting"
  /\ ~Fit(p) \/ port # None
  /\ Exit(p, "crash")
  /\ UNCHANGED <<disk, svc, faults>>

Crash(p) ==
  /\ Alive(p)
  /\ crashes < MaxCrashes
  /\ crashes' = crashes + 1
  /\ Exit(p, "crash")
  /\ UNCHANGED <<disk, svc, osErrs, losses>>

(* A clean stop joins the threads that stage or run pip. Once code 92 is    *)
(* armed, `consume_exit_code` answers it to any clean stop.                 *)
OperatorStop ==
  /\ Serving /\ job # "exiting" /\ pip = None
  /\ Exit(port, "stop")
  /\ releases' = IF job = "staging" THEN releases \cup {offer} ELSE releases
  /\ UNCHANGED <<svc, current, lastGood, pending, result, failed, freeze, venv,
                 pip, faults>>

WatchResult ==
  /\ Serving /\ watching
  /\ result # None
  /\ shown' = result
  /\ result' = None
  /\ watching' = FALSE
  /\ UNCHANGED <<job, offer, latest, rig, current, lastGood, pending, failed,
                 releases, freeze, venv, pip, procs, faults>>

WatchExpires ==
  /\ Serving /\ watching
  /\ watching' = FALSE
  /\ UNCHANGED <<job, offer, latest, rig, shown, disk, procs, faults>>

---------------------------------------------------------------------------------
(* The world: releases appear, and the operator uses the rig. *)

Publish ==
  /\ \E v \in Versions : v > latest /\ latest' = v
  /\ UNCHANGED <<job, offer, rig, watching, shown, disk, procs, faults>>

UseRig ==
  /\ Serving
  /\ rig' = IF rig = "idle" THEN "busy" ELSE "idle"
  /\ UNCHANGED <<job, offer, latest, watching, shown, disk, procs, faults>>

---------------------------------------------------------------------------------
(* UpdateService.apply, one step per await. *)

(* Mutant: the running release is offered again. *)
Newer_OrSame(v) == v >= pver[port]

(* `pick_release`: only a release strictly newer than the running one. A   *)
(* version that failed here before is offered again.                       *)
Newer(v) == v > pver[port]

Apply ==
  /\ Serving /\ job = "idle"
  /\ rig = "idle"
  /\ Newer(latest)
  /\ offer' = latest
  /\ job' = "downloading"
  /\ UNCHANGED <<latest, rig, watching, shown, disk, procs, faults>>

(* Verified: `stage_release` begins by removing a tree of the same version. *)
StageBegin ==
  /\ Serving /\ job = "downloading"
  /\ releases' = releases \ {offer}
  /\ job' = "staging"
  /\ UNCHANGED <<pipeline, current, lastGood, pending, result, failed, freeze,
                 venv, pip, procs, faults>>

(* ... and ends with the rename of a complete tree. *)
StageEnd ==
  /\ Serving /\ job = "staging"
  /\ releases' = releases \cup {offer}
  /\ job' = "staged"
  /\ UNCHANGED <<pipeline, current, lastGood, pending, result, failed, freeze,
                 venv, pip, procs, faults>>

(* "POINT OF NO RETURN": the idle gate is read again, then the request is  *)
(* written.                                                                *)
WritePending ==
  /\ Serving /\ job = "staged"
  /\ rig = "idle"
  /\ pending' = offer
  /\ job' = "pending"
  /\ UNCHANGED <<pipeline, current, lastGood, result, failed, releases, freeze,
                 venv, pip, procs, faults>>

(* `snapshot_env` answers None when pip freeze fails: no file is written,  *)
(* and an older one is left in place.                                      *)
Snapshot ==
  /\ Serving /\ job = "pending"
  /\ job' = "frozen"
  /\ \/ freeze' = venv /\ UNCHANGED osErrs
     \/ OsErrorLeft /\ osErrs' = osErrs + 1 /\ UNCHANGED freeze
  /\ UNCHANGED <<pipeline, current, lastGood, pending, result, failed, releases,
                 venv, pip, procs, losses, crashes>>

ReconcileBegin ==
  /\ Serving /\ job = "frozen"
  /\ pip' = offer
  /\ venv' = Mixed
  /\ job' = "reconciling"
  /\ UNCHANGED <<pipeline, current, lastGood, pending, result, failed, releases,
                 freeze, procs, faults>>

(* pip is a process of its own: it also runs on after the server is gone.  *)
PipDone ==
  /\ pip # None
  /\ pip' = None
  /\ venv' = Deps[pip]
  /\ UNCHANGED <<svc, current, lastGood, pending, result, failed, releases, freeze,
                 procs, faults>>

PipFails ==
  /\ pip # None
  /\ OsErrorLeft
  /\ osErrs' = osErrs + 1
  /\ pip' = None
  /\ UNCHANGED <<svc, current, lastGood, pending, result, failed, releases, freeze,
                 venv, procs, losses, crashes>>

(* Reconciled or not, the server is asked to leave with code 92. *)
RequestApplyExit ==
  /\ Serving /\ job = "reconciling"
  /\ pip = None
  /\ job' = "exiting"
  /\ UNCHANGED <<pipeline, disk, procs, faults>>

ExitApply ==
  /\ Serving /\ job = "exiting"
  /\ Exit(port, "apply")
  /\ UNCHANGED <<disk, svc, faults>>

(* UpdateError or an exception: the download or the verification failed,   *)
(* the gate found the rig busy, a file could not be written.               *)
AbortApply ==
  /\ Serving
  /\ \/ job = "downloading"
     \/ job = "staged" /\ rig = "busy"
     \/ job \in {"staging", "staged", "pending"} /\ OsErrorLeft
  /\ osErrs' = IF job = "downloading" \/ (job = "staged" /\ rig = "busy")
               THEN osErrs ELSE osErrs + 1
  /\ job' = "idle"
  /\ UNCHANGED <<pipeline, disk, procs, losses, crashes>>

(* `hub._teardown` (a profile switch) cancels every lane. The thread that   *)
(* stages, and pip, cannot be cancelled and run to their end.              *)
CancelApply ==
  /\ Serving /\ job \notin {"idle", "exiting"}
  /\ crashes < MaxCrashes
  /\ crashes' = crashes + 1
  /\ releases' = IF job = "staging" THEN releases \cup {offer} ELSE releases
  /\ job' = "idle"
  /\ UNCHANGED <<pipeline, current, lastGood, pending, result, failed, freeze,
                 venv, pip, procs, osErrs, losses>>

Pipeline == \/ StageBegin \/ StageEnd \/ WritePending \/ Snapshot \/ ReconcileBegin
            \/ PipDone \/ PipFails \/ RequestApplyExit \/ ExitApply \/ AbortApply

SvcNext ==
  \/ \E p \in Procs : BootUp(p) \/ BootFail(p) \/ Crash(p)
  \/ OperatorStop \/ WatchResult \/ WatchExpires
  \/ Publish \/ UseRig \/ Apply \/ CancelApply \/ Pipeline
=================================================================================

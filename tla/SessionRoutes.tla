------------------------------ MODULE SessionRoutes ------------------------------
(* api/app.py: what an operator asks of the sessions. PATCH works on a worker  *)
(* thread, under the store's lock from its read to its save; the other routes  *)
(* are on the event loop, whole between two awaits.                            *)
EXTENDS ResumeArm

VARIABLES
  grade,      \* PATCH .../frames/{id} between its read and its save: [s, file]
  teardown    \* POST /disconnect: "no", "wait" for the ladder or "abort" for the run

routes == <<grade, teardown>>

NoGrade == [s |-> NoSession, file |-> Missing]

RoutesInit ==
  grade = NoGrade /\ teardown = "no"

Asked == Faulty

Unfinished == {s \in Sessions : disk[s].status \in {"dormant", "active"}}

Takes(op, s) ==
  CASE op = "arm" -> s \in Unfinished
    [] op = "disarm" -> s \in Unfinished /\ disk[s].auto
    [] op = "abandon" -> disk[s].status \in {"dormant", "complete"}
    [] op = "queue" -> disk[s].status = "dormant" /\ disk[s].behind = NoSession
    [] op = "dequeue" -> disk[s].behind # NoSession

(* Disarmed, abandoned or losing its switch to another: the ladder is stopped. *)
Stops(op, s) ==
  CASE op \in {"disarm", "abandon"} -> StopRecovery(s)
    [] op = "arm" /\ arm.on /\ arm.s # s /\ disk[arm.s].auto -> StopRecovery(arm.s)
    [] OTHER -> arm

(* patch_session: the lock taken, the session read, the ladder stopped, *)
Patch(op, s) ==
  /\ Asked /\ Unlocked /\ Takes(op, s)
  /\ worker' = [op |-> op, s |-> s]
  /\ arm' = Stops(op, s)
  /\ UNCHANGED <<disk, night, dark, engine, service, grade, teardown>>

(* the one it is to wait behind: the run's, else the armed one *)
Behind(s) == IF run.phase = "live" THEN {run.s} \ {s} ELSE ArmedSessions \ {s}

Queued(s, b) ==
  [t \in Sessions |-> [disk[t] EXCEPT !.behind = IF t = s THEN b
                                                 ELSE IF @ = b THEN NoSession ELSE @]]

Patched ==
  LET s == worker.s IN
  CASE worker.op = "arm" -> {ArmExclusively([disk EXCEPT ![s].behind = NoSession], s)}
    [] worker.op = "disarm" -> {[disk EXCEPT ![s].auto = FALSE]}
    [] worker.op = "abandon" ->
         {[disk EXCEPT ![s].status = "abandoned", ![s].auto = FALSE, ![s].behind = NoSession]}
    [] worker.op = "dequeue" -> {[disk EXCEPT ![s].behind = NoSession]}
    [] worker.op = "queue" -> IF Behind(s) = {} THEN {disk} ELSE {Queued(s, b) : b \in Behind(s)}

(* and the session saved. *)
PatchSaves ==
  /\ ~Unlocked
  /\ disk' \in Patched
  /\ worker' = Idle
  /\ UNCHANGED <<night, dark, engine, ladder, service, grade, teardown>>

(* patch_session_frame: not of a running session, as it was read. *)
Regrade(s) ==
  /\ Asked /\ grade = NoGrade /\ Unlocked
  /\ disk[s].status \in {"dormant", "complete"} /\ disk[s].frames > 0
  /\ grade' = [s |-> s, file |-> disk[s]]
  /\ UNCHANGED <<store, engine, arm, service, teardown>>

RegradeSaves ==
  /\ grade # NoGrade /\ Unlocked
  /\ disk' = [disk EXCEPT ![grade.s] = grade.file]
  /\ grade' = NoGrade
  /\ UNCHANGED <<worker, night, dark, engine, ladder, service, teardown>>

(* delete_session: read again, judged and unlinked in one locked section. *)
Delete(s) ==
  /\ Asked /\ LoopFree /\ Unlocked
  /\ disk[s].status \notin {"none", "active"} /\ ~(run.phase = "live" /\ run.s = s)
  /\ arm' = StopRecovery(s)
  /\ disk' = [disk EXCEPT ![s] = Missing]
  /\ UNCHANGED <<worker, night, dark, engine, service, grade, teardown>>

(* resume_session: the session is read, *)
ResumeAsked(s) ==
  /\ Asked /\ LoopFree /\ route = NoRoute
  /\ disk[s].status = "dormant"
  /\ route' = [s |-> s, file |-> disk[s]]
  /\ UNCHANGED <<store, run, section, aborting, mount, known, arm, service,
                 grade, teardown>>

(* Mutant: the ladder is not asked about. *)
RefuseWhileRecovering_Not == FALSE

(* _refuse_while_resume_recovers, with no await before the start. *)
RefuseWhileRecovering == arm.on

(* its sky is checked, and what was read is started; 409 while the ladder or a *)
(* run goes.                                                                   *)
ResumeStarts ==
  /\ LoopFree /\ route # NoRoute
  /\ route' = NoRoute
  /\ IF RefuseWhileRecovering \/ Running \/ ~connected
     THEN UNCHANGED section
     ELSE StartRead(route.s, route.file)
  /\ UNCHANGED <<store, run, aborting, mount, known, ladder, service, grade, teardown>>

(* Run, and its CONTINUE: read again and started under the lock, or a new one. *)
Continue(s) ==
  /\ Asked /\ LoopFree /\ connected /\ ~RefuseWhileRecovering
  /\ disk[s].status \in {"none", "dormant"}
  /\ StartLocked(s, "hand")
  /\ UNCHANGED <<arm, service, grade, teardown>>

(* stop_recovery with disarm, as Abort and the teardowns ask it. *)
StopAndDisarm ==
  /\ arm' = [arm EXCEPT !.stop = arm.on]
  /\ IF arm.on THEN Unlocked /\ disk' = WriteDisarm(disk, arm.s) ELSE UNCHANGED disk

(* engine.abort; a second one is nothing. *)
AbortRun == aborting' = IF aborting # "no" THEN aborting ELSE IF Running THEN "task" ELSE "tail"

Abort ==
  /\ Asked /\ LoopFree
  /\ StopAndDisarm /\ AbortRun
  /\ UNCHANGED <<worker, night, dark, run, section, route, mount, known, service,
                 grade, teardown>>

Disconnect ==
  /\ Asked /\ LoopFree /\ teardown = "no"
  /\ StopAndDisarm
  /\ teardown' = "wait"
  /\ UNCHANGED <<worker, night, dark, engine, service, grade>>

(* wait_stopped *)
WaitStopped == ~arm.on

(* LADDER_STOP_WAIT_S passes first: 409, and nothing is torn down. *)
DisconnectRefused ==
  /\ LoopFree /\ teardown = "wait" /\ arm.on
  /\ teardown' = "no"
  /\ UNCHANGED <<store, engine, ladder, service, grade>>

DisconnectAborts ==
  /\ LoopFree /\ teardown = "wait" /\ WaitStopped /\ Running /\ aborting = "no"
  /\ AbortRun
  /\ teardown' = "abort"
  /\ UNCHANGED <<store, run, section, route, mount, known, ladder, service, grade>>

(* disconnect_all, at once when there is no run, or an abort already under way. *)
TearDown ==
  /\ LoopFree /\ teardown = "wait" /\ WaitStopped
  /\ ~Running \/ aborting # "no"
  /\ teardown' = "no" /\ connected' = FALSE
  /\ UNCHANGED <<store, engine, ladder, backoff, stowed, stowing, grade>>

(* The rest of abort: it finalizes the run it finds, one that has started      *)
(* since, which goes on with its session let go. A disconnect that awaited it  *)
(* goes on.                                                                    *)
AbortReturns ==
  /\ LoopFree /\ Unlocked /\ aborting = "tail"
  /\ aborting' = "no"
  /\ IF run.phase = "live"
     THEN disk' = [disk EXCEPT ![run.s] = Final("aborted")] /\ LetGo
     ELSE UNCHANGED <<disk, run>>
  /\ connected' = (connected /\ teardown # "abort")
  /\ teardown' = IF teardown = "abort" THEN "no" ELSE teardown
  /\ UNCHANGED <<worker, night, dark, section, route, mount, known, ladder,
                 backoff, stowed, stowing, grade>>

Connect ==
  /\ LoopFree /\ ~connected /\ teardown = "no"
  /\ connected' = TRUE
  /\ UNCHANGED <<store, engine, ladder, backoff, stowed, stowing, routes>>

(* Trust position. *)
TrustPosition ==
  /\ Asked /\ ~known /\ known' = TRUE
  /\ UNCHANGED <<store, run, section, aborting, route, mount, arm, service,
                 grade, teardown>>
================================================================================

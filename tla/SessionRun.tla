------------------------------- MODULE SessionRun -------------------------------
(* The run's side of a session, sequence/engine.py: start takes a session and  *)
(* arms it, every frame banked is written, _finalize_report decides what the   *)
(* session is after the run. All of it is on the event loop. What is not under *)
(* write_locked is a read and a later write (section): no other step of the    *)
(* loop comes between the two, a PATCH on its worker thread may.               *)
EXTENDS SessionStore

VARIABLES
  run,        \* [phase, s, mem, by]: phase "off", "live" or, its session let go, "winding"
  section,    \* [kind, s, seen, file, by]: the loop, between an unlocked read and its write
  aborting,   \* abort: "no", "task" while it awaits the run's end, "tail" after or without it
  route,      \* POST /sessions/{id}/resume in its pre-flight: [s, file]
  mount,      \* "parked" or "out"
  known       \* the driver vouches for the mount's position

engine == <<run, section, aborting, route, mount, known>>

NoRun == [phase |-> "off", s |-> NoSession, mem |-> Missing, by |-> "hand"]
NoSection == [kind |-> "none", s |-> NoSession, seen |-> <<>>, file |-> Missing, by |-> "hand"]
NoRoute == [s |-> NoSession, file |-> Missing]

RunInit ==
  /\ run = NoRun /\ section = NoSection /\ aborting = "no" /\ route = NoRoute
  /\ mount = "parked" /\ known \in BOOLEAN

Running == run.phase # "off"

(* The loop is free to take another step. *)
LoopFree == section.kind = "none"

(* The session as start writes it. *)
Started(f) == [f EXCEPT !.status = "active", !.auto = TRUE, !.behind = NoSession, !.last = night]

StartRun(s, f, by) ==
  /\ run' = [phase |-> "live", s |-> s, mem |-> Started(f), by |-> by]
  /\ mount' = "out"

(* start, called with the lock held on a session just read again.              *)
StartLocked(s, by) ==
  /\ Unlocked /\ ~Running
  /\ StartRun(s, disk[s], by)
  /\ disk' = [ArmExclusively(disk, s) EXCEPT ![s] = Started(disk[s])]
  /\ UNCHANGED <<worker, night, dark, section, aborting, route, known>>

(* start, called without: the other sessions are read, *)
StartRead(s, f) ==
  /\ ~Running
  /\ section' = [kind |-> "start", s |-> s, seen |-> disk, file |-> f, by |-> "hand"]

(* and those that were armed are written back, disarmed; then the session.     *)
StartSave ==
  /\ section.kind = "start" /\ Unlocked
  /\ LET s == section.s IN
     /\ disk' = [t \in Sessions |->
                   CASE t = s -> Started(section.file)
                     [] t # s /\ section.seen[t].auto -> [section.seen[t] EXCEPT !.auto = FALSE]
                     [] OTHER -> disk[t]]
     /\ StartRun(s, section.file, section.by)
  /\ section' = NoSection
  /\ UNCHANGED <<worker, night, dark, aborting, route, known>>

(* save_run_state: the operator owns auto_resume, the run all the rest.        *)
SaveRunState(f) == [f EXCEPT !.auto = disk[run.s].auto]

OwesFrames == Owed(run.mem) > 0

(* A frame is in the ledger. *)
FrameBanked ==
  /\ LoopFree /\ Unlocked /\ run.phase = "live" /\ aborting # "task"
  /\ OwesFrames
  /\ LET f == SaveRunState([run.mem EXCEPT !.frames = @ + 1]) IN
     /\ run' = [run EXCEPT !.mem = f]
     /\ disk' = [disk EXCEPT ![run.s] = f]
  /\ UNCHANGED <<worker, night, dark, section, aborting, route, mount, known>>

(* How a run ends: all its frames taken; at dawn, its stop time or a time      *)
(* bound; short of frames; unsafe, for quality, cooling or a shutdown; with    *)
(* the position unknown; on an error; by abort.                                *)
Reasons == {"complete", "dawn_cutoff", "incomplete", "stopped", "position_unknown", "error", "aborted"}
Possible(reason) ==
  /\ reason = "aborted" <=> aborting = "task"
  /\ reason = "incomplete" => OwesFrames
  /\ reason = "complete" => Owed(run.mem) = 0

(* Mutant: an abort leaves the session armed. *)
KeepsArming_Abort(reason, f) ==
  /\ f.status # "complete"
  /\ reason # "position_unknown"
  /\ ~(reason \in {"dawn_cutoff", "incomplete"} /\ run.s \in SingleNight)

KeepsArming(reason, f) ==
  /\ f.status # "complete"
  /\ reason \notin {"aborted", "position_unknown"}
  /\ ~(reason \in {"dawn_cutoff", "incomplete"} /\ run.s \in SingleNight)

Crashes(reason, n) == IF reason = "error" THEN n + 1 ELSE 0

(* The session as the run leaves it, its arming as the file had it.            *)
Final(reason) ==
  LET f == [run.mem EXCEPT !.auto = disk[run.s].auto,
              !.status = IF reason = "complete" /\ Owed(run.mem) = 0 THEN "complete" ELSE "dormant",
              !.crashes = Crashes(reason, @)]
  IN [f EXCEPT !.auto = @ /\ KeepsArming(reason, f)]

(* _promote_queued: the session that waited for this one is armed.             *)
Waiting(d, s) == {t \in Sessions : d[t].behind = s /\ d[t].status = "dormant"}

Promoted(d, s) ==
  IF Waiting(d, s) = {} THEN d
  ELSE LET t == CHOOSE t \in Waiting(d, s) : TRUE
       IN ArmExclusively([d EXCEPT ![t].behind = NoSession], t)

(* _planned_ending: only an ending the plan asked for arms the next session.   *)
Planned(reason, f) == f.status = "complete" \/ reason = "dawn_cutoff"

(* _finalize_report: the operator's field is adopted, *)
FinalizeRead(reason) ==
  /\ LoopFree /\ run.phase = "live"
  /\ Possible(reason)
  /\ section' = [kind |-> "finalize", s |-> run.s, seen |-> <<>>, file |-> Final(reason),
                 by |-> IF Planned(reason, Final(reason)) THEN "planned" ELSE "unplanned"]
  /\ UNCHANGED <<store, run, aborting, route, mount, known>>

LetGo == run' = [run EXCEPT !.phase = "winding", !.s = NoSession, !.mem = Missing]

(* and the session is written and let go.                                      *)
FinalizeSave ==
  /\ section.kind = "finalize" /\ Unlocked
  /\ LET d == [disk EXCEPT ![section.s] = section.file]
     IN disk' = IF section.by = "planned" THEN Promoted(d, section.s) ELSE d
  /\ LetGo
  /\ section' = NoSection
  /\ UNCHANGED <<worker, night, dark, aborting, route, mount, known>>

(* The run's task is done, the mount put away or not. *)
RunDone ==
  /\ LoopFree /\ run.phase = "winding"
  /\ run' = NoRun
  /\ mount' \in {"parked", "out"}
  /\ aborting' = IF aborting = "task" THEN "tail" ELSE aborting
  /\ UNCHANGED <<store, section, route, known>>

================================================================================

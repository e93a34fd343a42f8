------------------------------ MODULE SessionResume ------------------------------
(* The sessions of a rig, their runs, the service that resumes them and the    *)
(* operator, together, over the restarts of the process.                       *)
EXTENDS SessionRoutes

CONSTANT MaxEvents   \* bound: faults and requests of a behaviour

ASSUME SessionResumeAssumption == MaxEvents \in Nat

VARIABLES
  crossed,    \* the gaps between two steps of the code that others have used
  spree,      \* automatic starts of each session since a run of it ended cleanly
  withdrawn   \* the sessions disarmed or aborted since they were last asked for

vars == <<store, engine, ladder, service, routes, crossed, spree, withdrawn>>

Init ==
  /\ StoreInit /\ RunInit /\ ArmInit /\ RoutesInit
  /\ events = MaxEvents
  /\ spree = [s \in Sessions |-> 0] /\ withdrawn = {} /\ crossed = {}

(* The process dies and comes back: what is in memory is gone, what the PATCH  *)
(* had not saved too, and the sweep makes dormant what was running.            *)
Reboots ==
  /\ Faulty
  /\ disk' = BootSweep(disk)
  /\ worker' = Idle
  /\ run' = NoRun /\ section' = NoSection /\ aborting' = "no" /\ route' = NoRoute
  /\ arm' = NoLadder /\ backoff' = FALSE /\ stowed' = NoSession /\ stowing' = FALSE
  /\ grade' = NoGrade /\ teardown' = "no" /\ connected' = TRUE
  /\ known' \in {known, FALSE}
  /\ UNCHANGED <<night, dark, mount>>

Ends(reason) ==
  /\ FinalizeRead(reason)
  /\ IF reason = "error" THEN Faulty ELSE Fine
  /\ UNCHANGED <<arm, service, routes>>

Loop ==
  \/ (StartSave \/ FrameBanked \/ FinalizeSave \/ RunDone) /\ UNCHANGED <<ladder, service, routes>>
  \/ \E reason \in Reasons : Ends(reason)
  \/ (Safety \/ Focus \/ Autofocus \/ MountIsParked \/ Solve \/ Park \/ Limits
        \/ Slew \/ Recentre \/ RecentreHalted \/ Repark \/ Cancelled)
     /\ UNCHANGED <<service, routes>>
  \/ (TickRests \/ GiveUpSave \/ StowEnds \/ LadderDown \/ BackoffEnds) /\ UNCHANGED routes
  \/ \E s \in Sessions :
       (TickSingleNight(s) \/ TickGivesUp(s) \/ TickHeld(s) \/ TickRecovers(s)) /\ UNCHANGED routes
  \/ ResumeStarts \/ DisconnectRefused \/ DisconnectAborts \/ TearDown \/ AbortReturns

Operator ==
  \/ \E s \in Sessions :
       \/ \E op \in {"arm", "disarm", "abandon", "queue", "dequeue"} : Patch(op, s)
       \/ Regrade(s) \/ Delete(s) \/ ResumeAsked(s) \/ Continue(s)
  \/ Abort \/ Disconnect \/ Connect \/ TrustPosition

(* What a day outlasts: the ladder, its timeouts summed, takes minutes.        *)
Brief == arm.on \/ stowing \/ route # NoRoute \/ teardown # "no" \/ ~LoopFree \/ ~Unlocked

Outdoors ==
  \/ (WindowCloses \/ (WindowOpens /\ ~Brief)) /\ UNCHANGED <<engine, ladder, service, routes>>
  \/ LinkReopens /\ UNCHANGED <<service, routes>>
  \/ Reboots

(* A file is read and written back over one that has changed in three kinds of *)
(* places. A behaviour crosses one of them when another actor has used it:     *)
(*   "unlocked"    start, _finalize_report and _give_up_and_stow read and write *)
(*                 without the lock, a PATCH between                           *)
(*   "preflight"   a resume by hand starts the copy read before its pre-flight, *)
(*                 whose session has run, ended or gone since                  *)
(*   "regrade"     a frame's regrade saves a copy older than the file          *)
Gap(g) ==
  CASE g = "unlocked" -> section'.kind # "none" /\ worker' # Idle
    [] g = "preflight" -> /\ section.kind = "none" /\ section'.kind = "start"
                          /\ LET f == section'.file  h == disk[section'.s]
                             IN <<f.status, f.frames, f.crashes>> # <<h.status, h.frames, h.crashes>>
    [] g = "regrade" -> /\ grade # NoGrade /\ grade' = NoGrade
                        /\ disk[grade.s] # grade.file /\ disk'[grade.s] = grade.file

GapNames == {"unlocked", "preflight", "regrade"}

Crosses == crossed' = crossed \cup {g \in GapNames : Gap(g)}

Spree ==
  spree' = [s \in Sessions |->
    CASE run.phase # "live" /\ run'.phase = "live" /\ run'.s = s /\ run'.by = "auto" -> spree[s] + 1
      [] disk'[s].status = "none" -> 0
      [] run.phase = "live" /\ run.s = s /\ run'.phase = "winding" /\ disk'[s].crashes = 0 -> 0
      [] OTHER -> spree[s]]

(* Asked for: armed or queued by a PATCH, or started by hand. *)
AskedFor(s) ==
  \/ worker.op = "arm" /\ worker.s = s /\ worker' = Idle /\ disk'[s].auto
  \/ disk[s].behind = NoSession /\ disk'[s].behind # NoSession
  \/ ~Running /\ run'.phase = "live" /\ run'.s = s /\ run'.by = "hand"

(* Taken back: neither armed nor queued any more, or aborted. *)
Wanted(f) == f.auto \/ f.behind # NoSession
TakenBack(s) ==
  \/ Wanted(disk[s]) /\ ~Wanted(disk'[s])
  \/ aborting = "task" /\ run.phase = "live" /\ run.s = s /\ run'.phase = "winding"

Will == withdrawn' = {s \in Sessions : (s \in withdrawn \/ TakenBack(s)) /\ ~AskedFor(s)}

Ghosts == Crosses /\ Spree /\ Will

(* What goes on by itself: the event loop and the worker threads. *)
Proceeds == (RegradeSaves \/ PatchSaves \/ Loop) /\ Ghosts

Next == Proceeds \/ ((Operator \/ Outdoors) /\ Ghosts)

Spec == Init /\ [][Next]_vars

(* Something that can go on by itself does, in the end. *)
FairSpec == Spec /\ WF_vars(Proceeds)

--------------------------------------------------------------------------------
Never(gaps) == crossed \cap gaps = {}

(* The ladder of _recover and a run never have the mount at the same time: the *)
(* tick raises it only with the engine idle, and every start route refuses     *)
(* while it is up, whatever was awaited between.                               *)
OneMover == ~(arm.on /\ Running)

(* The ladder lets go of the mount. Asked to stop, it begins no further step   *)
(* that exposes, focuses, slews or parks, except the solve after the read of   *)
(* the park state, which _must_stop is not asked about again. A hold it        *)
(* answers after it slewed off the park leaves the mount parked again          *)
(* (_recentre_hold), or says that it could not. And disconnect closes the      *)
(* devices with no ladder on them, except where its own abort let the ladder   *)
(* of another armed session up.                                                *)
LadderLetsGo ==
  [][/\ arm.stop /\ arm'.step # arm.step /\ arm.step # "parked" => arm'.step \notin Commands
     /\ arm.step # "returned" /\ arm'.step = "returned" /\ arm'.result = "refused"
          => ~(arm'.home /\ arm'.out) \/ mount' = "parked"
     /\ connected /\ ~connected' => ~arm.on \/ teardown = "abort"]_vars

StartsByItself(s) == run.phase = "off" /\ run'.phase = "live" /\ run'.s = s /\ run'.by = "auto"

(* What is started unattended may be. A session that was disarmed or dequeued, *)
(* by the operator or the service, or aborted is not started by itself until   *)
(* it is armed, queued or started by hand: not by the ladder that was already  *)
(* up, not by the run's later writes, not after a restart. A plan that does    *)
(* not resume across nights is not started on a night after the one it ran on, *)
(* however its run or its process ended. A session that keeps crashing, the    *)
(* process or the run, is started RESUME_GIVE_UP_AFTER times and no more: the  *)
(* count outlives the restarts and an ending that is no crash clears it.       *)
StartsRightly ==
  [][\A s \in Sessions : StartsByItself(s) =>
       /\ Never({"unlocked", "regrade"}) => s \notin withdrawn
       /\ Never({"regrade"}) /\ s \in SingleNight => disk[s].last \in {0, night}
       /\ Never({"preflight", "regrade"}) => spree[s] < GiveUpAfter]_vars

(* The file of the running session says so: without it a crash would not be    *)
(* swept at boot, and DELETE and a second start would not be refused.          *)
FileAgrees == run.phase = "live" => disk[run.s].status = "active"

(* The singleton: starts, PATCHes and the promotion of a queued session leave  *)
(* at most one session armed.                                                  *)
OneArmed == Cardinality({s \in Unfinished : disk[s].auto}) <= 1

FramesKept ==
  \A s \in Sessions : disk'[s].status # "none" => disk'[s].frames >= disk[s].frames

(* Whoever writes the files last, over a gap or not, the running session's     *)
(* file says that it runs (only a regrade writes over that), at most one       *)
(* session is armed (unless a PATCH met an unlocked section, or a regrade      *)
(* brought an old arming back), and no banked frame leaves a file while it     *)
(* exists, by no start, end, PATCH or sweep (only by a copy that a pre-flight  *)
(* or a regrade held while the session ran).                                   *)
FilesTrue ==
  [][/\ Never({"regrade"})' => FileAgrees'
     /\ Never({"unlocked", "regrade"})' => OneArmed'
     /\ Never({"preflight", "regrade"})' => FramesKept]_vars

(* While it is dark and the devices are connected, an armed session leads to a *)
(* run, after whatever holds, crashes and restarts; one the service has given  *)
(* up on in this process and the operator armed again is the exception. And a  *)
(* ladder asked to stop comes down, at whichever step it stood: what           *)
(* wait_stopped waits for happens.                                             *)
Resumes ==
  /\ ArmedSessions # {} /\ dark
       ~> (Running \/ ArmedSessions = {} \/ ~dark \/ ~connected \/ stowed \in ArmedSessions)
  /\ arm.stop ~> ~arm.on
================================================================================

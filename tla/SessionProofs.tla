------------------------------ MODULE SessionProofs ------------------------------
(* What SessionResume promises, for every set of sessions, every quota and     *)
(* every bound. First who has the mount: the ladder or a run, never both       *)
(* (Movers). Then what the files, the copies of them that are held between a   *)
(* read and a write, and the memory of the run say about each other, under     *)
(* the gaps that nobody has crossed (FilesInv).                                *)
EXTENDS SessionResume, FiniteSetTheorems, TLAPS

--------------------------------------------------------------------------------
(* The values of the variables.                                                *)
Statuses == {"none", "dormant", "active", "complete", "abandoned"}
Names == Sessions \cup {NoSession}

Files == [status : Statuses, auto : BOOLEAN, frames : Nat, crashes : Nat,
          behind : Names, last : Nat]

Runs == [phase : {"off", "live", "winding"}, s : Names, mem : Files, by : {"hand", "auto"}]

Sections == [kind : {"none", "start", "finalize", "give up"}, s : Names,
             seen : {<<>>} \cup [Sessions -> Files], file : Files,
             by : {"hand", "auto", "planned", "unplanned"}]

Copies == [s : Names, file : Files]

Ops == {"arm", "disarm", "abandon", "queue", "dequeue"}
Workers == [op : Ops \cup {"none"}, s : Names]

Ladders == [on : BOOLEAN, s : Names, step : Awaits \cup {"none", "returned"}, stop : BOOLEAN,
            result : {"none", "refused", "fit", "halted", "not parked"},
            home : BOOLEAN, out : BOOLEAN]

StoreType ==
  /\ disk \in [Sessions -> Files]
  /\ worker \in Workers /\ (worker # Idle => worker.s \in Sessions /\ worker.op \in Ops)
  /\ night \in Nat

RunType ==
  /\ run \in Runs /\ (run.phase = "live" => run.s \in Sessions)
  /\ section \in Sections
  /\ section.kind # "none" => section.s \in Sessions
  /\ section.kind = "start" => section.seen \in [Sessions -> Files] /\ section.by = "hand"

CopyType ==
  /\ route \in Copies /\ (route # NoRoute => route.s \in Sessions)
  /\ grade \in Copies /\ (grade # NoGrade => grade.s \in Sessions)

ArmType == arm \in Ladders /\ (arm.on => arm.s \in Sessions)

TypeInv == StoreType /\ RunType /\ CopyType /\ ArmType

(* Who has the mount, and who the event loop.                                  *)
Movers ==
  /\ ~(arm.on /\ Running)
  /\ section.kind # "none" => ~arm.on
  /\ section.kind \in {"start", "give up"} => ~Running
  /\ section.kind = "finalize" => run.phase = "live" /\ section.s = run.s
  /\ ~arm.on => arm = NoLadder
  /\ arm.out => arm.step \in {"slewing", "repark", "returned"}

--------------------------------------------------------------------------------
(* The ladder.                                                                 *)

(* A step of the ladder itself: it stays up for its session, neither asked to  *)
(* stop nor released, and it lets go of the mount as LadderLetsGo says.        *)
Climbs ==
  /\ LoopFree /\ arm.on
  /\ arm' \in Ladders /\ arm'.on = arm.on /\ arm'.s = arm.s /\ arm'.stop = arm.stop
  /\ arm'.out => arm'.step \in {"slewing", "repark", "returned"}
  /\ arm.stop /\ arm'.step # arm.step /\ arm.step # "parked" => arm'.step \notin Commands
  /\ arm.step # "returned" /\ arm'.step = "returned" /\ arm'.result = "refused"
       => ~(arm'.home /\ arm'.out) \/ mount' = "parked"
  /\ UNCHANGED <<run, section>>

LEMMA ReturnClimbs ==
  ASSUME ArmType, Movers, NEW result \in {"none", "refused", "fit", "halted", "not parked"},
         LoopFree, arm.on, Return(result), UNCHANGED <<run, section>>,
         result = "refused" => ~arm.out \/ ~arm.home \/ mount' = "parked"
  PROVE  Climbs
<1>1. /\ arm' \in Ladders /\ arm'.on = arm.on /\ arm'.s = arm.s /\ arm'.stop = arm.stop
      /\ arm'.step = "returned" /\ arm'.result = result
      /\ arm'.home = arm.home /\ arm'.out = arm.out
  BY DEF Return, ArmType, Ladders
<1> QED BY <1>1 DEF Climbs, Commands

LEMMA GoesClimbs ==
  ASSUME ArmType, Movers, NEW step \in Awaits,
         LoopFree, arm.on, Goes(step), UNCHANGED <<run, section>>,
         arm.out => step \in {"slewing", "repark"},
         arm.stop /\ arm.step # "parked" => step \notin Commands
  PROVE  Climbs
<1>1. /\ arm' \in Ladders /\ arm'.on = arm.on /\ arm'.s = arm.s /\ arm'.stop = arm.stop
      /\ arm'.step = step /\ arm'.out = arm.out
  BY DEF Goes, ArmType, Ladders
<1>2. step # "returned"
  BY DEF Awaits, Commands
<1> QED BY <1>1, <1>2 DEF Climbs

LEMMA GoesUnlessStoppedClimbs ==
  ASSUME ArmType, Movers, NEW step \in Awaits,
         LoopFree, arm.on, GoesUnlessStopped(step), UNCHANGED <<run, section>>,
         arm.out => step \in {"slewing", "repark"}
  PROVE  Climbs
<1>1. CASE MustStop
  <2>1. Return("none")
    BY <1>1 DEF GoesUnlessStopped
  <2> QED BY <2>1, ReturnClimbs
<1>2. CASE ~MustStop
  <2>1. Goes(step) /\ ~arm.stop
    BY <1>2 DEF GoesUnlessStopped, MustStop
  <2> QED BY <2>1, GoesClimbs
<1> QED BY <1>1, <1>2

Ladder == Safety \/ Focus \/ Autofocus \/ MountIsParked \/ Solve \/ Park \/ Limits
            \/ Slew \/ Recentre \/ RecentreHalted \/ Repark \/ Cancelled

LEMMA LadderClimbs ==
  ASSUME ArmType, Movers, Ladder
  PROVE  Climbs
<1> USE DEF At
<1>0. \A step : At(step) /\ step \notin {"slewing", "repark", "returned"} => ~arm.out
  BY DEF Movers
<1>p. ASSUME Point, UNCHANGED <<run, section>>, LoopFree, arm.on, ~arm.out
      PROVE  Climbs
  <2>1. "parked" \in Awaits /\ "solve" \in Awaits
    BY DEF Awaits, Commands
  <2>2. CASE known
    BY <1>p, <2>1, <2>2, GoesUnlessStoppedClimbs DEF Point
  <2>3. CASE ~known
    BY <1>p, <2>1, <2>3, GoesUnlessStoppedClimbs DEF Point
  <2> QED BY <2>2, <2>3
<1>h. ASSUME arm' = [arm EXCEPT !.step = "limits", !.home = TRUE], UNCHANGED <<run, section>>,
             LoopFree, arm.on, ~arm.out
      PROVE  Climbs
  <2>1. /\ arm' \in Ladders /\ arm'.on = arm.on /\ arm'.s = arm.s /\ arm'.stop = arm.stop
        /\ arm'.step = "limits" /\ arm'.out = arm.out
    BY <1>h DEF ArmType, Ladders, Awaits
  <2> QED BY <1>h, <2>1 DEF Climbs, Commands
<1>1. CASE Safety
  <2>1. UNCHANGED <<run, section>> /\ LoopFree /\ arm.on /\ ~arm.out
    BY <1>0, <1>1 DEF Safety, StillRig
  <2>2. CASE Goes("focus")
    <3>1. "focus" \in Awaits /\ "focus" \notin Commands
      BY DEF Awaits, Commands
    <3> QED BY <2>1, <2>2, <3>1, GoesClimbs
  <2>3. CASE Return("refused")
    BY <2>1, <2>3, ReturnClimbs
  <2> QED BY <1>1, <2>2, <2>3 DEF Safety
<1>2. CASE Focus
  <2>1. UNCHANGED <<run, section>> /\ LoopFree /\ arm.on /\ ~arm.out
    BY <1>0, <1>2 DEF Focus, StillRig
  <2>2. CASE GoesUnlessStopped("autofocus")
    <3>1. "autofocus" \in Awaits
      BY DEF Awaits, Commands
    <3> QED BY <2>1, <2>2, <3>1, GoesUnlessStoppedClimbs
  <2> QED BY <1>2, <1>p, <2>1, <2>2 DEF Focus
<1>3. CASE Autofocus
  <2>1. UNCHANGED <<run, section>> /\ LoopFree /\ arm.on /\ ~arm.out
    BY <1>0, <1>3 DEF Autofocus, StillRig
  <2>2. CASE Return("refused")
    BY <2>1, <2>2, ReturnClimbs
  <2> QED BY <1>3, <1>p, <2>1, <2>2 DEF Autofocus
<1>4. CASE MountIsParked
  <2>1. UNCHANGED <<run, section>> /\ LoopFree /\ arm.on /\ ~arm.out /\ arm.step = "parked"
    BY <1>0, <1>4 DEF MountIsParked, StillRig
  <2>2. CASE Goes("solve")
    <3>1. "solve" \in Awaits
      BY DEF Awaits, Commands
    <3> QED BY <2>1, <2>2, <3>1, GoesClimbs
  <2> QED BY <1>4, <1>h, <2>1, <2>2 DEF MountIsParked
<1>5. CASE Solve
  <2>1. UNCHANGED <<run, section>> /\ LoopFree /\ arm.on /\ ~arm.out
    BY <1>0, <1>5 DEF Solve
  <2>2. CASE Goes("limits")
    <3>1. "limits" \in Awaits /\ "limits" \notin Commands
      BY DEF Awaits, Commands
    <3> QED BY <2>1, <2>2, <3>1, GoesClimbs
  <2>3. CASE Return("refused")
    BY <2>1, <2>3, ReturnClimbs
  <2>4. CASE GoesUnlessStopped("park")
    <3>1. "park" \in Awaits
      BY DEF Awaits, Commands
    <3> QED BY <2>1, <2>4, <3>1, GoesUnlessStoppedClimbs
  <2> QED BY <1>5, <2>2, <2>3, <2>4 DEF Solve
<1>6. CASE Park
  <2>1. UNCHANGED <<run, section>> /\ LoopFree /\ arm.on /\ ~arm.out
    BY <1>0, <1>6 DEF Park
  <2>2. CASE Return("refused")
    BY <2>1, <2>2, ReturnClimbs
  <2> QED BY <1>6, <1>h, <2>1, <2>2 DEF Park
<1>7. CASE Limits
  <2>1. UNCHANGED <<run, section>> /\ LoopFree /\ arm.on /\ ~arm.out
    BY <1>0, <1>7 DEF Limits, StillRig
  <2>2. CASE Return("refused") \/ Return("fit") \/ Return("none")
    BY <2>1, <2>2, ReturnClimbs
  <2>3. CASE ~MustStop /\ Goes("recentre")
    <3>1. "recentre" \in Awaits /\ ~arm.stop
      BY <2>3 DEF Awaits, Commands, MustStop
    <3> QED BY <2>1, <2>3, <3>1, GoesClimbs
  <2> QED BY <1>7, <2>2, <2>3 DEF Limits
<1>8. CASE Slew
  <2>1. UNCHANGED <<run, section>> /\ LoopFree /\ arm.on /\ ~arm.out /\ arm.step = "recentre"
    BY <1>0, <1>8 DEF Slew
  <2>2. CASE arm' = [arm EXCEPT !.step = "slewing", !.out = TRUE]
    <3>1. /\ arm' \in Ladders /\ arm'.on = arm.on /\ arm'.s = arm.s /\ arm'.stop = arm.stop
          /\ arm'.step = "slewing"
      BY <2>2 DEF ArmType, Ladders, Awaits
    <3> QED BY <2>1, <3>1 DEF Climbs, Commands
  <2>3. CASE Return("refused")
    BY <2>1, <2>3, ReturnClimbs
  <2> QED BY <1>8, <2>2, <2>3 DEF Slew
<1>9. CASE Recentre
  <2>1. UNCHANGED <<run, section>> /\ LoopFree /\ arm.on
    BY <1>9 DEF Recentre, StillRig
  <2>2. CASE Return("fit")
    BY <2>1, <2>2, ReturnClimbs
  <2>3. CASE ~arm.home /\ Return("refused")
    BY <2>1, <2>3, ReturnClimbs
  <2>4. CASE GoesUnlessStopped("repark")
    <3>1. "repark" \in Awaits
      BY DEF Awaits, Commands
    <3> QED BY <2>1, <2>4, <3>1, GoesUnlessStoppedClimbs
  <2> QED BY <1>9, <2>2, <2>3, <2>4 DEF Recentre, RecentreHold
<1>10. CASE RecentreHalted
  <2>1. UNCHANGED <<run, section>> /\ LoopFree /\ arm.on /\ Return("halted")
    BY <1>10 DEF RecentreHalted, engine, Return
  <2> QED BY <2>1, ReturnClimbs
<1>11. CASE Repark
  <2>1. UNCHANGED <<run, section>> /\ LoopFree /\ arm.on
    BY <1>11 DEF Repark
  <2> QED BY <1>11, <2>1, ReturnClimbs DEF Repark
<1>12. CASE Cancelled
  <2>1. UNCHANGED <<run, section>> /\ LoopFree /\ arm.on /\ Return("none")
    BY <1>12 DEF Cancelled, StillRig
  <2> QED BY <2>1, ReturnClimbs
<1> QED BY <1>1, <1>2, <1>3, <1>4, <1>5, <1>6, <1>7, <1>8, <1>9, <1>10, <1>11, <1>12 DEF Ladder

(* What a step does to the ladder, its going up apart: it is the same ladder   *)
(* after the step, or none.                                                    *)
ArmKept ==
  /\ arm' \in Ladders
  /\ arm'.on => arm.on /\ arm'.s = arm.s
  /\ ~arm'.on => arm' = NoLadder
  /\ arm'.out => arm'.step \in {"slewing", "repark", "returned"}

(* LadderLetsGo, of one step.                                                  *)
LetsGo ==
  /\ arm.stop /\ arm'.step # arm.step /\ arm.step # "parked" => arm'.step \notin Commands
  /\ arm.step # "returned" /\ arm'.step = "returned" /\ arm'.result = "refused"
       => ~(arm'.home /\ arm'.out) \/ mount' = "parked"
  /\ connected /\ ~connected' => ~arm.on \/ teardown = "abort"

LEMMA NoLadderType == NoLadder \in Ladders /\ ~NoLadder.on /\ ~NoLadder.out /\ ~NoLadder.stop
                      /\ NoLadder.step = "none"
BY DEF NoLadder, Ladders, Names

(* The three ways in which the others touch it.                                *)
Flagged == [arm EXCEPT !.stop = TRUE]
Touched == arm' \in {arm, NoLadder} \/ (arm.on /\ arm' = Flagged)

LEMMA TouchedKept ==
  ASSUME ArmType, Movers, Touched
  PROVE  /\ ArmKept
         /\ arm'.step \in {arm.step, "none"}
<1>1. CASE arm' = arm
  BY <1>1 DEF ArmType, Movers, ArmKept
<1>2. CASE arm' = NoLadder
  BY <1>2, NoLadderType DEF ArmKept
<1>3. CASE arm.on /\ arm' = Flagged
  <2>1. /\ arm' \in Ladders /\ arm'.on = arm.on /\ arm'.s = arm.s
        /\ arm'.step = arm.step /\ arm'.out = arm.out
    BY <1>3 DEF Flagged, ArmType, Ladders
  <2> QED BY <1>3, <2>1 DEF Movers, ArmKept
<1> QED BY <1>1, <1>2, <1>3 DEF Touched

LEMMA StopTouches ==
  ASSUME ArmType, Movers
  PROVE  /\ \A s : StopRecovery(s) = arm \/ (arm.on /\ StopRecovery(s) = Flagged)
         /\ \A op, s : Stops(op, s) = arm \/ (arm.on /\ Stops(op, s) = Flagged) 
                         \/ op \notin Ops
         /\ [arm EXCEPT !.stop = arm.on] = IF arm.on THEN Flagged ELSE arm
<1>1. \A s : StopRecovery(s) = arm \/ (arm.on /\ StopRecovery(s) = Flagged)
  BY DEF StopRecovery, Flagged
<1>2. \A op, s : Stops(op, s) = arm \/ (arm.on /\ Stops(op, s) = Flagged) \/ op \notin Ops
  BY <1>1 DEF Stops, Ops
<1>3. CASE arm.on
  <2>1. arm.on = TRUE
    BY <1>3 DEF ArmType, Ladders
  <2> QED BY <1>1, <1>2, <2>1 DEF Flagged
<1>4. CASE ~arm.on
  <2>1. arm = NoLadder
    BY <1>4 DEF Movers
  <2>2. arm.on = FALSE /\ arm.stop = FALSE /\ arm \in Ladders
    BY <2>1 DEF NoLadder, ArmType
  <2>3. [arm EXCEPT !.stop = FALSE] = arm
    BY <2>2 DEF Ladders
  <2> QED BY <1>1, <1>2, <1>4, <2>2, <2>3
<1> QED BY <1>3, <1>4

LEMMA ArmStep ==
  ASSUME ArmType, Movers, Next
  PROVE  /\ ArmKept \/ (\E s \in Sessions : TickRecovers(s) /\ UNCHANGED grade)
         /\ LetsGo
<1> USE DEF ladder, service, routes
<1>a. ASSUME Touched, connected /\ ~connected' => ~arm.on \/ teardown = "abort"
      PROVE  ArmKept /\ LetsGo
  <2>1. ArmKept /\ arm'.step \in {arm.step, "none"}
    BY <1>a, TouchedKept
  <2> QED BY <1>a, <2>1 DEF LetsGo, Commands
<1>b. ASSUME Touched, connected' = connected
      PROVE  ArmKept /\ LetsGo
  BY <1>a, <1>b
<1>1. CASE Ladder /\ UNCHANGED <<service, routes>>
  BY <1>1, LadderClimbs DEF Climbs, ArmKept, LetsGo, ArmType
<1>2. CASE \E s \in Sessions : TickRecovers(s) /\ UNCHANGED routes
  <2>1. PICK s \in Sessions : TickRecovers(s) /\ UNCHANGED routes
    BY <1>2
  <2>2. arm'.step = "safety" /\ ~arm.on
    BY <2>1 DEF TickRecovers, NoLadder, Willing, Ticks
  <2>3. ~arm.stop
    BY <2>2, NoLadderType DEF Movers
  <2> QED BY <2>1, <2>2, <2>3 DEF TickRecovers, LetsGo
<1>3. CASE \E s \in Sessions : (TickSingleNight(s) \/ TickGivesUp(s) \/ TickHeld(s)) /\ UNCHANGED routes
  <2>1. Touched /\ connected' = connected
    BY <1>3 DEF TickSingleNight, TickGivesUp, TickHeld, Touched
  <2> QED BY <2>1, <1>b
<1>4. CASE (StartSave \/ FrameBanked \/ FinalizeSave \/ RunDone) /\ UNCHANGED <<ladder, service, routes>>
  BY <1>4, <1>a DEF Touched
<1>5. CASE \E reason \in Reasons : Ends(reason)
  BY <1>5, <1>a DEF Touched, Ends
<1>6. CASE TickRests \/ GiveUpSave \/ StowEnds \/ LadderDown \/ BackoffEnds
  <2>1. Touched /\ connected' = connected
    BY <1>6 DEF Touched, TickRests, GiveUpSave, StowEnds, LadderDown, BackoffEnds
  <2> QED BY <2>1, <1>b
<1>7. CASE ResumeStarts \/ DisconnectRefused \/ DisconnectAborts \/ TearDown \/ AbortReturns
  <2>1. arm' = arm
    BY <1>7 DEF ResumeStarts, DisconnectRefused, DisconnectAborts, TearDown, AbortReturns
  <2>2. CASE ResumeStarts \/ DisconnectRefused \/ DisconnectAborts
    BY <2>1, <2>2, <1>a DEF Touched, ResumeStarts, DisconnectRefused, DisconnectAborts
  <2>3. CASE TearDown
    BY <2>1, <2>3, <1>a DEF Touched, TearDown, WaitStopped
  <2>4. CASE AbortReturns
    <3>1. connected /\ ~connected' => teardown = "abort"
      BY <2>4 DEF AbortReturns
    <3> QED BY <2>1, <3>1, <1>a DEF Touched
  <2> QED BY <1>7, <2>2, <2>3, <2>4
<1>8. CASE RegradeSaves \/ PatchSaves
  BY <1>8, <1>a DEF Touched, RegradeSaves, PatchSaves
<1>9. CASE Operator
  <2>1. CASE \E s \in Sessions, op \in Ops : Patch(op, s)
    BY <2>1, <1>a, StopTouches DEF Touched, Patch
  <2>2. CASE \E s \in Sessions : Delete(s)
    BY <2>2, <1>a, StopTouches DEF Touched, Delete
  <2>3. CASE \E s \in Sessions : Regrade(s) \/ ResumeAsked(s) \/ Continue(s)
    BY <2>3, <1>a DEF Touched, Regrade, ResumeAsked, Continue
  <2>4. CASE Abort \/ Disconnect
    BY <2>4, <1>a, StopTouches DEF Touched, Abort, Disconnect, StopAndDisarm
  <2>5. CASE Connect \/ TrustPosition
    BY <2>5, <1>a DEF Touched, Connect, TrustPosition
  <2> QED BY <1>9, <2>1, <2>2, <2>3, <2>4, <2>5 DEF Operator, Ops
<1>10. CASE Outdoors
  <2>1. Touched /\ (connected' = connected \/ connected' = TRUE)
    BY <1>10 DEF Touched, Outdoors, LinkReopens, Reboots
  <2> QED BY <2>1, <1>a
<1> QED
  BY <1>1, <1>2, <1>3, <1>4, <1>5, <1>6, <1>7, <1>8, <1>9, <1>10
     DEF Next, Proceeds, Loop, Ladder

--------------------------------------------------------------------------------
(* The kinds of step, by what they do to the files, the run and the copies.    *)
Quiet ==
  /\ UNCHANGED <<disk, worker, night, run, section, grade>>
  /\ aborting' = aborting \/ LoopFree
  /\ route' \in {route, NoRoute} \/ \E s \in Sessions : route' = [s |-> s, file |-> disk[s]]

Disarms(s) ==
  /\ LoopFree /\ Unlocked
  /\ disk' = WriteDisarm(disk, s)
  /\ UNCHANGED <<worker, night, run, section, grade, route>>

Starts(s, by) ==
  /\ LoopFree /\ StartLocked(s, by)
  /\ ~arm'.on
  /\ by = "auto" => arm.on /\ arm.s = s /\ IsArmed(s)
  /\ UNCHANGED grade

Reads ==
  /\ LoopFree /\ route # NoRoute /\ route' = NoRoute
  /\ ~arm.on /\ arm' = arm
  /\ StartRead(route.s, route.file)
  /\ UNCHANGED <<store, run, aborting, grade>>

NightFalls ==
  /\ WindowOpens /\ ~arm.on /\ arm' = arm
  /\ UNCHANGED <<run, section, aborting, route, grade>>

OfRun ==
  /\ \/ StartSave \/ FrameBanked \/ FinalizeSave \/ RunDone \/ GiveUpSave
     \/ \E reason \in Reasons : FinalizeRead(reason)
     \/ \E s \in Sessions : TickGivesUp(s)
     \/ AbortReturns
  /\ UNCHANGED <<arm, grade>>

OfOthers ==
  \/ Quiet \/ Reads \/ NightFalls \/ Reboots
  \/ PatchSaves \/ RegradeSaves
  \/ \E s \in Sessions :
       \/ Disarms(s) \/ Regrade(s) \/ Delete(s)
       \/ TickRecovers(s) /\ UNCHANGED grade
       \/ \E by \in {"hand", "auto"} : Starts(s, by)
       \/ \E op \in Ops : Patch(op, s)

LEMMA StepKinds ==
  ASSUME ArmType, Movers, Next
  PROVE  OfRun \/ OfOthers
<1> USE DEF ladder, routes, engine
<1>1. CASE Ladder /\ UNCHANGED <<service, routes>>
  <2>1. CASE RecentreHalted
    <3>1. arm.s \in Sessions
      BY <2>1 DEF RecentreHalted, At, ArmType
    <3>2. Disarms(arm.s)
      BY <1>1, <2>1 DEF RecentreHalted, Disarms, At
    <3> QED BY <3>1, <3>2 DEF OfOthers
  <2>2. CASE ~RecentreHalted
    <3>1. CASE Safety \/ Focus \/ Autofocus \/ MountIsParked \/ Limits \/ Recentre \/ Cancelled
      <4>1. StillRig
        BY <3>1 DEF Safety, Focus, Autofocus, MountIsParked, Limits, Recentre, Cancelled
      <4> QED BY <1>1, <4>1 DEF StillRig, OfOthers, Quiet, store
    <3>2. CASE Solve \/ Park \/ Slew \/ Repark
      BY <1>1, <3>2 DEF Solve, Park, Slew, Repark, OfOthers, Quiet, store
    <3> QED BY <1>1, <2>2, <3>1, <3>2 DEF Ladder
  <2> QED BY <2>1, <2>2
<1>2. CASE \E s \in Sessions : TickSingleNight(s) /\ UNCHANGED routes
  BY <1>2 DEF TickSingleNight, Ticks, OfOthers, Disarms
<1>3. CASE \E s \in Sessions : (TickGivesUp(s) \/ TickRecovers(s)) /\ UNCHANGED routes
  BY <1>3 DEF TickGivesUp, OfRun, OfOthers
<1>4. CASE \E s \in Sessions : TickHeld(s) /\ UNCHANGED routes
  BY <1>4 DEF TickHeld, OfOthers, Quiet, store
<1>5. CASE (StartSave \/ FrameBanked \/ FinalizeSave \/ RunDone) /\ UNCHANGED <<ladder, service, routes>>
  BY <1>5 DEF OfRun
<1>6. CASE \E reason \in Reasons : Ends(reason)
  BY <1>6 DEF OfRun, Ends
<1>7. CASE GiveUpSave /\ UNCHANGED routes
  BY <1>7 DEF OfRun, GiveUpSave
<1>8. CASE (TickRests \/ StowEnds \/ BackoffEnds) /\ UNCHANGED routes
  BY <1>8 DEF TickRests, StowEnds, BackoffEnds, OfOthers, Quiet, store
<1>9. CASE LadderDown /\ UNCHANGED routes
  <2>1. CASE StoodDown \/ Held
    BY <1>9, <2>1 DEF StoodDown, Held, OfOthers, Quiet, store
  <2>2. CASE Resumed
    <3>1. arm.on /\ arm.s \in Sessions /\ LoopFree /\ ~arm'.on
      BY <1>9, NoLadderType DEF LadderDown, At, ArmType
    <3>2. Starts(arm.s, "auto")
      BY <1>9, <2>2, <3>1 DEF Resumed, Starts, StillStartable
    <3> QED BY <3>1, <3>2 DEF OfOthers
  <2> QED BY <1>9, <2>1, <2>2 DEF LadderDown
<1>10. CASE ResumeStarts
  <2>1. CASE UNCHANGED section
    BY <1>10, <2>1 DEF ResumeStarts, OfOthers, Quiet, store
  <2>2. CASE ~UNCHANGED section
    BY <1>10, <2>2 DEF ResumeStarts, OfOthers, Reads, RefuseWhileRecovering
  <2> QED BY <2>1, <2>2
<1>11. CASE DisconnectRefused \/ DisconnectAborts \/ TearDown
  BY <1>11 DEF DisconnectRefused, DisconnectAborts, TearDown, OfOthers, Quiet, store
<1>12. CASE AbortReturns
  BY <1>12 DEF AbortReturns, OfRun
<1>13. CASE RegradeSaves \/ PatchSaves
  BY <1>13 DEF OfOthers
<1>14. CASE Operator
  <2>1. CASE \E s \in Sessions, op \in Ops : Patch(op, s)
    BY <2>1 DEF OfOthers
  <2>2. CASE \E s \in Sessions : Delete(s) \/ Regrade(s)
    BY <2>2 DEF OfOthers
  <2>3. CASE \E s \in Sessions : ResumeAsked(s)
    BY <2>3 DEF ResumeAsked, OfOthers, Quiet, store
  <2>4. CASE \E s \in Sessions : Continue(s)
    <3>1. PICK s \in Sessions : Continue(s)
      BY <2>4
    <3>2. Starts(s, "hand")
      BY <3>1 DEF Continue, Starts, RefuseWhileRecovering
    <3> QED BY <3>2 DEF OfOthers
  <2>5. CASE Abort \/ Disconnect
    <3>1. CASE arm.on
      <4>1. arm.s \in Sessions
        BY <3>1 DEF ArmType
      <4>2. Disarms(arm.s)
        BY <2>5, <3>1 DEF Abort, Disconnect, StopAndDisarm, Disarms
      <4> QED BY <4>1, <4>2 DEF OfOthers
    <3>2. CASE ~arm.on
      BY <2>5, <3>2 DEF Abort, Disconnect, StopAndDisarm, OfOthers, Quiet
    <3> QED BY <3>1, <3>2
  <2>6. CASE Connect \/ TrustPosition
    BY <2>6 DEF Connect, TrustPosition, OfOthers, Quiet, store
  <2> QED BY <1>14, <2>1, <2>2, <2>3, <2>4, <2>5, <2>6 DEF Operator, Ops
<1>15. CASE Outdoors
  <2>1. CASE WindowCloses /\ UNCHANGED <<engine, ladder, service, routes>>
    BY <2>1 DEF WindowCloses, OfOthers, Quiet
  <2>2. CASE WindowOpens /\ ~Brief /\ UNCHANGED <<engine, ladder, service, routes>>
    BY <2>2 DEF Brief, OfOthers, NightFalls
  <2>3. CASE LinkReopens /\ UNCHANGED <<service, routes>>
    BY <2>3 DEF LinkReopens, OfOthers, Quiet, store
  <2>4. CASE Reboots
    BY <2>4 DEF OfOthers
  <2> QED BY <1>15, <2>1, <2>2, <2>3, <2>4 DEF Outdoors
<1> QED
  BY <1>1, <1>2, <1>3, <1>4, <1>5, <1>6, <1>7, <1>8, <1>9, <1>10, <1>11, <1>12, <1>13, <1>14, <1>15
     DEF Next, Proceeds, Loop, Ladder

--------------------------------------------------------------------------------
(* The files that the operations write are files.                              *)
Disks == [Sessions -> Files]

LEMMA MissingType == Missing \in Files /\ NoSession \in Names
BY DEF Missing, Files, Statuses, Names

LEMMA AutoType ==
  ASSUME NEW f \in Files, NEW b \in BOOLEAN
  PROVE  [f EXCEPT !.auto = b] \in Files
BY DEF Files

LEMMA ArmExclusivelyType ==
  ASSUME NEW d \in Disks, NEW s
  PROVE  /\ ArmExclusively(d, s) \in Disks
         /\ \A t \in Sessions : /\ ArmExclusively(d, s)[t].auto <=> t = s
                                /\ ArmExclusively(d, s)[t].status = d[t].status
                                /\ ArmExclusively(d, s)[t].frames = d[t].frames
                                /\ ArmExclusively(d, s)[t].crashes = d[t].crashes
                                /\ ArmExclusively(d, s)[t].behind = d[t].behind
                                /\ ArmExclusively(d, s)[t].last = d[t].last
<1>1. \A t \in Sessions : (t = s) \in BOOLEAN /\ d[t] \in Files
  BY DEF Disks
<1>2. \A t \in Sessions : [d[t] EXCEPT !.auto = (t = s)] \in Files
  BY <1>1, AutoType
<1>3. ArmExclusively(d, s) \in Disks
  BY <1>2 DEF ArmExclusively, Disks
<1>4. \A t \in Sessions : ArmExclusively(d, s)[t] = [d[t] EXCEPT !.auto = (t = s)]
  BY DEF ArmExclusively
<1>5. ASSUME NEW f \in Files, NEW b \in BOOLEAN
      PROVE  LET g == [f EXCEPT !.auto = b] IN
             /\ g.auto <=> b
             /\ g.status = f.status /\ g.frames = f.frames /\ g.crashes = f.crashes
             /\ g.behind = f.behind /\ g.last = f.last
  BY DEF Files
<1> HIDE DEF ArmExclusively
<1>6. ASSUME NEW t \in Sessions
      PROVE  LET g == ArmExclusively(d, s)[t] IN
             /\ g.auto <=> t = s
             /\ g.status = d[t].status /\ g.frames = d[t].frames /\ g.crashes = d[t].crashes
             /\ g.behind = d[t].behind /\ g.last = d[t].last
  <2>1. PICK f \in Files : f = d[t]
    BY <1>1
  <2>2. PICK b \in BOOLEAN : b <=> (t = s)
    OBVIOUS
  <2>3. ArmExclusively(d, s)[t] = [f EXCEPT !.auto = b]
    BY <1>4, <2>1, <2>2
  <2> QED BY <1>5, <2>1, <2>2, <2>3
<1> QED BY <1>3, <1>6

LEMMA WriteDisarmType ==
  ASSUME NEW d \in Disks, NEW s \in Sessions
  PROVE  /\ WriteDisarm(d, s) \in Disks
         /\ \A t \in Sessions : /\ WriteDisarm(d, s)[t].auto => d[t].auto
                                /\ WriteDisarm(d, s)[t].status = d[t].status
                                /\ WriteDisarm(d, s)[t].frames = d[t].frames
                                /\ WriteDisarm(d, s)[t].crashes = d[t].crashes
                                /\ WriteDisarm(d, s)[t].behind = d[t].behind
                                /\ WriteDisarm(d, s)[t].last = d[t].last
<1>1. CASE d[s].status = "none"
  BY <1>1 DEF WriteDisarm
<1>2. CASE d[s].status # "none"
  <2>1. WriteDisarm(d, s) = [d EXCEPT ![s] = [d[s] EXCEPT !.auto = FALSE]]
    BY <1>2 DEF WriteDisarm
  <2>2. [d[s] EXCEPT !.auto = FALSE] \in Files /\ d[s] \in Files
    BY AutoType DEF Disks
  <2>3. WriteDisarm(d, s) \in Disks
    BY <2>1, <2>2 DEF Disks
  <2>4. \A t \in Sessions : WriteDisarm(d, s)[t] = IF t = s THEN [d[s] EXCEPT !.auto = FALSE] ELSE d[t]
    BY <2>1 DEF Disks
  <2> QED BY <2>2, <2>3, <2>4 DEF Files
<1> QED BY <1>1, <1>2

LEMMA BootSweepType ==
  ASSUME NEW d \in Disks
  PROVE  /\ BootSweep(d) \in Disks
         /\ \A t \in Sessions : /\ BootSweep(d)[t].status = IF d[t].status = "active" THEN "dormant" ELSE d[t].status
                                /\ BootSweep(d)[t].auto = d[t].auto
                                /\ BootSweep(d)[t].frames = d[t].frames
                                /\ BootSweep(d)[t].behind = d[t].behind
                                /\ BootSweep(d)[t].crashes = IF d[t].status = "active" THEN d[t].crashes + 1 ELSE d[t].crashes
<1>1. \A t \in Sessions : d[t] \in Files
  BY DEF Disks
<1> DEFINE swept(t) == [d[t] EXCEPT !.status = "dormant", !.crashes = @ + 1]
<1>2. \A t \in Sessions : /\ swept(t) \in Files
                          /\ swept(t).status = "dormant" /\ swept(t).auto = d[t].auto
                          /\ swept(t).frames = d[t].frames /\ swept(t).behind = d[t].behind
                          /\ swept(t).crashes = d[t].crashes + 1
  <2>1. SUFFICES ASSUME NEW f \in Files
                 PROVE  LET g == [f EXCEPT !.status = "dormant", !.crashes = @ + 1]
                        IN /\ g \in Files /\ g.status = "dormant" /\ g.auto = f.auto
                           /\ g.frames = f.frames /\ g.behind = f.behind /\ g.crashes = f.crashes + 1
    BY <1>1
  <2>2. f.crashes + 1 \in Nat /\ "dormant" \in Statuses
    BY DEF Files, Statuses
  <2> DEFINE g == [f EXCEPT !.status = "dormant", !.crashes = @ + 1]
  <2>3. g \in Files
    BY <2>2 DEF Files
  <2>4. g.status = "dormant" /\ g.auto = f.auto /\ g.frames = f.frames /\ g.behind = f.behind
    BY DEF Files
  <2>5. g.crashes = f.crashes + 1
    BY DEF Files
  <2> QED BY <2>3, <2>4, <2>5
<1>3. BootSweep(d) = [t \in Sessions |-> IF d[t].status = "active" THEN swept(t) ELSE d[t]]
  BY DEF BootSweep
<1> HIDE DEF swept
<1>4. BootSweep(d) \in Disks
  BY <1>1, <1>2, <1>3 DEF Disks
<1>5. \A t \in Sessions : BootSweep(d)[t] = IF d[t].status = "active" THEN swept(t) ELSE d[t]
  BY <1>3
<1> QED BY <1>2, <1>4, <1>5

LEMMA StartedType ==
  ASSUME NEW f \in Files, night \in Nat
  PROVE  /\ Started(f) \in Files
         /\ Started(f).status = "active" /\ Started(f).auto /\ Started(f).behind = NoSession
         /\ Started(f).frames = f.frames /\ Started(f).crashes = f.crashes
BY DEF Started, Files, Statuses, Names

(* What the file of the run's session says when the run is over.               *)
LEMMA FinalType ==
  ASSUME StoreType, RunType, run.phase = "live", NEW reason
  PROVE  /\ Final(reason) \in Files
         /\ Final(reason).status \in {"complete", "dormant"}
         /\ Final(reason).frames = run.mem.frames
         /\ Final(reason).behind = run.mem.behind
         /\ Final(reason).crashes = Crashes(reason, run.mem.crashes)
         /\ Final(reason).auto => disk[run.s].auto
         /\ reason = "aborted" => ~Final(reason).auto /\ Final(reason).status = "dormant"
<1> DEFINE st == IF reason = "complete" /\ Owed(run.mem) = 0 THEN "complete" ELSE "dormant"
           f == [run.mem EXCEPT !.auto = disk[run.s].auto, !.status = st,
                                !.crashes = Crashes(reason, @)]
           k == f.auto /\ KeepsArming(reason, f)
<1>1. run.mem \in Files /\ disk[run.s].auto \in BOOLEAN /\ st \in {"complete", "dormant"}
  BY DEF StoreType, RunType, Runs, Files
<1>2. Crashes(reason, run.mem.crashes) \in Nat
  BY <1>1 DEF Crashes, Files
<1>3. Final(reason) = [f EXCEPT !.auto = k]
  BY DEF Final
<1>4. k \in BOOLEAN /\ (reason = "aborted" => ~k /\ st = "dormant") /\ (k => f.auto)
  BY DEF KeepsArming
<1> HIDE DEF st
<1>5. /\ f \in Files /\ f.status = st /\ f.frames = run.mem.frames
      /\ f.behind = run.mem.behind /\ f.crashes = Crashes(reason, run.mem.crashes)
      /\ f.auto = disk[run.s].auto
  BY <1>1, <1>2 DEF Files, Statuses
<1> HIDE DEF f, k
<1> QED BY <1>1, <1>3, <1>4, <1>5 DEF Files

LEMMA PromotedType ==
  ASSUME NEW d \in Disks, NEW s
  PROVE  /\ Promoted(d, s) \in Disks
         /\ \A t \in Sessions : /\ Promoted(d, s)[t].status = d[t].status
                                /\ Promoted(d, s)[t].frames = d[t].frames
                                /\ Promoted(d, s)[t].crashes = d[t].crashes
                                /\ Promoted(d, s)[t].last = d[t].last
         /\ Promoted(d, s) = d \/ \E t \in Waiting(d, s) : \A u \in Sessions :
              /\ Promoted(d, s)[u].auto <=> u = t
              /\ Promoted(d, s)[u].behind = IF u = t THEN NoSession ELSE d[u].behind
<1>1. CASE Waiting(d, s) = {}
  BY <1>1 DEF Promoted
<1>2. CASE Waiting(d, s) # {}
  <2> DEFINE w == CHOOSE t \in Waiting(d, s) : TRUE
             e == [d EXCEPT ![w].behind = NoSession]
  <2>1. w \in Waiting(d, s)
    BY <1>2
  <2>2. w \in Sessions
    BY <2>1 DEF Waiting
  <2>3. Promoted(d, s) = ArmExclusively(e, w)
    BY <1>2 DEF Promoted
  <2> HIDE DEF w
  <2>4. e = [d EXCEPT ![w] = [d[w] EXCEPT !.behind = NoSession]] /\ d[w] \in Files
    BY <2>2 DEF Disks
  <2>5. [d[w] EXCEPT !.behind = NoSession] \in Files
    BY <2>4 DEF Files, Names
  <2>6. e \in Disks
    BY <2>4, <2>5 DEF Disks
  <2>7. \A t \in Sessions : e[t] = IF t = w THEN [d[w] EXCEPT !.behind = NoSession] ELSE d[t]
    BY <2>2 DEF Disks
  <2>8. \A t \in Sessions : /\ e[t].status = d[t].status /\ e[t].frames = d[t].frames
                            /\ e[t].crashes = d[t].crashes /\ e[t].last = d[t].last
                            /\ e[t].behind = IF t = w THEN NoSession ELSE d[t].behind
    BY <2>4, <2>7 DEF Files
  <2> HIDE DEF e
  <2>9. /\ Promoted(d, s) \in Disks
        /\ \A t \in Sessions : /\ Promoted(d, s)[t].auto <=> t = w
                               /\ Promoted(d, s)[t].status = e[t].status
                               /\ Promoted(d, s)[t].frames = e[t].frames
                               /\ Promoted(d, s)[t].crashes = e[t].crashes
                               /\ Promoted(d, s)[t].behind = e[t].behind
                               /\ Promoted(d, s)[t].last = e[t].last
    <3>1. Promoted(d, s) = ArmExclusively(e, w) /\ e \in Disks
      BY <2>3, <2>6
    <3>2. ArmExclusively(e, w) \in Disks /\ w \in Sessions
      BY <2>2, <2>6, ArmExclusivelyType
    <3>3. ASSUME NEW t \in Sessions
          PROVE  /\ ArmExclusively(e, w)[t].auto <=> t = w
                 /\ ArmExclusively(e, w)[t].status = e[t].status
                 /\ ArmExclusively(e, w)[t].frames = e[t].frames
                 /\ ArmExclusively(e, w)[t].crashes = e[t].crashes
                 /\ ArmExclusively(e, w)[t].behind = e[t].behind
                 /\ ArmExclusively(e, w)[t].last = e[t].last
      BY <2>6, ArmExclusivelyType
    <3> QED BY <3>1, <3>2, <3>3
  <2> HIDE DEF Promoted
  <2>10. \A t \in Sessions : /\ Promoted(d, s)[t].status = d[t].status
                             /\ Promoted(d, s)[t].frames = d[t].frames
                             /\ Promoted(d, s)[t].crashes = d[t].crashes
                             /\ Promoted(d, s)[t].last = d[t].last
    BY <2>8, <2>9
  <2>11. \A u \in Sessions : /\ Promoted(d, s)[u].auto <=> u = w
                             /\ Promoted(d, s)[u].behind = IF u = w THEN NoSession ELSE d[u].behind
    BY <2>8, <2>9
  <2> QED BY <2>1, <2>9, <2>10, <2>11
<1> QED BY <1>1, <1>2

(* A file of which the arming or the queueing alone is written.                *)
LEMMA BehindType ==
  ASSUME NEW d \in Disks, NEW s \in Sessions
  PROVE  /\ [d EXCEPT ![s].behind = NoSession] \in Disks
         /\ \A t \in Sessions :
              /\ [d EXCEPT ![s].behind = NoSession][t].auto = d[t].auto
              /\ [d EXCEPT ![s].behind = NoSession][t].status = d[t].status
              /\ [d EXCEPT ![s].behind = NoSession][t].frames = d[t].frames
              /\ [d EXCEPT ![s].behind = NoSession][t].crashes = d[t].crashes
              /\ [d EXCEPT ![s].behind = NoSession][t].last = d[t].last
<1> DEFINE f == [d[s] EXCEPT !.behind = NoSession]
           e == [d EXCEPT ![s].behind = NoSession]
<1>1. d[s] \in Files /\ e = [d EXCEPT ![s] = f]
  BY DEF Disks
<1>2. /\ f \in Files /\ f.auto = d[s].auto /\ f.status = d[s].status
      /\ f.frames = d[s].frames /\ f.crashes = d[s].crashes /\ f.last = d[s].last
  BY <1>1 DEF Files, Names
<1>3. e \in Disks /\ \A t \in Sessions : e[t] = IF t = s THEN f ELSE d[t]
  BY <1>1, <1>2 DEF Disks
<1> HIDE DEF e, f
<1>4. /\ e \in Disks
      /\ \A t \in Sessions : /\ e[t].auto = d[t].auto /\ e[t].status = d[t].status
                             /\ e[t].frames = d[t].frames /\ e[t].crashes = d[t].crashes
                             /\ e[t].last = d[t].last
  BY <1>2, <1>3
<1> QED BY <1>4 DEF e

(* What a PATCH saves. *)
Alike(d) == \A t \in Sessions : /\ d[t].frames = disk[t].frames
                                /\ d[t].crashes = disk[t].crashes
                                /\ d[t].last = disk[t].last

Unarming(d) == \A t \in Sessions : d[t].auto => disk[t].auto

LEMMA PatchedType ==
  ASSUME StoreType, RunType, worker # Idle, NEW d \in Patched
  PROVE  /\ d \in Disks /\ Alike(d)
         /\ \/ \A t \in Sessions : d[t].status = disk[t].status
            \/ worker.op = "abandon" /\ \A t \in Sessions : d[t].status = disk[t].status 
                                          \/ (t = worker.s /\ ~d[t].auto)
         /\ \/ Unarming(d)
            \/ worker.op = "arm" /\ \A t \in Sessions : d[t].auto => t = worker.s
<1> DEFINE s == worker.s
<1>0. disk \in Disks /\ s \in Sessions /\ worker.op \in Ops
  BY DEF StoreType, Disks
<1> HIDE DEF s
<1>1. CASE worker.op = "arm"
  <2> DEFINE e == [disk EXCEPT ![s].behind = NoSession]
  <2>1. d = ArmExclusively(e, s)
    BY <1>1 DEF Patched, s
  <2>2. /\ e \in Disks
        /\ \A t \in Sessions : /\ e[t].status = disk[t].status
                               /\ e[t].frames = disk[t].frames /\ e[t].crashes = disk[t].crashes
                               /\ e[t].last = disk[t].last
    BY <1>0, BehindType
  <2> HIDE DEF e
  <2>3. /\ d \in Disks
        /\ \A t \in Sessions : /\ d[t].auto <=> t = s
                               /\ d[t].status = e[t].status
                               /\ d[t].frames = e[t].frames /\ d[t].crashes = e[t].crashes
                               /\ d[t].last = e[t].last
    BY <2>1, <2>2, ArmExclusivelyType
  <2> QED BY <1>1, <2>2, <2>3 DEF Alike, s
<1>2. CASE worker.op = "disarm"
  <2> DEFINE f == [disk[s] EXCEPT !.auto = FALSE]
  <2>1. d = [disk EXCEPT ![s] = f]
    BY <1>2 DEF Patched, s
  <2>2. /\ f \in Files /\ ~f.auto /\ f.status = disk[s].status
        /\ f.frames = disk[s].frames /\ f.crashes = disk[s].crashes /\ f.last = disk[s].last
    BY <1>0 DEF Disks, Files
  <2> HIDE DEF f
  <2>3. d \in Disks /\ \A t \in Sessions : d[t] = IF t = s THEN f ELSE disk[t]
    BY <1>0, <2>1, <2>2 DEF Disks
  <2> QED BY <2>2, <2>3 DEF Alike, Unarming
<1>3. CASE worker.op = "abandon"
  <2> DEFINE f == [disk[s] EXCEPT !.status = "abandoned", !.auto = FALSE, !.behind = NoSession]
  <2>1. d = [disk EXCEPT ![s].status = "abandoned", ![s].auto = FALSE, ![s].behind = NoSession]
    BY <1>3 DEF Patched, s
  <2>2. d = [disk EXCEPT ![s] = f]
    BY <1>0, <2>1 DEF Disks
  <2>3. /\ f \in Files /\ ~f.auto
        /\ f.frames = disk[s].frames /\ f.crashes = disk[s].crashes /\ f.last = disk[s].last
    BY <1>0 DEF Disks, Files, Statuses, Names
  <2> HIDE DEF f
  <2>4. d \in Disks /\ \A t \in Sessions : d[t] = IF t = s THEN f ELSE disk[t]
    BY <1>0, <2>2, <2>3 DEF Disks
  <2> QED BY <1>3, <2>3, <2>4 DEF Alike, Unarming, s
<1>4. CASE worker.op = "dequeue"
  <2>1. d = [disk EXCEPT ![s].behind = NoSession]
    BY <1>4 DEF Patched, s
  <2> DEFINE e == [disk EXCEPT ![s].behind = NoSession]
  <2>2. /\ e \in Disks
        /\ \A t \in Sessions : /\ e[t].auto = disk[t].auto /\ e[t].status = disk[t].status
                               /\ e[t].frames = disk[t].frames /\ e[t].crashes = disk[t].crashes
                               /\ e[t].last = disk[t].last
    BY <1>0, BehindType
  <2>3. d = e
    BY <2>1
  <2> HIDE DEF e
  <2> QED BY <2>2, <2>3 DEF Alike, Unarming
<1>5. CASE worker.op = "queue"
  <2>1. CASE d = disk
    BY <1>0, <2>1 DEF Alike, Unarming
  <2>2. CASE d # disk
    <3>1. PICK b \in Behind(s) : d = Queued(s, b)
      BY <1>5, <2>2 DEF Patched, s
    <3>2. b \in Names
      BY <3>1 DEF Behind, RunType, Runs, ArmedSessions, Names
    <3> DEFINE w(t) == IF t = s THEN b ELSE IF disk[t].behind = b THEN NoSession ELSE disk[t].behind
               f(t) == [disk[t] EXCEPT !.behind = w(t)]
    <3>3. \A t \in Sessions : w(t) \in Names
      BY <1>0, <3>2 DEF Disks, Files, Names
    <3>4. d = [t \in Sessions |-> f(t)]
      BY <3>1 DEF Queued
    <3> HIDE DEF w
    <3>5. \A t \in Sessions : /\ f(t) \in Files /\ f(t).auto = disk[t].auto
                              /\ f(t).status = disk[t].status /\ f(t).frames = disk[t].frames
                              /\ f(t).crashes = disk[t].crashes /\ f(t).last = disk[t].last
      BY <1>0, <3>3 DEF Disks, Files
    <3> HIDE DEF f
    <3>6. d \in Disks /\ \A t \in Sessions : d[t] = f(t)
      BY <3>4, <3>5 DEF Disks
    <3> QED BY <3>5, <3>6 DEF Alike, Unarming
  <2> QED BY <2>1, <2>2
<1> QED BY <1>0, <1>1, <1>2, <1>3, <1>4, <1>5 DEF Ops

--------------------------------------------------------------------------------
(* The types, and who has the mount.                                           *)
LEMMA DiskKept ==
  ASSUME TypeInv, OfRun \/ OfOthers
  PROVE  disk' \in Disks
<1>0. /\ disk \in Disks /\ \A s \in Sessions : disk[s] \in Files
      /\ run.mem \in Files /\ section.file \in Files /\ night \in Nat
      /\ route.file \in Files /\ grade.file \in Files
  BY DEF TypeInv, StoreType, RunType, CopyType, Disks, Runs, Sections, Copies
<1>1. CASE StartSave
  <2>1. Started(section.file) \in Files
    BY <1>0, StartedType
  <2>2. \A t \in Sessions : section.seen[t] \in Files
    BY <1>1 DEF StartSave, TypeInv, RunType
  <2>3. \A t \in Sessions : [section.seen[t] EXCEPT !.auto = FALSE] \in Files
    BY <2>2, AutoType
  <2> DEFINE g(t) == CASE t = section.s -> Started(section.file)
                       [] t # section.s /\ section.seen[t].auto -> [section.seen[t] EXCEPT !.auto = FALSE]
                       [] OTHER -> disk[t]
  <2>4. \A t \in Sessions : g(t) \in Files
    BY <1>0, <2>1, <2>3
  <2>5. disk' = [t \in Sessions |-> g(t)]
    BY <1>1 DEF StartSave
  <2> QED BY <2>4, <2>5 DEF Disks
<1>2. CASE FrameBanked
  <2>1. run.mem.frames + 1 \in Nat /\ disk[run.s].auto \in BOOLEAN
    BY <1>0, <1>2 DEF FrameBanked, TypeInv, RunType, Files
  <2>2. [run.mem EXCEPT !.frames = @ + 1] \in Files
    BY <1>0, <2>1 DEF Files
  <2>3. SaveRunState([run.mem EXCEPT !.frames = @ + 1]) \in Files
    BY <2>1, <2>2, AutoType DEF SaveRunState
  <2> QED BY <1>0, <1>2, <2>3 DEF FrameBanked, Disks
<1>3. CASE FinalizeSave
  <2>1. [disk EXCEPT ![section.s] = section.file] \in Disks
    BY <1>0 DEF Disks
  <2> QED BY <1>3, <2>1, PromotedType DEF FinalizeSave
<1>4. CASE GiveUpSave
  BY <1>0, <1>4 DEF GiveUpSave, Disks
<1>5. CASE AbortReturns
  <2>1. CASE run.phase = "live"
    <3>1. Final("aborted") \in Files
      BY <2>1, FinalType DEF TypeInv
    <3> QED BY <1>0, <1>5, <2>1, <3>1 DEF AbortReturns, Disks
  <2> QED BY <1>0, <1>5, <2>1 DEF AbortReturns
<1>6. CASE RunDone \/ (\E reason \in Reasons : FinalizeRead(reason)) \/ (\E s \in Sessions : TickGivesUp(s))
  BY <1>0, <1>6 DEF RunDone, FinalizeRead, TickGivesUp, store
<1>7. CASE Quiet \/ Reads \/ NightFalls
  BY <1>0, <1>7 DEF Quiet, Reads, NightFalls, WindowOpens, store
<1>8. CASE Reboots
  BY <1>0, <1>8, BootSweepType DEF Reboots
<1>9. CASE PatchSaves
  BY <1>9, PatchedType DEF PatchSaves, TypeInv, Unlocked
<1>10. CASE RegradeSaves
  BY <1>0, <1>10 DEF RegradeSaves, Disks
<1>11. CASE \E s \in Sessions : Disarms(s)
  BY <1>0, <1>11, WriteDisarmType DEF Disarms
<1>12. CASE \E s \in Sessions : Regrade(s) \/ TickRecovers(s) \/ \E op \in Ops : Patch(op, s)
  BY <1>0, <1>12 DEF Regrade, TickRecovers, Patch, store
<1>13. CASE \E s \in Sessions : Delete(s)
  BY <1>0, <1>13, MissingType DEF Delete, Disks
<1>14. CASE \E s \in Sessions, by \in {"hand", "auto"} : Starts(s, by)
  <2>1. PICK s \in Sessions, by \in {"hand", "auto"} : Starts(s, by)
    BY <1>14
  <2>2. ArmExclusively(disk, s) \in Disks /\ Started(disk[s]) \in Files
    BY <1>0, ArmExclusivelyType, StartedType
  <2> QED BY <2>1, <2>2 DEF Starts, StartLocked, Disks
<1> QED
  BY <1>1, <1>2, <1>3, <1>4, <1>5, <1>6, <1>7, <1>8, <1>9, <1>10, <1>11, <1>12, <1>13, <1>14
     DEF OfRun, OfOthers

LEMMA StoreKept ==
  ASSUME TypeInv, OfRun \/ OfOthers
  PROVE  StoreType'
<1>0. disk' \in [Sessions -> Files]
  BY DiskKept DEF Disks
<1>1. ASSUME worker' \in {worker, Idle}
      PROVE  worker' \in Workers /\ (worker' # Idle => worker'.s \in Sessions /\ worker'.op \in Ops)
  BY <1>1 DEF TypeInv, StoreType, Workers, Idle, Names
<1>2. CASE OfRun
  <2>1. worker' = worker /\ night' = night
    BY <1>2 DEF OfRun, StartSave, FrameBanked, FinalizeSave, RunDone, GiveUpSave, FinalizeRead,
                TickGivesUp, AbortReturns, store
  <2> QED BY <1>0, <1>1, <2>1 DEF StoreType, TypeInv
<1>3. CASE Quiet \/ Reads \/ Reboots \/ PatchSaves \/ RegradeSaves
  <2>1. worker' \in {worker, Idle} /\ night' = night
    BY <1>3 DEF Quiet, Reads, Reboots, PatchSaves, RegradeSaves, store
  <2> QED BY <1>0, <1>1, <2>1 DEF StoreType, TypeInv
<1>4. CASE NightFalls
  <2>1. worker' = worker /\ night' \in Nat
    BY <1>4 DEF NightFalls, WindowOpens, TypeInv, StoreType
  <2> QED BY <1>0, <1>1, <2>1 DEF StoreType
<1>5. CASE \E s \in Sessions : \/ Disarms(s) \/ Regrade(s) \/ Delete(s)
                               \/ TickRecovers(s) /\ UNCHANGED grade
                               \/ \E by \in {"hand", "auto"} : Starts(s, by)
  <2>1. worker' = worker /\ night' = night
    BY <1>5 DEF Disarms, Regrade, Delete, TickRecovers, Starts, StartLocked, store
  <2> QED BY <1>0, <1>1, <2>1 DEF StoreType, TypeInv
<1>6. CASE \E s \in Sessions, op \in Ops : Patch(op, s)
  <2>1. PICK s \in Sessions, op \in Ops : Patch(op, s)
    BY <1>6
  <2>2. worker' = [op |-> op, s |-> s] /\ night' = night
    BY <2>1 DEF Patch
  <2>3. worker' \in Workers /\ worker'.s \in Sessions /\ worker'.op \in Ops
    BY <2>2 DEF Workers, Names
  <2> QED BY <1>0, <2>2, <2>3 DEF StoreType, TypeInv
<1> QED BY <1>2, <1>3, <1>4, <1>5, <1>6 DEF OfOthers

LEMMA NoneTypes ==
  /\ NoRun \in Runs /\ NoRun.phase = "off"
  /\ NoSection \in Sections /\ NoSection.kind = "none"
  /\ NoRoute \in Copies /\ NoGrade \in Copies
<1> USE MissingType
<1>1. NoRun \in Runs /\ NoRun.phase = "off"
  BY DEF NoRun, Runs
<1>2. NoSection \in Sections /\ NoSection.kind = "none"
  BY DEF NoSection, Sections
<1>3. NoRoute \in Copies /\ NoGrade \in Copies
  BY DEF NoRoute, NoGrade, Copies
<1> QED BY <1>1, <1>2, <1>3

(* What the steps do to the run and to the section of the loop.                *)
RunOf(s, f, by) == [phase |-> "live", s |-> s, mem |-> f, by |-> by]
RunEnded == [run EXCEPT !.phase = "winding", !.s = NoSession, !.mem = Missing]

LEMMA RunOfType ==
  ASSUME NEW s \in Sessions, NEW f \in Files, NEW by \in {"hand", "auto"}
  PROVE  /\ RunOf(s, f, by) \in Runs /\ RunOf(s, f, by).phase = "live"
         /\ RunOf(s, f, by).s = s /\ RunOf(s, f, by).mem = f /\ RunOf(s, f, by).by = by
BY DEF RunOf, Runs, Names

LEMMA RunEndedType ==
  ASSUME RunType
  PROVE  RunEnded \in Runs /\ RunEnded.phase = "winding" /\ RunEnded.by = run.by
BY MissingType DEF RunEnded, RunType, Runs

(* The run and the section after a step: as they were; a run started; going    *)
(* on; over; the loop between a read and a write; or after it.                 *)
Kept == run' = run /\ section' = section

RunMoved ==
  \/ Kept
  \/ /\ ~Running /\ ~arm'.on
     /\ run'.phase = "live" /\ section'.kind = "none"
  \/ section' = section /\ run'.phase = run.phase /\ run'.s = run.s
  \/ /\ run'.phase \in {"off", "winding"} /\ (~Running => ~Running')
     /\ section'.kind = "none"
  \/ /\ run' = run /\ section.kind = "none" /\ ~arm'.on
     /\ \/ section'.kind = "finalize" /\ run.phase = "live" /\ section'.s = run.s
        \/ section'.kind \in {"start", "give up"} /\ ~Running
  \/ run' = run /\ section'.kind = "none"

LEMMA RunKept ==
  ASSUME TypeInv, Movers, OfRun \/ OfOthers
  PROVE  RunType' /\ RunMoved
<1>0. /\ disk \in Disks /\ \A s \in Sessions : disk[s] \in Files
      /\ run.mem \in Files /\ section.file \in Files /\ night \in Nat
      /\ route.file \in Files
  BY DEF TypeInv, StoreType, RunType, CopyType, Disks, Runs, Sections, Copies
<1>k. ASSUME Kept
      PROVE  RunType' /\ RunMoved
  BY <1>k DEF Kept, TypeInv, RunType, RunMoved
<1>1. CASE StartSave /\ UNCHANGED arm
  <2>1. run' = RunOf(section.s, Started(section.file), section.by) /\ section' = NoSection
    BY <1>1 DEF StartSave, StartRun, RunOf
  <2>2. Started(section.file) \in Files /\ section.s \in Sessions /\ section.by = "hand"
    BY <1>0, <1>1, StartedType DEF StartSave, TypeInv, RunType
  <2>3. run' \in Runs /\ run'.phase = "live" /\ run'.s \in Sessions
    BY <2>1, <2>2, RunOfType
  <2>4. ~Running /\ ~arm'.on
    BY <1>1 DEF StartSave, Movers
  <2> QED BY <2>1, <2>3, <2>4, NoneTypes DEF RunType, RunMoved
<1>2. CASE FrameBanked
  <2>1. disk' \in Disks /\ run.s \in Sessions
    BY <1>2, DiskKept DEF FrameBanked, TypeInv, RunType
  <2> DEFINE f == SaveRunState([run.mem EXCEPT !.frames = @ + 1])
  <2>2. disk' = [disk EXCEPT ![run.s] = f] /\ run' = [run EXCEPT !.mem = f] /\ section' = section
    BY <1>2 DEF FrameBanked
  <2>3. f \in Files
    BY <1>0, <2>1, <2>2 DEF Disks
  <2> HIDE DEF f
  <2>4. run' \in Runs /\ run'.phase = run.phase /\ run'.s = run.s
    BY <2>2, <2>3 DEF TypeInv, RunType, Runs
  <2> QED BY <2>1, <2>2, <2>4 DEF TypeInv, RunType, RunMoved
<1>3. CASE FinalizeSave
  <2>1. run' = RunEnded /\ section' = NoSection /\ Running
    BY <1>3 DEF FinalizeSave, LetGo, RunEnded, Movers, Running
  <2> QED BY <2>1, NoneTypes, RunEndedType DEF TypeInv, RunType, RunMoved
<1>4. CASE RunDone
  <2>1. run' = NoRun /\ section' = section /\ section.kind = "none"
    BY <1>4 DEF RunDone, LoopFree
  <2> QED BY <2>1, NoneTypes DEF TypeInv, RunType, RunMoved, Running
<1>5. CASE GiveUpSave
  BY <1>5, NoneTypes DEF GiveUpSave, TypeInv, RunType, RunMoved
<1>6. CASE (\E reason \in Reasons : FinalizeRead(reason)) /\ UNCHANGED arm
  <2>1. PICK reason \in Reasons : FinalizeRead(reason)
    BY <1>6
  <2>2. run.phase = "live" /\ run.s \in Sessions /\ run' = run /\ section.kind = "none" /\ ~arm'.on
    BY <1>6, <2>1 DEF FinalizeRead, TypeInv, RunType, LoopFree, Movers, Running
  <2>3. Final(reason) \in Files
    BY <2>2, FinalType DEF TypeInv
  <2>4. section' \in Sections /\ section'.kind = "finalize" /\ section'.s = run.s
    BY <2>1, <2>2, <2>3 DEF FinalizeRead, Sections, Names
  <2> QED BY <2>2, <2>4 DEF TypeInv, RunType, RunMoved
<1>7. CASE (\E s \in Sessions : TickGivesUp(s)) /\ UNCHANGED arm
  <2>1. PICK s \in Sessions : TickGivesUp(s)
    BY <1>7
  <2>2. [disk[s] EXCEPT !.auto = FALSE] \in Files
    BY <1>0, AutoType
  <2>3. section' \in Sections /\ section'.kind = "give up" /\ section'.s = s
    BY <2>1, <2>2 DEF TickGivesUp, Sections, Names
  <2>4. run' = run /\ section.kind = "none" /\ ~arm'.on /\ ~Running
    BY <1>7, <2>1 DEF TickGivesUp, Ticks, LoopFree
  <2> QED BY <2>3, <2>4 DEF TypeInv, RunType, RunMoved
<1>8. CASE AbortReturns
  <2>1. section' = section /\ section.kind = "none"
    BY <1>8 DEF AbortReturns, LoopFree
  <2>2. CASE run.phase = "live"
    <3>1. run' = RunEnded /\ Running
      BY <1>8, <2>2 DEF AbortReturns, LetGo, RunEnded, Running
    <3> QED BY <2>1, <3>1, RunEndedType DEF TypeInv, RunType, RunMoved
  <2>3. CASE run.phase # "live"
    BY <1>8, <2>1, <2>3, <1>k DEF AbortReturns, Kept
  <2> QED BY <2>2, <2>3
<1>9. CASE Quiet \/ NightFalls \/ PatchSaves \/ RegradeSaves
  BY <1>9, <1>k DEF Kept, Quiet, NightFalls, PatchSaves, RegradeSaves, engine
<1>10. CASE Reads
  <2>1. /\ run' = run /\ section.kind = "none" /\ ~arm'.on /\ ~Running
        /\ route.s \in Sessions
        /\ section' = [kind |-> "start", s |-> route.s, seen |-> disk, file |-> route.file, by |-> "hand"]
    BY <1>10 DEF Reads, StartRead, LoopFree, TypeInv, CopyType
  <2>2. section' \in Sections /\ section'.kind = "start" /\ section'.s = route.s
        /\ section'.seen = disk /\ section'.by = "hand"
    BY <1>0, <2>1 DEF Sections, Names, Disks
  <2> QED BY <1>0, <2>1, <2>2 DEF TypeInv, RunType, RunMoved, Disks
<1>11. CASE Reboots
  BY <1>11, NoneTypes DEF Reboots, RunType, RunMoved, Running
<1>12. CASE \E s \in Sessions : \/ Disarms(s) \/ Regrade(s) \/ Delete(s) \/ TickRecovers(s)
                                \/ \E op \in Ops : Patch(op, s)
  BY <1>12, <1>k DEF Kept, Disarms, Regrade, Delete, TickRecovers, Patch, engine
<1>13. CASE \E s \in Sessions, by \in {"hand", "auto"} : Starts(s, by)
  <2>1. PICK s \in Sessions, by \in {"hand", "auto"} : Starts(s, by)
    BY <1>13
  <2>2. /\ run' = RunOf(s, Started(disk[s]), by) /\ section' = section /\ section.kind = "none"
        /\ ~Running /\ ~arm'.on
    BY <2>1 DEF Starts, StartLocked, StartRun, RunOf, LoopFree
  <2>3. run' \in Runs /\ run'.phase = "live" /\ run'.s = s
    BY <1>0, <2>2, RunOfType, StartedType
  <2> QED BY <2>2, <2>3 DEF TypeInv, RunType, RunMoved
<1> QED
  BY <1>1, <1>2, <1>3, <1>4, <1>5, <1>6, <1>7, <1>8, <1>9, <1>10, <1>11, <1>12, <1>13
     DEF OfRun, OfOthers

LEMMA CopyKept ==
  ASSUME TypeInv, OfRun \/ OfOthers
  PROVE  CopyType'
<1>0. \A s \in Sessions : disk[s] \in Files
  BY DEF TypeInv, StoreType
<1>1. \A s \in Sessions : [s |-> s, file |-> disk[s]] \in Copies
  BY <1>0 DEF Copies, Names
<1>2. ASSUME \/ route' \in {route, NoRoute}
             \/ \E s \in Sessions : route' = [s |-> s, file |-> disk[s]]
      PROVE  route' \in Copies /\ (route' # NoRoute => route'.s \in Sessions)
  BY <1>1, <1>2, NoneTypes DEF TypeInv, CopyType
<1>3. ASSUME \/ grade' \in {grade, NoGrade}
             \/ \E s \in Sessions : grade' = [s |-> s, file |-> disk[s]]
      PROVE  grade' \in Copies /\ (grade' # NoGrade => grade'.s \in Sessions)
  BY <1>1, <1>3, NoneTypes DEF TypeInv, CopyType
<1>4. CASE OfRun
  <2>1. route' = route /\ grade' = grade
    BY <1>4 DEF OfRun, StartSave, FrameBanked, FinalizeSave, RunDone, GiveUpSave, FinalizeRead,
                TickGivesUp, AbortReturns
  <2> QED BY <1>2, <1>3, <2>1 DEF CopyType
<1>5. CASE Quiet \/ Reads \/ NightFalls \/ Reboots \/ PatchSaves \/ RegradeSaves
  <2>1. /\ route' \in {route, NoRoute} \/ \E s \in Sessions : route' = [s |-> s, file |-> disk[s]]
        /\ grade' \in {grade, NoGrade}
    BY <1>5 DEF Quiet, Reads, NightFalls, Reboots, PatchSaves, RegradeSaves, engine
  <2> QED BY <1>2, <1>3, <2>1 DEF CopyType
<1>6. CASE \E s \in Sessions : \/ Disarms(s) \/ Delete(s)
                               \/ TickRecovers(s) /\ UNCHANGED grade
                               \/ \E by \in {"hand", "auto"} : Starts(s, by)
                               \/ \E op \in Ops : Patch(op, s)
  <2>1. route' = route /\ grade' = grade
    BY <1>6 DEF Disarms, Delete, TickRecovers, Starts, StartLocked, Patch, engine
  <2> QED BY <1>2, <1>3, <2>1 DEF CopyType
<1>7. CASE \E s \in Sessions : Regrade(s)
  <2>1. route' = route /\ \E s \in Sessions : grade' = [s |-> s, file |-> disk[s]]
    BY <1>7 DEF Regrade, engine
  <2> QED BY <1>2, <1>3, <2>1 DEF CopyType
<1> QED BY <1>4, <1>5, <1>6, <1>7 DEF OfOthers

LEMMA MoversKept ==
  ASSUME TypeInv, Movers, Next
  PROVE  ArmType' /\ Movers'
<1>1. OfRun \/ OfOthers
  BY StepKinds DEF TypeInv
<1>2. RunMoved
  BY <1>1, RunKept
<1>3. ArmKept \/ \E s \in Sessions : TickRecovers(s) /\ UNCHANGED grade
  BY ArmStep DEF TypeInv
<1>4. CASE ArmKept
  <2>1. ArmType'
    BY <1>4 DEF ArmKept, TypeInv, ArmType
  <2>2. ~(arm'.on /\ Running')
    BY <1>2, <1>4 DEF ArmKept, RunMoved, Kept, Movers, Running
  <2>3. /\ section'.kind # "none" => ~arm'.on
        /\ section'.kind \in {"start", "give up"} => ~Running'
        /\ section'.kind = "finalize" => run'.phase = "live" /\ section'.s = run'.s
    BY <1>2, <1>4 DEF ArmKept, RunMoved, Kept, Movers, Running
  <2> QED BY <1>4, <2>1, <2>2, <2>3 DEF ArmKept, Movers
<1>5. CASE \E s \in Sessions : TickRecovers(s)
  <2>1. PICK s \in Sessions : TickRecovers(s)
    BY <1>5
  <2>2. /\ arm' = [NoLadder EXCEPT !.on = TRUE, !.s = s, !.step = "safety"]
        /\ run' = run /\ section' = section /\ ~Running /\ section.kind = "none"
    BY <2>1 DEF TickRecovers, Willing, Ticks, LoopFree, engine
  <2>3. arm' \in Ladders /\ arm'.on /\ arm'.s = s /\ ~arm'.out
    BY <2>2 DEF NoLadder, Ladders, Awaits, Names
  <2> QED BY <2>2, <2>3 DEF ArmType, Movers, Running
<1> QED BY <1>3, <1>4, <1>5

MountInv == TypeInv /\ Movers

LEMMA MountInit == Init => MountInv
<1> SUFFICES ASSUME Init PROVE MountInv
  OBVIOUS
<1> USE DEF Init, RunInit, ArmInit, RoutesInit
<1>1. StoreType
  <2>1. PICK armed : disk = [s \in Sessions |-> [Missing EXCEPT !.status = "dormant", !.auto = (s = armed)]]
    BY DEF StoreInit
  <2>2. \A s \in Sessions : (s = armed) \in BOOLEAN
    OBVIOUS
  <2>3. [Missing EXCEPT !.status = "dormant"] \in Files
    BY MissingType DEF Files, Statuses
  <2>4. ASSUME NEW s \in Sessions
        PROVE  [Missing EXCEPT !.status = "dormant", !.auto = (s = armed)] \in Files
    <3>1. [[Missing EXCEPT !.status = "dormant"] EXCEPT !.auto = (s = armed)] \in Files
      BY <2>2, <2>3, AutoType
    <3> QED BY <3>1, MissingType DEF Files
  <2>5. disk \in [Sessions -> Files]
    BY <2>1, <2>4
  <2>6. worker = Idle /\ Idle \in Workers /\ night \in Nat
    BY DEF StoreInit, Idle, Workers, Names
  <2> QED BY <2>5, <2>6 DEF StoreType
<1>2. RunType /\ CopyType
  BY NoneTypes DEF RunType, CopyType
<1>3. ArmType /\ Movers
  BY NoneTypes, NoLadderType DEF ArmType, Movers, Running
<1> QED BY <1>1, <1>2, <1>3 DEF MountInv, TypeInv

LEMMA MountStep == MountInv /\ [Next]_vars => MountInv'
<1> SUFFICES ASSUME MountInv, [Next]_vars PROVE MountInv'
  OBVIOUS
<1>1. CASE Next
  <2>1. OfRun \/ OfOthers
    BY <1>1, StepKinds DEF MountInv, TypeInv
  <2> QED BY <1>1, <2>1, StoreKept, RunKept, CopyKept, MoversKept DEF MountInv, TypeInv
<1>2. CASE UNCHANGED vars
  <2> USE <1>2 DEF vars, store, engine, ladder, routes
  <2>1. StoreType' /\ ArmType'
    BY DEF MountInv, TypeInv, StoreType, ArmType
  <2>2. RunType' /\ CopyType'
    BY DEF MountInv, TypeInv, RunType, CopyType
  <2>3. Movers'
    BY DEF MountInv, Movers, Running
  <2> QED BY <2>1, <2>2, <2>3 DEF MountInv, TypeInv
<1> QED BY <1>1, <1>2

LEMMA MountCorrect == Spec => []MountInv
BY MountInit, MountStep, PTL DEF Spec

(* The ladder of _recover and a run never have the mount at the same time:     *)
(* tick raises the ladder only with the engine idle and no other step of the   *)
(* loop under way, and every start, by the ladder or by a route, finds it down *)
(* or takes it down.                                                           *)
THEOREM OneMoverAlways == Spec => []OneMover
<1>1. MountInv => OneMover
  BY DEF MountInv, Movers, OneMover
<1> QED BY <1>1, MountCorrect, PTL

(* Asked to stop, the ladder begins no step that exposes, focuses, slews or    *)
(* parks; a hold after it slewed off the park has parked again or says not;    *)
(* the devices are closed under no ladder but one an abort let up.             *)
THEOREM LadderLetsGoAlways == Spec => LadderLetsGo
<1>1. MountInv /\ [Next]_vars => [LetsGo]_vars
  BY ArmStep DEF MountInv, TypeInv
<1>2. [][LetsGo]_vars => LadderLetsGo
  BY PTL DEF LadderLetsGo, LetsGo
<1> QED BY <1>1, <1>2, MountCorrect, PTL DEF Spec

--------------------------------------------------------------------------------
(* The files. The gaps of which a behaviour has crossed none: no PATCH between *)
(* an unlocked read and its write, no stale copy started by hand, no stale     *)
(* copy saved by a regrade.                                                    *)
NoMeddling == "unlocked" \notin crossed
NoStaleStart == "preflight" \notin crossed
NoStaleGrade == "regrade" \notin crossed

LEMMA NeverIs ==
  /\ Never({"regrade"}) <=> NoStaleGrade
  /\ Never({"unlocked", "regrade"}) <=> NoMeddling /\ NoStaleGrade
  /\ Never({"preflight", "regrade"}) <=> NoStaleStart /\ NoStaleGrade
BY DEF Never, NoMeddling, NoStaleStart, NoStaleGrade

(* A gap once crossed stays so, and a step that crosses it says so.            *)
LEMMA GapsKept ==
  ASSUME Crosses
  PROVE  /\ NoMeddling' => NoMeddling /\ (section'.kind = "none" \/ worker' = Idle)
         /\ NoStaleStart' => NoStaleStart /\ ~Gap("preflight")
         /\ NoStaleGrade' => NoStaleGrade /\ ~Gap("regrade")
BY DEF Crosses, GapNames, Gap, NoMeddling, NoStaleStart, NoStaleGrade

(* What a worker thread is about to write is still allowed: it has the lock.   *)
Worked == worker.op = "abandon" => disk[worker.s].status \in {"dormant", "complete"}

(* The run's memory of its session, and the file of that session.              *)
Remembered ==
  run.phase = "live" =>
    /\ run.mem.status = "active" /\ run.mem.behind = NoSession
    /\ NoStaleGrade => /\ disk[run.s].status = "active"
                       /\ disk[run.s].frames = run.mem.frames
                       /\ disk[run.s].crashes = run.mem.crashes

(* The copies that the loop holds between an unlocked read and its write.      *)
StartHeld ==
  section.kind = "start" =>
    /\ NoStaleGrade => \A t \in Sessions : /\ section.seen[t].frames = disk[t].frames
                                           /\ section.seen[t].crashes = disk[t].crashes
    /\ NoStaleStart /\ NoStaleGrade => /\ section.file.frames = disk[section.s].frames
                                       /\ section.file.crashes = disk[section.s].crashes
    /\ NoMeddling /\ NoStaleGrade => section.seen = disk

GiveUpHeld ==
  section.kind = "give up" =>
    /\ ~section.file.auto
    /\ NoStaleGrade => /\ section.file.frames = disk[section.s].frames
                       /\ section.file.crashes = disk[section.s].crashes
    /\ NoMeddling /\ NoStaleGrade => section.file.status = disk[section.s].status

FinalHeld ==
  section.kind = "finalize" =>
    /\ section.file.frames = run.mem.frames /\ section.file.behind = NoSession
    /\ section.file.crashes \in {0, run.mem.crashes + 1}
    /\ aborting = "task" => ~section.file.auto /\ section.by = "unplanned"
    /\ NoMeddling /\ NoStaleGrade /\ section.file.auto => disk[section.s].auto

Locked == section.kind # "none" /\ NoMeddling => worker = Idle

FilesInv == Worked /\ Remembered /\ StartHeld /\ GiveUpHeld /\ FinalHeld /\ Locked

(* A regrade that crosses no gap writes what is there.                         *)
LEMMA RegradeSame ==
  ASSUME TypeInv, RegradeSaves, Crosses, NoStaleGrade'
  PROVE  disk' = disk
<1>1. ~Gap("regrade")
  BY GapsKept
<1>2. disk \in Disks /\ grade.s \in Sessions /\ disk' = [disk EXCEPT ![grade.s] = grade.file]
      /\ grade # NoGrade /\ grade' = NoGrade
  BY DEF TypeInv, StoreType, CopyType, RegradeSaves, Disks
<1>3. disk[grade.s] = grade.file
  BY <1>1, <1>2 DEF Gap, Disks
<1> QED BY <1>2, <1>3 DEF Disks

(* Who has the lock keeps it: a file that a PATCH has read is written by it or *)
(* swept, and by no other.                                                     *)
LEMMA LockHolds ==
  ASSUME TypeInv, OfRun \/ OfOthers
  PROVE  \/ worker = Idle
         \/ worker' = worker /\ disk' = disk
         \/ worker' = Idle
<1>1. CASE OfRun
  BY <1>1 DEF OfRun, StartSave, FrameBanked, FinalizeSave, RunDone, GiveUpSave, FinalizeRead,
              TickGivesUp, AbortReturns, store, Unlocked
<1>2. CASE Quiet \/ Reads \/ NightFalls \/ Reboots \/ PatchSaves \/ RegradeSaves
  BY <1>2 DEF Quiet, Reads, NightFalls, WindowOpens, Reboots, PatchSaves, RegradeSaves, store, Unlocked
<1>3. CASE \E s \in Sessions : \/ Disarms(s) \/ Regrade(s) \/ Delete(s)
                               \/ TickRecovers(s) /\ UNCHANGED grade
                               \/ \E by \in {"hand", "auto"} : Starts(s, by)
                               \/ \E op \in Ops : Patch(op, s)
  BY <1>3 DEF Disarms, Regrade, Delete, TickRecovers, Starts, StartLocked, Patch, store, Unlocked
<1> QED BY <1>1, <1>2, <1>3 DEF OfOthers

LEMMA WorkedKept ==
  ASSUME TypeInv, Worked, OfRun \/ OfOthers
  PROVE  Worked'
<1>0. Idle.op = "none"
  BY DEF Idle
<1>1. CASE \E s \in Sessions, op \in Ops : Patch(op, s)
  <2>1. PICK s \in Sessions, op \in Ops : Patch(op, s)
    BY <1>1
  <2>2. worker' = [op |-> op, s |-> s] /\ disk' = disk /\ Takes(op, s)
    BY <2>1 DEF Patch
  <2> QED BY <2>2 DEF Worked, Takes
<1>2. CASE ~\E s \in Sessions, op \in Ops : Patch(op, s)
  <2>1. worker' \in {worker, Idle}
    BY <1>2 DEF OfRun, StartSave, FrameBanked, FinalizeSave, RunDone, GiveUpSave, FinalizeRead,
                TickGivesUp, AbortReturns, store, OfOthers, Quiet, Reads, NightFalls, WindowOpens,
                Reboots, PatchSaves, RegradeSaves, Disarms, Regrade, Delete, TickRecovers, Starts, StartLocked
  <2> QED BY <1>0, <2>1, LockHolds DEF Worked
<1> QED BY <1>1, <1>2

(* While the loop is between a read and its write, nothing else of the loop    *)
(* happens: the section, the run and the abort stay as they are, and the files *)
(* are written by a PATCH alone.                                               *)
LEMMA SectionStill ==
  ASSUME TypeInv, Movers, OfRun \/ OfOthers, Crosses,
         section.kind # "none", section'.kind # "none"
  PROVE  /\ section' = section /\ run' = run /\ aborting' = aborting
         /\ NoStaleGrade' => disk' = disk \/ PatchSaves
<1>0. NoSection.kind = "none"
  BY NoneTypes
<1>1. CASE OfRun
  BY <1>0, <1>1 DEF OfRun, StartSave, FrameBanked, FinalizeSave, RunDone, GiveUpSave, FinalizeRead,
                    TickGivesUp, Ticks, AbortReturns, LoopFree
<1>2. CASE Quiet \/ Reads \/ NightFalls \/ Reboots \/ PatchSaves
  BY <1>0, <1>2 DEF Quiet, Reads, NightFalls, WindowOpens, Reboots, PatchSaves, LoopFree, engine
<1>3. CASE RegradeSaves
  BY <1>3, RegradeSame DEF RegradeSaves, engine
<1>4. CASE \E s \in Sessions : \/ Disarms(s) \/ Regrade(s) \/ Delete(s)
                               \/ TickRecovers(s) /\ UNCHANGED grade
                               \/ \E by \in {"hand", "auto"} : Starts(s, by)
                               \/ \E op \in Ops : Patch(op, s)
  BY <1>4 DEF Disarms, Regrade, Delete, TickRecovers, Willing, Ticks, Starts, Patch, store, LoopFree, engine
<1> QED BY <1>1, <1>2, <1>3, <1>4 DEF OfOthers

(* Where the loop begins such a stretch.                                       *)
LEMMA SectionBegins ==
  ASSUME TypeInv, OfRun \/ OfOthers, section.kind = "none", section'.kind # "none"
  PROVE  /\ disk' = disk /\ run' = run /\ aborting' = aborting
         /\ \/ Reads
            \/ \E s \in Sessions : TickGivesUp(s)
            \/ \E reason \in Reasons : FinalizeRead(reason)
<1>0. NoSection.kind = "none"
  BY NoneTypes
<1>1. CASE OfRun
  BY <1>0, <1>1 DEF OfRun, StartSave, FrameBanked, FinalizeSave, RunDone, GiveUpSave, FinalizeRead,
                    TickGivesUp, AbortReturns, store
<1>2. CASE Quiet \/ Reads \/ NightFalls \/ Reboots \/ PatchSaves \/ RegradeSaves
  BY <1>0, <1>2 DEF Quiet, Reads, NightFalls, Reboots, PatchSaves, RegradeSaves, engine, store
<1>3. CASE \E s \in Sessions : \/ Disarms(s) \/ Regrade(s) \/ Delete(s)
                               \/ TickRecovers(s) /\ UNCHANGED grade
                               \/ \E by \in {"hand", "auto"} : Starts(s, by)
                               \/ \E op \in Ops : Patch(op, s)
  BY <1>3 DEF Disarms, Regrade, Delete, TickRecovers, Starts, StartLocked, Patch, engine
<1> QED BY <1>1, <1>2, <1>3 DEF OfOthers

LEMMA HeldKept ==
  ASSUME TypeInv, Movers, FilesInv, OfRun \/ OfOthers, Crosses
  PROVE  StartHeld' /\ GiveUpHeld' /\ FinalHeld' /\ Locked'
<1>0. /\ NoMeddling' => NoMeddling /\ (section'.kind = "none" \/ worker' = Idle)
      /\ NoStaleStart' => NoStaleStart /\ ~Gap("preflight")
      /\ NoStaleGrade' => NoStaleGrade
  BY GapsKept
<1>1. Locked'
  BY <1>0 DEF Locked
<1>2. CASE section'.kind = "none"
  BY <1>1, <1>2 DEF StartHeld, GiveUpHeld, FinalHeld
<1>3. CASE section.kind # "none" /\ section'.kind # "none"
  <2>1. /\ section' = section /\ run' = run /\ aborting' = aborting
        /\ NoStaleGrade' => disk' = disk \/ PatchSaves
    BY <1>3, SectionStill
  <2>2. NoStaleGrade' => Alike(disk')
    BY <2>1, PatchedType DEF Alike, PatchSaves, Unlocked, TypeInv
  <2>3. NoMeddling' /\ NoStaleGrade' => disk' = disk
    BY <1>0, <1>3, <2>1 DEF FilesInv, Locked, PatchSaves, Unlocked
  <2>4. section.s \in Sessions
    BY <1>3 DEF TypeInv, RunType
  <2>5. StartHeld'
    BY <1>0, <2>1, <2>2, <2>3, <2>4 DEF FilesInv, StartHeld, Alike
  <2>6. GiveUpHeld'
    BY <1>0, <2>1, <2>2, <2>3, <2>4 DEF FilesInv, GiveUpHeld, Alike
  <2>7. FinalHeld'
    BY <1>0, <2>1, <2>3 DEF FilesInv, FinalHeld
  <2> QED BY <1>1, <2>5, <2>6, <2>7
<1>4. CASE section.kind = "none" /\ section'.kind # "none"
  <2>0. disk' = disk /\ run' = run /\ aborting' = aborting
    BY <1>4, SectionBegins
  <2>1. CASE Reads
    <3>1. section' = [kind |-> "start", s |-> route.s, seen |-> disk, file |-> route.file, by |-> "hand"]
          /\ route.s \in Sessions
      BY <2>1 DEF Reads, StartRead, TypeInv, CopyType
    <3>2. /\ section'.kind = "start" /\ section'.s = route.s /\ section'.seen = disk
          /\ section'.file = route.file
      BY <3>1
    <3>3. NoStaleStart' => section'.file.frames = disk[route.s].frames /\ section'.file.crashes = disk[route.s].crashes
      BY <1>0, <1>4, <3>2 DEF Gap
    <3> QED BY <1>1, <2>0, <3>2, <3>3 DEF StartHeld, GiveUpHeld, FinalHeld
  <2>2. CASE \E s \in Sessions : TickGivesUp(s)
    <3>1. PICK s \in Sessions : TickGivesUp(s)
      BY <2>2
    <3>2. /\ section'.kind = "give up" /\ section'.s = s
          /\ section'.file = [disk[s] EXCEPT !.auto = FALSE] /\ disk[s] \in Files
      BY <3>1 DEF TickGivesUp, TypeInv, StoreType
    <3>3. /\ ~section'.file.auto /\ section'.file.frames = disk[s].frames
          /\ section'.file.crashes = disk[s].crashes /\ section'.file.status = disk[s].status
      BY <3>2 DEF Files
    <3> QED BY <1>1, <2>0, <3>2, <3>3 DEF StartHeld, GiveUpHeld, FinalHeld
  <2>3. CASE \E reason \in Reasons : FinalizeRead(reason)
    <3>1. PICK reason \in Reasons : FinalizeRead(reason)
      BY <2>3
    <3>2. run.phase = "live" /\ Possible(reason)
      BY <3>1 DEF FinalizeRead
    <3> DEFINE by == IF Planned(reason, Final(reason)) THEN "planned" ELSE "unplanned"
    <3>3. /\ section'.kind = "finalize" /\ section'.s = run.s
          /\ section'.file = Final(reason) /\ section'.by = by
      BY <3>1 DEF FinalizeRead
    <3>4. /\ Final(reason).frames = run.mem.frames /\ Final(reason).behind = run.mem.behind
          /\ Final(reason).crashes = Crashes(reason, run.mem.crashes)
          /\ Final(reason).auto => disk[run.s].auto
          /\ reason = "aborted" => ~Final(reason).auto /\ Final(reason).status = "dormant"
      BY <3>2, FinalType DEF TypeInv
    <3>5. reason = "aborted" => by = "unplanned"
      BY <3>4 DEF Planned
    <3> HIDE DEF by
    <3>6. aborting = "task" => reason = "aborted"
      BY <3>2 DEF Possible
    <3>7. section'.file.crashes \in {0, run.mem.crashes + 1} /\ section'.file.behind = NoSession
      BY <3>2, <3>3, <3>4 DEF Crashes, FilesInv, Remembered
    <3> QED BY <1>1, <2>0, <3>3, <3>4, <3>5, <3>6, <3>7 DEF StartHeld, GiveUpHeld, FinalHeld
  <2> QED BY <1>4, <2>1, <2>2, <2>3, SectionBegins
<1> QED BY <1>2, <1>3, <1>4

--------------------------------------------------------------------------------
(* What the steps that write a file put into it, field by field.               *)
Same(s) == disk'[s].frames = disk[s].frames /\ disk'[s].crashes = disk[s].crashes

LEMMA StartSaved ==
  ASSUME TypeInv, Movers, FilesInv, StartSave, Crosses, NoStaleGrade'
  PROVE  LET s == section.s IN
         /\ s \in Sessions /\ ~Running
         /\ run' = RunOf(s, Started(section.file), "hand") /\ run'.mem = disk'[s]
         /\ run'.phase = "live" /\ run'.s = s /\ run'.by = "hand"
         /\ disk'[s].status = "active" /\ disk'[s].auto /\ disk'[s].behind = NoSession
         /\ NoStaleStart' => Same(s)
         /\ \A t \in Sessions \ {s} : Same(t)
         /\ NoMeddling' => \A t \in Sessions \ {s} : ~disk'[t].auto
<1> DEFINE s == section.s
<1>0. /\ NoMeddling' => NoMeddling
      /\ NoStaleStart' => NoStaleStart
      /\ NoStaleGrade
  BY GapsKept
<1>1. /\ s \in Sessions /\ ~Running /\ section.seen \in Disks /\ section.by = "hand"
      /\ section.file \in Files /\ disk \in Disks /\ night \in Nat
  BY DEF StartSave, TypeInv, RunType, StoreType, Movers, Disks, Sections
<1>2. run' = RunOf(s, Started(section.file), "hand")
  BY <1>1 DEF StartSave, StartRun, RunOf
<1>3. /\ Started(section.file) \in Files
      /\ Started(section.file).status = "active" /\ Started(section.file).auto
      /\ Started(section.file).behind = NoSession
      /\ Started(section.file).frames = section.file.frames
      /\ Started(section.file).crashes = section.file.crashes
  BY <1>1, StartedType
<1>4. /\ run'.mem = Started(section.file) /\ run'.phase = "live" /\ run'.s = s /\ run'.by = "hand"
  BY <1>1, <1>2, <1>3, RunOfType
<1>5. disk'[s] = Started(section.file)
  BY <1>1 DEF StartSave
<1>6. \A t \in Sessions \ {s} :
        disk'[t] = IF section.seen[t].auto THEN [section.seen[t] EXCEPT !.auto = FALSE] ELSE disk[t]
  BY DEF StartSave
<1> HIDE DEF s
<1>7. NoStaleStart' => Same(s)
  BY <1>0, <1>3, <1>5 DEF Same, FilesInv, StartHeld, StartSave, s
<1>8. \A t \in Sessions : /\ section.seen[t] \in Files /\ disk[t] \in Files
                          /\ section.seen[t].frames = disk[t].frames
                          /\ section.seen[t].crashes = disk[t].crashes
  BY <1>0, <1>1 DEF FilesInv, StartHeld, StartSave, Disks
<1>9. \A t \in Sessions \ {s} : Same(t)
  BY <1>6, <1>8 DEF Same, Files
<1>10. NoMeddling' => section.seen = disk
  BY <1>0 DEF FilesInv, StartHeld, StartSave
<1>11. NoMeddling' => \A t \in Sessions \ {s} : ~disk'[t].auto
  BY <1>6, <1>8, <1>10 DEF Files
<1> QED BY <1>1, <1>2, <1>3, <1>4, <1>5, <1>7, <1>9, <1>11 DEF s

LEMMA StartsSaved ==
  ASSUME TypeInv, NEW s \in Sessions, NEW by \in {"hand", "auto"}, Starts(s, by)
  PROVE  /\ ~Running /\ run'.phase = "live" /\ run'.s = s /\ run'.by = by /\ run'.mem = disk'[s]
         /\ disk'[s].status = "active" /\ disk'[s].auto /\ disk'[s].behind = NoSession
         /\ \A t \in Sessions : Same(t)
         /\ \A t \in Sessions \ {s} : ~disk'[t].auto /\ disk'[t].status = disk[t].status
<1>1. disk \in Disks /\ disk[s] \in Files /\ night \in Nat
  BY DEF TypeInv, StoreType, Disks
<1>2. /\ run' = RunOf(s, Started(disk[s]), by) /\ ~Running
      /\ disk' = [ArmExclusively(disk, s) EXCEPT ![s] = Started(disk[s])]
  BY DEF Starts, StartLocked, StartRun, RunOf
<1>3. /\ Started(disk[s]) \in Files
      /\ Started(disk[s]).status = "active" /\ Started(disk[s]).auto
      /\ Started(disk[s]).behind = NoSession
      /\ Started(disk[s]).frames = disk[s].frames
      /\ Started(disk[s]).crashes = disk[s].crashes
  BY <1>1, StartedType
<1>4. run'.phase = "live" /\ run'.s = s /\ run'.by = by /\ run'.mem = Started(disk[s])
  BY <1>2, <1>3, RunOfType
<1>5. ArmExclusively(disk, s) \in Disks
  BY <1>1, ArmExclusivelyType
<1>6. disk'[s] = Started(disk[s])
  BY <1>2, <1>5 DEF Disks
<1>7. \A t \in Sessions \ {s} : disk'[t] = ArmExclusively(disk, s)[t]
  BY <1>2, <1>5 DEF Disks
<1>8. \A t \in Sessions : /\ ArmExclusively(disk, s)[t].auto <=> t = s
                          /\ ArmExclusively(disk, s)[t].status = disk[t].status
                          /\ ArmExclusively(disk, s)[t].frames = disk[t].frames
                          /\ ArmExclusively(disk, s)[t].crashes = disk[t].crashes
  BY <1>1, ArmExclusivelyType
<1>9. \A t \in Sessions \ {s} : Same(t) /\ ~disk'[t].auto /\ disk'[t].status = disk[t].status
  BY <1>7, <1>8 DEF Same
<1>10. Same(s)
  BY <1>3, <1>6 DEF Same
<1> QED BY <1>2, <1>3, <1>4, <1>6, <1>9, <1>10

LEMMA FrameSaved ==
  ASSUME TypeInv, FilesInv, FrameBanked
  PROVE  /\ run.s \in Sessions /\ run'.phase = "live" /\ run'.s = run.s /\ run'.by = run.by
         /\ run'.mem = disk'[run.s] /\ run.phase = "live"
         /\ disk'[run.s].status = "active" /\ disk'[run.s].behind = NoSession
         /\ disk'[run.s].auto = disk[run.s].auto
         /\ disk'[run.s].frames = run.mem.frames + 1 /\ disk'[run.s].crashes = run.mem.crashes
         /\ \A t \in Sessions \ {run.s} : disk'[t] = disk[t]
<1> DEFINE g == [run.mem EXCEPT !.frames = @ + 1]
           f == [g EXCEPT !.auto = disk[run.s].auto]
<1>1. /\ run.s \in Sessions /\ run.phase = "live" /\ disk \in Disks /\ run \in Runs /\ run.mem \in Files
      /\ disk[run.s].auto \in BOOLEAN
  BY DEF FrameBanked, TypeInv, RunType, StoreType, Disks, Runs, Files
<1>2. run' = [run EXCEPT !.mem = f] /\ disk' = [disk EXCEPT ![run.s] = f]
  BY DEF FrameBanked, SaveRunState
<1>3. run.mem.status = "active" /\ run.mem.behind = NoSession
  BY <1>1 DEF FilesInv, Remembered
<1>4. run.mem.frames + 1 \in Nat
  BY <1>1 DEF Files
<1>5. /\ g \in Files /\ g.status = run.mem.status /\ g.behind = run.mem.behind
      /\ g.frames = run.mem.frames + 1 /\ g.crashes = run.mem.crashes
  BY <1>1, <1>4 DEF Files
<1> HIDE DEF g
<1>6. /\ f \in Files /\ f.status = g.status /\ f.behind = g.behind
      /\ f.frames = g.frames /\ f.crashes = g.crashes /\ f.auto = disk[run.s].auto
  BY <1>1, <1>5 DEF Files
<1> HIDE DEF f
<1>7. run'.phase = "live" /\ run'.s = run.s /\ run'.by = run.by /\ run'.mem = f
  BY <1>1, <1>2, <1>6 DEF Runs
<1>8. disk'[run.s] = f /\ \A t \in Sessions \ {run.s} : disk'[t] = disk[t]
  BY <1>1, <1>2 DEF Disks
<1> QED BY <1>1, <1>3, <1>5, <1>6, <1>7, <1>8

(* The run's session is written for the last time and let go.                  *)
RunOver ==
  /\ run.phase = "live" /\ run.s \in Sessions /\ run'.phase = "winding"
  /\ disk'[run.s].frames = run.mem.frames
  /\ disk'[run.s].crashes \in {0, run.mem.crashes + 1}
  /\ \A t \in Sessions \ {run.s} : Same(t) /\ disk'[t].status = disk[t].status
  /\ NoMeddling /\ NoStaleGrade =>
       \/ Unarming(disk')
       \/ \E w \in Sessions \ {run.s} : /\ disk[w].behind # NoSession
                                        /\ \A t \in Sessions : disk'[t].auto => t = w
  /\ aborting = "task" => ~disk'[run.s].auto /\ disk'[run.s].behind = NoSession

LEMMA FinalSaved ==
  ASSUME TypeInv, Movers, FilesInv, FinalizeSave
  PROVE  RunOver
<1> DEFINE s == section.s
           d == [disk EXCEPT ![s] = section.file]
<1>1. /\ s = run.s /\ run.phase = "live" /\ s \in Sessions /\ disk \in Disks
      /\ section.file \in Files /\ run'.phase = "winding" /\ s # NoSession
  <2>1. s = run.s /\ run.phase = "live" /\ s \in Sessions /\ disk \in Disks /\ section.file \in Files
    BY DEF FinalizeSave, Movers, TypeInv, RunType, StoreType, Disks, Sections
  <2>2. run' = RunEnded
    BY DEF FinalizeSave, LetGo, RunEnded
  <2> QED BY <2>1, <2>2, RunEndedType, SessionStoreAssumption DEF TypeInv
<1>2. /\ section.file.frames = run.mem.frames /\ section.file.behind = NoSession
      /\ section.file.crashes \in {0, run.mem.crashes + 1}
      /\ aborting = "task" => ~section.file.auto /\ section.by = "unplanned"
      /\ NoMeddling /\ NoStaleGrade /\ section.file.auto => disk[s].auto
  BY DEF FilesInv, FinalHeld, FinalizeSave
<1>3. disk' = IF section.by = "planned" THEN Promoted(d, s) ELSE d
  BY DEF FinalizeSave
<1> HIDE DEF s
<1>4. d \in Disks /\ d[s] = section.file /\ \A t \in Sessions \ {s} : d[t] = disk[t]
  BY <1>1 DEF Disks
<1> HIDE DEF d
<1>5. \A t \in Sessions : /\ disk'[t].status = d[t].status /\ disk'[t].frames = d[t].frames
                          /\ disk'[t].crashes = d[t].crashes
  BY <1>3, <1>4, PromotedType
<1>6. \/ disk' = d
      \/ \E w \in Waiting(d, s) : \A u \in Sessions : disk'[u].auto <=> u = w
  BY <1>3, <1>4, PromotedType
<1>7. disk'[s].frames = run.mem.frames /\ disk'[s].crashes \in {0, run.mem.crashes + 1}
  BY <1>1, <1>2, <1>4, <1>5
<1>8. \A t \in Sessions \ {s} : Same(t) /\ disk'[t].status = disk[t].status
  BY <1>4, <1>5 DEF Same
<1>9. aborting = "task" => ~disk'[s].auto /\ disk'[s].behind = NoSession
  BY <1>2, <1>3, <1>4
<1>10. NoMeddling /\ NoStaleGrade =>
         \/ Unarming(disk')
         \/ \E w \in Sessions \ {s} : /\ disk[w].behind # NoSession
                                      /\ \A t \in Sessions : disk'[t].auto => t = w
  <2>1. CASE disk' = d
    BY <1>1, <1>2, <1>4, <2>1 DEF Unarming
  <2>2. CASE \E w \in Waiting(d, s) : \A u \in Sessions : disk'[u].auto <=> u = w
    <3>1. PICK w \in Waiting(d, s) : \A u \in Sessions : disk'[u].auto <=> u = w
      BY <2>2
    <3>2. w \in Sessions /\ d[w].behind = s
      BY <3>1 DEF Waiting
    <3>3. w # s /\ disk[w].behind # NoSession
      BY <1>1, <1>2, <1>4, <3>2
    <3> QED BY <3>1, <3>2, <3>3
  <2> QED BY <1>6, <2>1, <2>2
<1> QED BY <1>1, <1>7, <1>8, <1>9, <1>10 DEF RunOver

LEMMA AbortSaved ==
  ASSUME TypeInv, AbortReturns, run.phase = "live"
  PROVE  RunOver
<1> DEFINE f == Final("aborted")
<1>1. /\ run.s \in Sessions /\ disk \in Disks /\ disk' = [disk EXCEPT ![run.s] = f]
      /\ run' = RunEnded /\ aborting = "tail"
  BY DEF AbortReturns, TypeInv, RunType, StoreType, Disks, LetGo, RunEnded
<1>2. /\ f \in Files /\ f.frames = run.mem.frames
      /\ f.crashes = Crashes("aborted", run.mem.crashes) /\ ~f.auto
  BY FinalType DEF TypeInv
<1>3. f.crashes = 0
  BY <1>2 DEF Crashes
<1> HIDE DEF f
<1>4. disk'[run.s] = f /\ \A t \in Sessions \ {run.s} : disk'[t] = disk[t]
  BY <1>1 DEF Disks
<1>5. run'.phase = "winding"
  BY <1>1, RunEndedType DEF TypeInv
<1> QED BY <1>1, <1>2, <1>3, <1>4, <1>5 DEF RunOver, Same, Unarming

(* A run of the session s starts.                                              *)
Begins(s, by) ==
  /\ ~Running /\ run'.phase = "live" /\ run'.s = s /\ run'.by = by /\ run'.mem = disk'[s]
  /\ disk'[s].status = "active" /\ disk'[s].auto /\ disk'[s].behind = NoSession
  /\ NoStaleStart' => Same(s)
  /\ \A t \in Sessions \ {s} : Same(t)
  /\ NoMeddling' => \A t \in Sessions \ {s} : ~disk'[t].auto
  /\ by = "auto" => arm.on /\ arm.s = s /\ IsArmed(s)

(* The files are touched: nothing in them but the switch, the queue and what   *)
(* an operator abandons.                                                       *)
Touches ==
  /\ run.phase = "live" \/ run'.phase = "live" => run' = run
  /\ run'.phase = "winding" => run.phase = "winding"
  /\ \A t \in Sessions : Same(t)
  /\ arm.on => \A t \in Sessions : disk'[t].last = disk[t].last
  /\ NoMeddling' => \A t \in Sessions : disk'[t].status = disk[t].status \/ ~disk'[t].auto
  /\ run.phase = "live" => disk'[run.s].status = disk[run.s].status
  /\ \/ Unarming(disk')
     \/ /\ worker.op = "arm" /\ worker' = Idle
        /\ \A t \in Sessions : disk'[t].auto => t = worker.s

LEMMA Effects ==
  ASSUME TypeInv, Movers, FilesInv, OfRun \/ OfOthers, Crosses, NoStaleGrade'
  PROVE  \/ RunOver \/ FrameBanked \/ Touches \/ Reboots
         \/ \E s \in Sessions : Delete(s) \/ \E by \in {"hand", "auto"} : Begins(s, by)
<1>0. /\ disk \in Disks /\ NoStaleGrade /\ (NoMeddling' => NoMeddling)
      /\ \A t \in Sessions : disk[t] \in Files
  BY GapsKept DEF TypeInv, StoreType, Disks
<1>1. ASSUME disk' = disk, run' = run \/ (run.phase # "live" /\ run'.phase = "off")
      PROVE  Touches
  BY <1>1 DEF Touches, Same, Unarming
<1>2. CASE StartSave
  <2>1. section.s \in Sessions /\ Begins(section.s, "hand")
    BY <1>2, StartSaved DEF Begins
  <2> QED BY <2>1
<1>3. CASE \E s \in Sessions, by \in {"hand", "auto"} : Starts(s, by)
  <2>1. PICK s \in Sessions, by \in {"hand", "auto"} : Starts(s, by)
    BY <1>3
  <2>2. Begins(s, by)
    BY <2>1, StartsSaved DEF Begins, Starts
  <2> QED BY <2>2
<1>4. CASE FinalizeSave
  BY <1>4, FinalSaved
<1>5. CASE AbortReturns
  <2>1. CASE run.phase # "live"
    BY <1>5, <2>1, <1>1 DEF AbortReturns
  <2> QED BY <1>5, <2>1, AbortSaved
<1>6. CASE GiveUpSave
  <2>1. /\ section.s \in Sessions /\ section.file \in Files /\ ~Running /\ ~arm.on
        /\ disk' = [disk EXCEPT ![section.s] = section.file] /\ run' = run
        /\ section.kind = "give up"
    BY <1>6 DEF GiveUpSave, TypeInv, RunType, Sections, Movers
  <2>2. /\ ~section.file.auto
        /\ section.file.frames = disk[section.s].frames
        /\ section.file.crashes = disk[section.s].crashes
        /\ NoMeddling' => section.file.status = disk[section.s].status
    BY <1>0, <2>1 DEF FilesInv, GiveUpHeld
  <2>3. \A t \in Sessions : disk'[t] = IF t = section.s THEN section.file ELSE disk[t]
    BY <1>0, <2>1 DEF Disks
  <2> QED BY <2>1, <2>2, <2>3 DEF Touches, Same, Unarming, Running
<1>7. CASE \E s \in Sessions : Disarms(s)
  <2>1. PICK s \in Sessions : Disarms(s)
    BY <1>7
  <2>2. disk' = WriteDisarm(disk, s) /\ run' = run
    BY <2>1 DEF Disarms
  <2>3. \A t \in Sessions : /\ disk'[t].auto => disk[t].auto
                            /\ disk'[t].status = disk[t].status /\ disk'[t].frames = disk[t].frames
                            /\ disk'[t].crashes = disk[t].crashes /\ disk'[t].last = disk[t].last
    BY <1>0, <2>2, WriteDisarmType
  <2>4. run.phase = "live" => run.s \in Sessions
    BY DEF TypeInv, RunType
  <2> QED BY <2>2, <2>3, <2>4 DEF Touches, Same, Unarming
<1>8. CASE PatchSaves
  <2>1. disk' \in Patched /\ worker # Idle /\ worker' = Idle /\ run' = run
    BY <1>8 DEF PatchSaves, Unlocked, engine
  <2>2. /\ Alike(disk')
        /\ \/ \A t \in Sessions : disk'[t].status = disk[t].status
           \/ worker.op = "abandon" /\ \A t \in Sessions : disk'[t].status = disk[t].status
                                         \/ (t = worker.s /\ ~disk'[t].auto)
        /\ \/ Unarming(disk')
           \/ worker.op = "arm" /\ \A t \in Sessions : disk'[t].auto => t = worker.s
    BY <2>1, PatchedType DEF TypeInv
  <2>3. run.phase = "live" => run.s \in Sessions /\ disk[run.s].status = "active"
    BY <1>0 DEF TypeInv, RunType, FilesInv, Remembered
  <2>4. run.phase = "live" => disk'[run.s].status = disk[run.s].status
    BY <2>2, <2>3 DEF FilesInv, Worked
  <2>5. \A t \in Sessions : disk'[t].status = disk[t].status \/ ~disk'[t].auto
    BY <2>2
  <2>6. \A t \in Sessions : Same(t) /\ disk'[t].last = disk[t].last
    BY <2>2 DEF Alike, Same
  <2> QED BY <2>1, <2>2, <2>4, <2>5, <2>6 DEF Touches
<1>9. CASE RegradeSaves
  <2>1. disk' = disk /\ run' = run
    BY <1>9, RegradeSame DEF RegradeSaves, engine
  <2> QED BY <1>1, <2>1
<1>10. CASE RunDone
  <2>1. disk' = disk /\ run.phase # "live" /\ run'.phase = "off"
    BY <1>10, NoneTypes DEF RunDone, store
  <2> QED BY <1>1, <2>1
<1>11. CASE \/ Quiet \/ Reads \/ NightFalls
            \/ \E reason \in Reasons : FinalizeRead(reason)
            \/ \E s \in Sessions : TickGivesUp(s) \/ Regrade(s) \/ TickRecovers(s) \/ \E op \in Ops : Patch(op, s)
  <2>1. disk' = disk /\ run' = run
    BY <1>11 DEF Quiet, Reads, NightFalls, WindowOpens, FinalizeRead, TickGivesUp, Regrade,
                 TickRecovers, Patch, store, engine
  <2> QED BY <1>1, <2>1
<1> QED
  BY <1>2, <1>3, <1>4, <1>5, <1>6, <1>7, <1>8, <1>9, <1>10, <1>11 DEF OfRun, OfOthers

LEMMA MemKept ==
  ASSUME TypeInv, Movers, FilesInv, OfRun \/ OfOthers, run'.phase = "live"
  PROVE  run'.mem.status = "active" /\ run'.mem.behind = NoSession
<1>0. /\ run.phase = "live" => run.mem.status = "active" /\ run.mem.behind = NoSession
      /\ section.file \in Files /\ night \in Nat
  BY DEF FilesInv, Remembered, TypeInv, RunType, StoreType, Sections
<1>1. CASE StartSave
  <2>1. run' = RunOf(section.s, Started(section.file), section.by) /\ section.s \in Sessions
        /\ section.by = "hand"
    BY <1>1 DEF StartSave, StartRun, RunOf, TypeInv, RunType
  <2>2. Started(section.file) \in Files
    BY <1>0, StartedType
  <2>3. run'.mem = Started(section.file)
    BY <2>1, <2>2, RunOfType
  <2> QED BY <1>0, <2>3, StartedType
<1>2. CASE \E s \in Sessions, by \in {"hand", "auto"} : Starts(s, by)
  BY <1>2, StartsSaved
<1>3. CASE FrameBanked
  BY <1>3, FrameSaved
<1>4. CASE FinalizeSave \/ RunDone \/ AbortReturns \/ Reboots
  <2>1. run' \in {run, NoRun, RunEnded}
    BY <1>4 DEF FinalizeSave, RunDone, AbortReturns, Reboots, LetGo, RunEnded
  <2> QED BY <1>0, <2>1, NoneTypes, RunEndedType DEF TypeInv
<1>5. CASE \/ GiveUpSave \/ Quiet \/ Reads \/ NightFalls \/ PatchSaves \/ RegradeSaves
           \/ \E reason \in Reasons : FinalizeRead(reason)
           \/ \E s \in Sessions : \/ TickGivesUp(s) \/ Regrade(s) \/ TickRecovers(s) \/ Disarms(s) \/ Delete(s)
                                  \/ \E op \in Ops : Patch(op, s)
  <2>1. run' = run
    BY <1>5 DEF GiveUpSave, Quiet, Reads, NightFalls, PatchSaves, RegradeSaves, FinalizeRead, TickGivesUp,
                Regrade, TickRecovers, Disarms, Delete, Patch, store, engine
  <2> QED BY <1>0, <2>1
<1> QED BY <1>1, <1>2, <1>3, <1>4, <1>5 DEF OfRun, OfOthers

LEMMA DeleteSaved ==
  ASSUME TypeInv, NEW s \in Sessions, Delete(s)
  PROVE  /\ disk'[s] = Missing /\ run' = run
         /\ \A t \in Sessions \ {s} : disk'[t] = disk[t]
         /\ ~(run.phase = "live" /\ run.s = s)
         /\ ~disk'[s].auto /\ disk'[s].behind = NoSession /\ disk'[s].status = "none"
         /\ disk'[s].crashes = 0 /\ disk'[s].last = 0
<1>1. disk \in Disks /\ disk' = [disk EXCEPT ![s] = Missing] /\ run' = run
      /\ ~(run.phase = "live" /\ run.s = s)
  BY DEF Delete, TypeInv, StoreType, Disks, engine
<1>2. disk'[s] = Missing /\ \A t \in Sessions \ {s} : disk'[t] = disk[t]
  BY <1>1 DEF Disks
<1> QED BY <1>1, <1>2 DEF Missing

LEMMA RememberedKept ==
  ASSUME TypeInv, Movers, FilesInv, OfRun \/ OfOthers, Crosses
  PROVE  Remembered'
<1> SUFFICES ASSUME run'.phase = "live", NoStaleGrade'
             PROVE  /\ disk'[run'.s].status = "active"
                    /\ disk'[run'.s].frames = run'.mem.frames
                    /\ disk'[run'.s].crashes = run'.mem.crashes
  BY MemKept DEF Remembered
<1>0. run.phase = "live" => /\ run.s \in Sessions /\ disk[run.s].status = "active"
                            /\ disk[run.s].frames = run.mem.frames
                            /\ disk[run.s].crashes = run.mem.crashes
  BY GapsKept DEF FilesInv, Remembered, TypeInv, RunType
<1>1. CASE RunOver \/ Reboots
  BY <1>1, NoneTypes DEF RunOver, Reboots
<1>2. CASE FrameBanked
  BY <1>2, FrameSaved
<1>3. CASE Touches
  BY <1>0, <1>3 DEF Touches, Same
<1>4. CASE \E s \in Sessions : Delete(s)
  BY <1>0, <1>4, DeleteSaved
<1>5. CASE \E s \in Sessions, by \in {"hand", "auto"} : Begins(s, by)
  BY <1>5 DEF Begins
<1> QED BY <1>1, <1>2, <1>3, <1>4, <1>5, Effects

LEMMA FilesKept ==
  ASSUME TypeInv, Movers, FilesInv, Next
  PROVE  FilesInv'
<1>1. (OfRun \/ OfOthers) /\ Crosses
  BY StepKinds DEF TypeInv, Next, Proceeds, Ghosts
<1> QED BY <1>1, WorkedKept, RememberedKept, HeldKept DEF FilesInv

--------------------------------------------------------------------------------
(* At most one session is armed, and none of which it was taken back; what the *)
(* ladder has been raised for may be started.                                  *)
Open(f) == f.status \in {"dormant", "active"} /\ f.auto
Sole == NoMeddling /\ NoStaleGrade =>
          \A s, t \in Sessions : Open(disk[s]) /\ Open(disk[t]) => s = t

Heeded == NoMeddling /\ NoStaleGrade => \A s \in withdrawn : ~Wanted(disk[s])

Due == NoStaleGrade /\ arm.on => /\ disk[arm.s].crashes < GiveUpAfter
                                 /\ arm.s \in SingleNight => disk[arm.s].last \in {0, night}

(* An automatic start that has not ended cleanly is a crash the file counts,   *)
(* or the run that goes on.                                                    *)
Pending(s) == IF run.phase = "live" /\ run.s = s THEN 1 ELSE 0
Counted == NoStaleStart /\ NoStaleGrade => \A s \in Sessions : spree[s] <= disk[s].crashes + Pending(s)

GhostType == withdrawn \subseteq Sessions /\ spree \in [Sessions -> Nat]

RightInv == GhostType /\ Sole /\ Heeded /\ Due /\ Counted

LEMMA SoleKept ==
  ASSUME TypeInv, Movers, FilesInv, Sole, OfRun \/ OfOthers, Crosses
  PROVE  Sole'
<1> SUFFICES ASSUME NoMeddling', NoStaleGrade'
             PROVE  \A s, t \in Sessions : Open(disk'[s]) /\ Open(disk'[t]) => s = t
  BY DEF Sole
<1>0. /\ NoMeddling /\ NoStaleGrade
      /\ \A s, t \in Sessions : Open(disk[s]) /\ Open(disk[t]) => s = t
  BY GapsKept DEF Sole
<1>a. ASSUME \A t \in Sessions : Open(disk'[t]) => Open(disk[t])
      PROVE  \A s, t \in Sessions : Open(disk'[s]) /\ Open(disk'[t]) => s = t
  BY <1>0, <1>a
<1>b. ASSUME NEW w, \A t \in Sessions : disk'[t].auto => t = w
      PROVE  \A s, t \in Sessions : Open(disk'[s]) /\ Open(disk'[t]) => s = t
  BY <1>b DEF Open
<1>l. run.phase = "live" => run.s \in Sessions /\ disk[run.s].status = "active"
  BY <1>0 DEF TypeInv, RunType, FilesInv, Remembered
<1>1. CASE RunOver
  <2>1. CASE Unarming(disk')
    <3>1. \A t \in Sessions : Open(disk'[t]) => Open(disk[t])
      BY <1>1, <1>l, <2>1 DEF RunOver, Unarming, Open
    <3> QED BY <3>1, <1>a
  <2>2. CASE \E w \in Sessions : \A t \in Sessions : disk'[t].auto => t = w
    BY <2>2, <1>b
  <2> QED BY <1>0, <1>1, <2>1, <2>2 DEF RunOver
<1>2. CASE FrameBanked
  <2>1. \A t \in Sessions : Open(disk'[t]) => Open(disk[t])
    BY <1>2, <1>l, FrameSaved DEF Open
  <2> QED BY <2>1, <1>a
<1>3. CASE Touches
  <2>1. CASE Unarming(disk')
    <3>1. \A t \in Sessions : Open(disk'[t]) => Open(disk[t])
      BY <1>3, <2>1 DEF Touches, Unarming, Open
    <3> QED BY <3>1, <1>a
  <2>2. CASE \A t \in Sessions : disk'[t].auto => t = worker.s
    BY <2>2, <1>b
  <2> QED BY <1>3, <2>1, <2>2 DEF Touches
<1>4. CASE \E s \in Sessions : Delete(s)
  <2>1. \A t \in Sessions : Open(disk'[t]) => Open(disk[t])
    BY <1>4, DeleteSaved DEF Open
  <2> QED BY <2>1, <1>a
<1>5. CASE \E s \in Sessions, by \in {"hand", "auto"} : Begins(s, by)
  <2>1. PICK s \in Sessions, by \in {"hand", "auto"} : Begins(s, by)
    BY <1>5
  <2>2. \A t \in Sessions : disk'[t].auto => t = s
    BY <2>1 DEF Begins
  <2> QED BY <2>2, <1>b
<1>6. CASE Reboots
  <2>1. disk' = BootSweep(disk) /\ disk \in Disks
    BY <1>6 DEF Reboots, TypeInv, StoreType, Disks
  <2>2. \A t \in Sessions : /\ disk'[t].status = IF disk[t].status = "active" THEN "dormant" ELSE disk[t].status
                            /\ disk'[t].auto = disk[t].auto
    BY <2>1, BootSweepType
  <2>3. \A t \in Sessions : Open(disk'[t]) => Open(disk[t])
    BY <2>2 DEF Open
  <2> QED BY <2>3, <1>a
<1> QED BY <1>1, <1>2, <1>3, <1>4, <1>5, <1>6, Effects

(* Nothing becomes wanted, armed or queued, that was not, unless it is asked   *)
(* for.                                                                        *)
LEMMA WantedByWhom ==
  ASSUME TypeInv, Movers, FilesInv, OfRun \/ OfOthers, Crosses, NoMeddling', NoStaleGrade',
         NEW s \in Sessions, Wanted(disk'[s])
  PROVE  Wanted(disk[s]) \/ AskedFor(s)
<1> SUFFICES ASSUME disk'[s].auto
             PROVE  Wanted(disk[s]) \/ AskedFor(s)
  BY DEF Wanted, AskedFor
<1>0. NoMeddling /\ NoStaleGrade
  BY GapsKept
<1>1. CASE RunOver
  BY <1>0, <1>1 DEF RunOver, Unarming, Wanted
<1>2. CASE FrameBanked
  BY <1>2, FrameSaved DEF Wanted
<1>3. CASE Touches
  BY <1>3 DEF Touches, Unarming, Wanted, AskedFor
<1>4. CASE \E t \in Sessions : Delete(t)
  BY <1>4, DeleteSaved DEF Wanted
<1>5. CASE \E t \in Sessions, by \in {"hand", "auto"} : Begins(t, by)
  <2>1. PICK t \in Sessions, by \in {"hand", "auto"} : Begins(t, by)
    BY <1>5
  <2>2. s = t
    BY <2>1 DEF Begins
  <2>3. CASE by = "hand"
    BY <2>1, <2>2, <2>3 DEF Begins, AskedFor
  <2>4. CASE by = "auto"
    BY <2>1, <2>2, <2>4 DEF Begins, IsArmed, Wanted
  <2> QED BY <2>3, <2>4
<1>6. CASE Reboots
  <2>1. disk' = BootSweep(disk) /\ disk \in Disks
    BY <1>6 DEF Reboots, TypeInv, StoreType, Disks
  <2>2. disk'[s].auto = disk[s].auto
    BY <2>1, BootSweepType
  <2> QED BY <2>2 DEF Wanted
<1> QED BY <1>1, <1>2, <1>3, <1>4, <1>5, <1>6, Effects

LEMMA HeededKept ==
  ASSUME TypeInv, Movers, FilesInv, Heeded, OfRun \/ OfOthers, Crosses, Will
  PROVE  Heeded'
<1> SUFFICES ASSUME NoMeddling', NoStaleGrade', NEW s \in withdrawn', Wanted(disk'[s])
             PROVE  FALSE
  BY DEF Heeded
<1>1. s \in Sessions /\ (s \in withdrawn \/ TakenBack(s)) /\ ~AskedFor(s)
  BY DEF Will
<1>2. Wanted(disk[s])
  BY <1>1, WantedByWhom
<1>3. s \notin withdrawn
  BY <1>2, GapsKept DEF Heeded
<1>4. aborting = "task" /\ run.phase = "live" /\ run.s = s /\ run'.phase = "winding"
  BY <1>1, <1>3 DEF TakenBack
<1>5. RunOver
  <2>1. ~FrameBanked
    BY <1>4, FrameSaved
  <2>2. ~Touches
    BY <1>4 DEF Touches
  <2>3. ~Reboots
    BY <1>4, NoneTypes DEF Reboots
  <2>4. \A t \in Sessions : ~Delete(t)
    BY <1>4, DeleteSaved
  <2>5. \A t \in Sessions, by \in {"hand", "auto"} : ~Begins(t, by)
    BY <1>4 DEF Begins, Running
  <2> QED BY <2>1, <2>2, <2>3, <2>4, <2>5, Effects
<1> QED BY <1>4, <1>5 DEF RunOver, Wanted

LEMMA DueKept ==
  ASSUME TypeInv, Movers, FilesInv, Due, Next
  PROVE  Due'
<1> SUFFICES ASSUME NoStaleGrade', arm'.on
             PROVE  /\ disk'[arm'.s].crashes < GiveUpAfter
                    /\ arm'.s \in SingleNight => disk'[arm'.s].last \in {0, night'}
  BY DEF Due
<1>0. /\ OfRun \/ OfOthers
      /\ Crosses
  BY StepKinds DEF TypeInv, Next, Proceeds, Ghosts
<1>1. CASE \E s \in Sessions : TickRecovers(s)
  <2>1. PICK s \in Sessions : TickRecovers(s)
    BY <1>1
  <2>2. disk' = disk /\ night' = night /\ arm'.s = s /\ ~GivesUp(s) /\ ~AnotherNight(s)
    BY <2>1 DEF TickRecovers, store, NoLadder, Willing
  <2>3. disk[s].crashes \in Nat /\ GiveUpAfter \in Nat
    BY ResumeArmAssumption DEF TypeInv, StoreType, Files
  <2> QED BY <2>2, <2>3 DEF GivesUp, AnotherNight
<1>2. CASE ArmKept
  <2>1. arm.on /\ arm'.s = arm.s /\ arm.s \in Sessions /\ ~Running
    BY <1>2 DEF ArmKept, Movers, TypeInv, ArmType
  <2>2. /\ disk[arm.s].crashes < GiveUpAfter
        /\ arm.s \in SingleNight => disk[arm.s].last \in {0, night}
    BY <1>0, <2>1, GapsKept DEF Due
  <2>3. night' = night
    BY <1>0, <2>1 DEF OfRun, StartSave, FrameBanked, FinalizeSave, RunDone, GiveUpSave, FinalizeRead,
            TickGivesUp, AbortReturns, store, OfOthers, Quiet, Reads, NightFalls, WindowOpens,
            Reboots, PatchSaves, RegradeSaves, Disarms, Regrade, Delete, TickRecovers, Starts, StartLocked, Patch
  <2>4. CASE Touches
    BY <2>1, <2>2, <2>3, <2>4 DEF Touches, Same
  <2>5. CASE \E s \in Sessions : Delete(s)
    <3>1. PICK s \in Sessions : Delete(s)
      BY <2>5
    <3>2. CASE s = arm.s
      <4>1. disk'[s].crashes = 0 /\ disk'[s].last = 0 /\ GiveUpAfter \in Nat \ {0}
        BY <3>1, DeleteSaved, ResumeArmAssumption
      <4> QED BY <2>1, <3>2, <4>1
    <3>3. CASE s # arm.s
      <4>1. disk'[arm.s] = disk[arm.s]
        BY <2>1, <3>1, <3>3, DeleteSaved
      <4> QED BY <2>1, <2>2, <2>3, <4>1
    <3> QED BY <3>2, <3>3
  <2>6. ~RunOver /\ ~FrameBanked
    BY <2>1 DEF RunOver, FrameBanked, Running
  <2>7. ~Reboots
    BY NoLadderType DEF Reboots
  <2>8. \A s \in Sessions, by \in {"hand", "auto"} : ~Begins(s, by)
    BY MoversKept DEF Begins, Movers, Running
  <2> QED BY <1>0, <2>4, <2>5, <2>6, <2>7, <2>8, Effects
<1> QED BY <1>1, <1>2, ArmStep DEF TypeInv

LEMMA CountedKept ==
  ASSUME TypeInv, Movers, FilesInv, GhostType, Counted, OfRun \/ OfOthers, Crosses, Spree
  PROVE  Counted'
<1> SUFFICES ASSUME NoStaleStart', NoStaleGrade', NEW s \in Sessions
             PROVE  spree'[s] <= disk'[s].crashes + Pending(s)'
  BY DEF Counted
<1>0. /\ NoStaleStart /\ NoStaleGrade /\ spree[s] <= disk[s].crashes + Pending(s)
      /\ spree[s] \in Nat /\ disk[s].crashes \in Nat
  BY GapsKept DEF Counted, GhostType, TypeInv, StoreType, Files
<1>1. disk' \in Disks /\ disk'[s].crashes \in Nat
  BY DiskKept DEF Disks, Files
<1>2. spree'[s] = CASE run.phase # "live" /\ run'.phase = "live" /\ run'.s = s /\ run'.by = "auto" -> spree[s] + 1
                    [] disk'[s].status = "none" -> 0
                    [] run.phase = "live" /\ run.s = s /\ run'.phase = "winding" /\ disk'[s].crashes = 0 -> 0
                    [] OTHER -> spree[s]
  BY DEF Spree
<1>p. Pending(s)' = IF run'.phase = "live" /\ run'.s = s THEN 1 ELSE 0
  BY DEF Pending
<1>l. run.phase = "live" => /\ run.s \in Sessions /\ disk[run.s].status = "active"
                            /\ disk[run.s].crashes = run.mem.crashes
  BY <1>0 DEF FilesInv, Remembered, TypeInv, RunType
<1>3. CASE RunOver
  <2>1. CASE s = run.s
    <3>1. disk'[s].crashes \in {0, disk[s].crashes + 1}
      BY <1>3, <1>l, <2>1 DEF RunOver
    <3> QED BY <1>0, <1>1, <1>2, <1>3, <1>p, <2>1, <3>1 DEF RunOver, Pending
  <2>2. CASE s # run.s
    <3>1. disk'[s].crashes = disk[s].crashes
      BY <1>3, <2>2 DEF RunOver, Same
    <3> QED BY <1>0, <1>1, <1>2, <1>3, <1>p, <2>2, <3>1 DEF RunOver, Pending
  <2> QED BY <2>1, <2>2
<1>4. CASE FrameBanked
  <2>1. disk'[s].crashes = disk[s].crashes /\ run.phase = "live" /\ run'.phase = "live" /\ run'.s = run.s
    BY <1>4, <1>l, FrameSaved
  <2> QED BY <1>0, <1>2, <1>p, <2>1 DEF Pending
<1>5. CASE Touches
  <2>1. /\ disk'[s].crashes = disk[s].crashes
        /\ run.phase = "live" \/ run'.phase = "live" => run' = run
    BY <1>5 DEF Touches, Same
  <2> QED BY <1>0, <1>2, <1>p, <2>1 DEF Pending
<1>6. CASE \E t \in Sessions : Delete(t)
  <2>1. PICK t \in Sessions : Delete(t)
    BY <1>6
  <2>2. /\ run' = run
        /\ s = t => disk'[s].status = "none" /\ disk'[s].crashes = 0
        /\ s # t => disk'[s] = disk[s]
    BY <2>1, DeleteSaved
  <2> QED BY <1>0, <1>1, <1>2, <1>p, <2>2 DEF Pending
<1>7. CASE \E t \in Sessions, by \in {"hand", "auto"} : Begins(t, by)
  <2>1. PICK t \in Sessions, by \in {"hand", "auto"} : Begins(t, by)
    BY <1>7
  <2>2. /\ disk'[s].crashes = disk[s].crashes
        /\ run.phase # "live" /\ run'.phase = "live" /\ run'.s = t
    BY <2>1 DEF Begins, Same, Running
  <2> QED BY <1>0, <1>1, <1>2, <1>p, <2>2 DEF Pending
<1>8. CASE Reboots
  <2>1. disk' = BootSweep(disk) /\ disk \in Disks /\ run' = NoRun
    BY <1>8 DEF Reboots, TypeInv, StoreType, Disks
  <2>2. /\ disk'[s].crashes = IF disk[s].status = "active" THEN disk[s].crashes + 1 ELSE disk[s].crashes
        /\ run'.phase = "off"
    BY <2>1, BootSweepType, NoneTypes
  <2>3. Pending(s) = 1 => disk[s].status = "active"
    BY <1>l DEF Pending
  <2> QED BY <1>0, <1>1, <1>2, <1>p, <2>2, <2>3 DEF Pending
<1> QED BY <1>3, <1>4, <1>5, <1>6, <1>7, <1>8, Effects

LEMMA GhostKept ==
  ASSUME GhostType, Spree, Will
  PROVE  GhostType'
<1>1. withdrawn' \subseteq Sessions
  BY DEF Will
<1>2. \A s \in Sessions : spree[s] \in Nat /\ spree[s] + 1 \in Nat
  BY DEF GhostType
<1> DEFINE n(s) == CASE run.phase # "live" /\ run'.phase = "live" /\ run'.s = s /\ run'.by = "auto" -> spree[s] + 1
                     [] disk'[s].status = "none" -> 0
                     [] run.phase = "live" /\ run.s = s /\ run'.phase = "winding" /\ disk'[s].crashes = 0 -> 0
                     [] OTHER -> spree[s]
<1>3. \A s \in Sessions : n(s) \in Nat
  BY <1>2
<1>4. spree' = [s \in Sessions |-> n(s)]
  BY DEF Spree
<1> QED BY <1>1, <1>3, <1>4 DEF GhostType

SessionInv == MountInv /\ FilesInv /\ RightInv

LEMMA SessionInit == Init => SessionInv
<1> SUFFICES ASSUME Init PROVE SessionInv
  OBVIOUS
<1>1. MountInv
  BY MountInit
<1>2. /\ worker = Idle /\ run.phase = "off" /\ section.kind = "none" /\ ~arm.on
      /\ withdrawn = {} /\ spree = [s \in Sessions |-> 0]
  BY NoneTypes, NoLadderType DEF Init, StoreInit, RunInit, ArmInit
<1>3. FilesInv
  BY <1>2 DEF FilesInv, Worked, Remembered, StartHeld, GiveUpHeld, FinalHeld, Locked, Idle
<1>4. Sole
  <2>1. PICK armed : disk = [s \in Sessions |-> [Missing EXCEPT !.status = "dormant", !.auto = (s = armed)]]
    BY DEF Init, StoreInit
  <2>2. \A s \in Sessions : disk[s].auto => s = armed
    BY <2>1 DEF Missing
  <2> QED BY <2>2 DEF Sole, Open
<1>5. Counted
  BY <1>1, <1>2 DEF Counted, Pending, MountInv, TypeInv, StoreType, Files
<1> QED BY <1>1, <1>2, <1>3, <1>4, <1>5 DEF SessionInv, RightInv, GhostType, Heeded, Due

LEMMA SessionStep == SessionInv /\ [Next]_vars => SessionInv'
<1> SUFFICES ASSUME SessionInv, [Next]_vars PROVE SessionInv'
  OBVIOUS
<1>0. MountInv'
  BY MountStep DEF SessionInv
<1>1. CASE Next
  <2>1. /\ TypeInv /\ Movers /\ FilesInv /\ RightInv
        /\ OfRun \/ OfOthers
        /\ Crosses /\ Spree /\ Will
    BY <1>1, StepKinds DEF SessionInv, MountInv, TypeInv, Next, Proceeds, Ghosts
  <2>2. FilesInv'
    BY <1>1, <2>1, FilesKept
  <2>3. RightInv'
    BY <1>1, <2>1, GhostKept, SoleKept, HeededKept, DueKept, CountedKept DEF RightInv
  <2> QED BY <1>0, <2>2, <2>3 DEF SessionInv
<1>2. CASE UNCHANGED vars
  <2>1. UNCHANGED <<disk, worker, night, run, section, aborting, arm, crossed, spree, withdrawn>>
    BY <1>2 DEF vars, store, engine, ladder
  <2>2. FilesInv'
    BY <2>1 DEF SessionInv, FilesInv, Worked, Remembered, StartHeld, GiveUpHeld, FinalHeld, Locked,
                NoMeddling, NoStaleGrade, NoStaleStart
  <2>3. RightInv'
    BY <2>1 DEF SessionInv, RightInv, GhostType, Sole, Open, Heeded, Wanted, Due, Counted, Pending,
                NoMeddling, NoStaleGrade, NoStaleStart
  <2> QED BY <1>0, <2>2, <2>3 DEF SessionInv
<1> QED BY <1>1, <1>2

LEMMA SessionCorrect == Spec => []SessionInv
BY SessionInit, SessionStep, PTL DEF Spec

LEMMA AtMostOne ==
  ASSUME NEW d \in Disks, \A s, t \in Sessions : Open(d[s]) /\ Open(d[t]) => s = t
  PROVE  Cardinality({s \in {t \in Sessions : d[t].status \in {"dormant", "active"}} : d[s].auto}) <= 1
<1> DEFINE A == {s \in {t \in Sessions : d[t].status \in {"dormant", "active"}} : d[s].auto}
<1>1. \A s, t \in A : s = t
  BY DEF Open
<1>2. CASE A = {}
  BY <1>2, FS_EmptySet
<1>3. CASE A # {}
  <2>1. PICK s : s \in A
    BY <1>3
  <2>2. A = {s}
    BY <1>1, <2>1
  <2>3. Cardinality({s}) = 1
    BY FS_Singleton
  <2> QED BY <2>2, <2>3
<1> QED BY <1>2, <1>3

LEMMA FramesNeverLost ==
  ASSUME TypeInv, Movers, FilesInv, OfRun \/ OfOthers, Crosses, NoStaleStart', NoStaleGrade'
  PROVE  FramesKept
<1> SUFFICES ASSUME NEW s \in Sessions, disk'[s].status # "none"
             PROVE  disk'[s].frames >= disk[s].frames
  BY DEF FramesKept
<1>0. disk[s].frames \in Nat /\ disk'[s].frames \in Nat
  BY DiskKept DEF TypeInv, StoreType, Disks, Files
<1>l. run.phase = "live" => disk[run.s].frames = run.mem.frames
  BY GapsKept DEF FilesInv, Remembered
<1>1. CASE RunOver
  BY <1>0, <1>1, <1>l DEF RunOver, Same
<1>2. CASE FrameBanked
  <2>1. s = run.s => disk'[s].frames = disk[s].frames + 1
    BY <1>2, <1>l, FrameSaved
  <2>2. s # run.s => disk'[s] = disk[s]
    BY <1>2, FrameSaved
  <2> QED BY <1>0, <2>1, <2>2
<1>3. CASE Touches
  BY <1>0, <1>3 DEF Touches, Same
<1>4. CASE \E t \in Sessions : Delete(t)
  <2>1. disk'[s] = disk[s]
    BY <1>4, DeleteSaved
  <2> QED BY <1>0, <2>1
<1>5. CASE \E t \in Sessions, by \in {"hand", "auto"} : Begins(t, by)
  <2>1. disk'[s].frames = disk[s].frames
    BY <1>5 DEF Begins, Same
  <2> QED BY <1>0, <2>1
<1>6. CASE Reboots
  <2>1. disk' = BootSweep(disk) /\ disk \in Disks
    BY <1>6 DEF Reboots, TypeInv, StoreType, Disks
  <2>2. disk'[s].frames = disk[s].frames
    BY <2>1, BootSweepType
  <2> QED BY <1>0, <2>2
<1> QED BY <1>1, <1>2, <1>3, <1>4, <1>5, <1>6, Effects

(* FilesTrue, of one step.                                                     *)
TrueAfter ==
  /\ Never({"regrade"})' => FileAgrees'
  /\ Never({"unlocked", "regrade"})' => OneArmed'
  /\ Never({"preflight", "regrade"})' => FramesKept

LEMMA NeverIsNext ==
  /\ Never({"regrade"})' <=> NoStaleGrade'
  /\ Never({"unlocked", "regrade"})' <=> NoMeddling' /\ NoStaleGrade'
  /\ Never({"preflight", "regrade"})' <=> NoStaleStart' /\ NoStaleGrade'
BY DEF Never, NoMeddling, NoStaleStart, NoStaleGrade

(* Whoever writes the files last, start, banked frames, _finalize_report,      *)
(* _give_up_and_stow, the PATCHes, the sweep at boot: the running session's    *)
(* file says that it runs, at most one session is armed, and no banked frame   *)
(* leaves a file, but over the gaps that each of the three names.              *)
THEOREM FilesTrueAlways == Spec => FilesTrue
<1>1. SessionInv /\ [Next]_vars => [TrueAfter]_vars
  <2> SUFFICES ASSUME SessionInv, Next PROVE TrueAfter
    OBVIOUS
  <2>1. /\ TypeInv /\ Movers /\ FilesInv
        /\ OfRun \/ OfOthers
        /\ Crosses
    BY StepKinds DEF SessionInv, MountInv, TypeInv, Next, Proceeds, Ghosts
  <2>2. FilesInv' /\ RightInv' /\ TypeInv'
    BY SessionStep DEF SessionInv, MountInv
  <2>3. Never({"regrade"})' => FileAgrees'
    BY <2>2, NeverIsNext DEF FilesInv, Remembered, FileAgrees
  <2>4. ASSUME NoMeddling', NoStaleGrade'
        PROVE  OneArmed'
    <3>1. disk' \in Disks
      BY <2>1, DiskKept
    <3>2. \A s, t \in Sessions : Open(disk'[s]) /\ Open(disk'[t]) => s = t
      BY <2>2, <2>4 DEF RightInv, Sole
    <3>3. Cardinality({s \in {t \in Sessions : disk'[t].status \in {"dormant", "active"}} : disk'[s].auto}) <= 1
      BY <3>1, <3>2, AtMostOne
    <3> QED BY <3>3 DEF OneArmed, Unfinished
  <2>5. NoStaleStart' /\ NoStaleGrade' => FramesKept
    BY <2>1, FramesNeverLost
  <2> QED BY <2>3, <2>4, <2>5, NeverIsNext DEF TrueAfter
<1>2. [][TrueAfter]_vars => FilesTrue
  BY PTL DEF FilesTrue, TrueAfter
<1> QED BY <1>1, <1>2, SessionCorrect, PTL DEF Spec

(* StartsRightly, of one step.                                                 *)
RightStart ==
  \A s \in Sessions : StartsByItself(s) =>
    /\ Never({"unlocked", "regrade"}) => s \notin withdrawn
    /\ Never({"regrade"}) /\ s \in SingleNight => disk[s].last \in {0, night}
    /\ Never({"preflight", "regrade"}) => spree[s] < GiveUpAfter

(* A session started by itself is the one whose ladder was up, armed still.    *)
LEMMA StartedByLadder ==
  ASSUME TypeInv, Movers, FilesInv, OfRun \/ OfOthers, NEW s \in Sessions, StartsByItself(s)
  PROVE  arm.on /\ arm.s = s /\ IsArmed(s)
<1>0. run.phase = "off" /\ run'.phase = "live" /\ run'.s = s /\ run'.by = "auto"
  BY DEF StartsByItself
<1>1. CASE \E t \in Sessions, by \in {"hand", "auto"} : Starts(t, by)
  <2>1. PICK t \in Sessions, by \in {"hand", "auto"} : Starts(t, by)
    BY <1>1
  <2>2. t = s /\ by = "auto"
    BY <1>0, <2>1, StartsSaved
  <2> QED BY <2>1, <2>2 DEF Starts
<1>2. CASE StartSave
  <2>1. run' = RunOf(section.s, Started(section.file), "hand")
    BY <1>2 DEF StartSave, StartRun, RunOf, TypeInv, RunType
  <2>2. run'.by = "hand"
    BY <2>1 DEF RunOf
  <2> QED BY <1>0, <2>2
<1>3. CASE FinalizeSave \/ RunDone \/ AbortReturns \/ Reboots
  <2>1. run' \in {run, NoRun, RunEnded}
    BY <1>3 DEF FinalizeSave, RunDone, AbortReturns, Reboots, LetGo, RunEnded
  <2> QED BY <1>0, <2>1, NoneTypes, RunEndedType DEF TypeInv
<1>4. CASE FrameBanked
  BY <1>0, <1>4 DEF FrameBanked
<1>5. CASE \/ GiveUpSave \/ Quiet \/ Reads \/ NightFalls \/ PatchSaves \/ RegradeSaves
           \/ \E reason \in Reasons : FinalizeRead(reason)
           \/ \E t \in Sessions : \/ TickGivesUp(t) \/ Regrade(t) \/ TickRecovers(t) \/ Disarms(t) \/ Delete(t)
                                  \/ \E op \in Ops : Patch(op, t)
  <2>1. run' = run
    BY <1>5 DEF GiveUpSave, Quiet, Reads, NightFalls, PatchSaves, RegradeSaves, FinalizeRead, TickGivesUp,
                Regrade, TickRecovers, Disarms, Delete, Patch, store, engine
  <2> QED BY <1>0, <2>1
<1> QED BY <1>1, <1>2, <1>3, <1>4, <1>5 DEF OfRun, OfOthers

(* What is started unattended may be: not a session that was taken back, not   *)
(* a single-night plan on a later night, and no more than GiveUpAfter times    *)
(* in a row without a clean ending, whatever crashed and restarted between.    *)
THEOREM StartsRightlyAlways == Spec => StartsRightly
<1>1. SessionInv /\ [Next]_vars => [RightStart]_vars
  <2> SUFFICES ASSUME SessionInv, Next, NEW s \in Sessions, StartsByItself(s)
               PROVE  /\ NoMeddling /\ NoStaleGrade => s \notin withdrawn
                      /\ NoStaleGrade /\ s \in SingleNight => disk[s].last \in {0, night}
                      /\ NoStaleStart /\ NoStaleGrade => spree[s] < GiveUpAfter
    BY NeverIs DEF RightStart
  <2>1. /\ TypeInv /\ Movers /\ FilesInv /\ RightInv
        /\ OfRun \/ OfOthers
    BY StepKinds DEF SessionInv, MountInv, TypeInv
  <2>2. arm.on /\ arm.s = s /\ IsArmed(s)
    BY <2>1, StartedByLadder
  <2>3. NoMeddling /\ NoStaleGrade => s \notin withdrawn
    BY <2>1, <2>2 DEF RightInv, Heeded, Wanted, IsArmed
  <2>4. NoStaleGrade => /\ disk[s].crashes < GiveUpAfter
                        /\ s \in SingleNight => disk[s].last \in {0, night}
    BY <2>1, <2>2 DEF RightInv, Due
  <2>5. NoStaleStart /\ NoStaleGrade => spree[s] <= disk[s].crashes
    <3>1. Pending(s) = 0 /\ disk[s].crashes \in Nat
      BY <2>1 DEF Pending, StartsByItself, TypeInv, StoreType, Files
    <3> QED BY <2>1, <3>1 DEF RightInv, Counted
  <2>6. disk[s].crashes \in Nat /\ spree[s] \in Nat /\ GiveUpAfter \in Nat
    BY <2>1, ResumeArmAssumption DEF TypeInv, StoreType, Files, RightInv, GhostType
  <2> QED BY <2>3, <2>4, <2>5, <2>6
<1>2. [][RightStart]_vars => StartsRightly
  BY PTL DEF StartsRightly, RightStart
<1> QED BY <1>1, <1>2, SessionCorrect, PTL DEF Spec
================================================================================

------------------------------ MODULE RunSafety ------------------------------
(***************************************************************************)
(* The sequence run's safety side, sequence/engine.py: the safety gate and  *)
(* its debounce, what an unsafe verdict does (_on_unsafe), the open-sky     *)
(* pause, the auto-reopen close and wait, target acquisition, the park and  *)
(* its read-back, and the wind-down.                                        *)
(*                                                                          *)
(* pc     where the run task stands                                         *)
(* ctx    what the gate was asked for: a slew (setup) or a frame            *)
(* unsafeStreak, safeStreak   the two debounce counters                     *)
(* clean  history: consecutive safe reads the run has taken, capped         *)
(* sky    the hub's cached safety reading: safe, unsafe, stale or missing   *)
(* pk     where _park_and_read_back stands                                  *)
(* wd     the wind-down's parameters and what came of its park              *)
(***************************************************************************)
EXTENDS CloseObservatory, HubMotion

CONSTANTS
    CloseOnUnsafe,     \* safety.close_dome_on_unsafe, with a dome present
    ReopenWhenSafe,    \* safety.reopen_dome_when_safe
    OnUnsafeAction,    \* safety.on_unsafe
    UnsafeN,           \* safety.unsafe_consecutive
    ResumeN,           \* safety.resume_safe_consecutive
    MaxPause,          \* safety.max_pause_min > 0
    ParkWhenDone,      \* plan.park_when_done
    CloseWhenDone,     \* safety.close_dome_when_done
    MayCentre, MayNotCentre   \* the plan has targets with center on / off

ASSUME RunAssumption ==
    /\ {CloseOnUnsafe, ReopenWhenSafe, MaxPause, ParkWhenDone, CloseWhenDone,
        MayCentre, MayNotCentre} \subseteq BOOLEAN
    /\ OnUnsafeAction \in {"warn", "pause", "park"}
    /\ UnsafeN \in Nat \ {0}
    /\ ResumeN \in Nat \ {0}

VARIABLES pc, ctx, unsafeStreak, safeStreak, clean, sky, pk, wd

run == <<pc, ctx, unsafeStreak, safeStreak, clean, sky, pk, wd>>

(* What the steps of one phase leave alone. *)
gateVars == <<ctx, unsafeStreak>>
waitVars == <<safeStreak, clean>>
parkVars == <<pk, wd>>

GatePcs == {"idle", "gate", "confirm", "expose"}
AcquirePcs == {"acquire", "centring", "ucUnpark", "ucTrack", "ucSlew",
               "ucSend", "ucArrive", "opHold", "opHoldSlew"}
HoldPcs == {"hold0", "hold", "holdCool"}
ReopenPcs == {"crStop", "crPark", "crParking", "crUnknown", "crClose",
              "reopen", "reopenCool", "reopenAgain", "opening"}
WindPcs == {"wdPark", "wdParking", "wdClose", "wdRoof", "wdEnd"}
Skies == {"safe", "unsafe", "stale"}
ParkSteps == {"none", "wait", "sent1", "seen1", "sent2", "seen2",
              "yes", "no", "unknown"}
WindDowns == [park : BOOLEAN, close : BOOLEAN, shielded : BOOLEAN,
              cancelled : BOOLEAN, parked : {"none", "yes", "no", "unknown"}]

RunTypeOK ==
    /\ pc \in GatePcs \cup AcquirePcs \cup HoldPcs \cup ReopenPcs \cup WindPcs
    /\ ctx \in {"slew", "frame"}
    /\ unsafeStreak \in 0 .. UnsafeN
    /\ safeStreak \in 0 .. ResumeN
    /\ clean \in 0 .. ResumeN
    /\ sky \in Skies
    /\ pk \in ParkSteps
    /\ wd \in WindDowns

NoWindDown == [park |-> FALSE, close |-> FALSE, shielded |-> FALSE,
               cancelled |-> FALSE, parked |-> "none"]

RunInit ==
    /\ pc = "idle" /\ ctx = "slew"
    /\ unsafeStreak = 0 /\ safeStreak = 0 /\ clean = 0
    /\ sky \in Skies
    /\ pk = "none" /\ wd = NoWindDown

Live == pc # "idle"

(* The hub's safety poller: the cached reading changes under the run.       *)
SkyChanges ==
    /\ sky' \in Skies \ {sky}
    /\ UNCHANGED <<rig, co, hub, pc, gateVars, waitVars, parkVars>>

----------------------------------------------------------------------------
(* How a run leaves its work: the wind-down it asks for.                    *)
WindDown(park, close, shielded) ==
    /\ pc' = "wdPark"
    /\ wd' = [NoWindDown EXCEPT !.park = park, !.close = close,
                                !.shielded = shielded]

(* SafetyAbort: the shielded park, and the roof with it.                    *)
SafetyAbort == WindDown(TRUE, CloseOnUnsafe, TRUE)

(* PositionUnknownStop: nothing aimed, and no roof that needs a parked tube.*)
PositionUnknownStop == WindDown(FALSE, CloseOnUnsafe /\ ~RequiresPark, TRUE)

(* The gate lets the caller go on: a frame, or (past the mount's limits,    *)
(* which may refuse) the acquisition.                                       *)
Proceed ==
    IF ctx = "frame" THEN pc' = "expose" /\ UNCHANGED wd
    ELSE \/ pc' = "acquire" /\ UNCHANGED wd
         \/ SafetyAbort                             \* _enforce_mount_floor

(* _on_unsafe, the dome branch first. *)
OnUnsafe ==
    IF CloseOnUnsafe
    THEN IF ReopenWhenSafe THEN pc' = "crStop" /\ UNCHANGED wd ELSE SafetyAbort
    ELSE CASE OnUnsafeAction = "warn" -> Proceed
           [] OnUnsafeAction = "park" -> SafetyAbort
           [] OnUnsafeAction = "pause" -> pc' = "hold0" /\ UNCHANGED wd

Start ==
    /\ pc = "idle"
    /\ pc' = "gate" /\ ctx' = "slew"
    /\ wd' = NoWindDown
    /\ UNCHANGED <<rig, co, hub, unsafeStreak, waitVars, sky, pk>>

(* _safety_gate: stale or missing fails closed at once, unsafe is debounced.*)
SafetyGate ==
    /\ pc = "gate"
    /\ CASE sky = "safe"   -> Proceed /\ unsafeStreak' = 0
         [] sky = "stale"  -> OnUnsafe /\ UNCHANGED unsafeStreak
         [] sky = "unsafe" -> pc' = "confirm" /\ unsafeStreak' = 1 /\ UNCHANGED wd
    /\ UNCHANGED <<rig, co, hub, ctx, waitVars, sky, pk>>

(* Mutant: the debounce asks for one sample more. *)
MutConfirmUnsafe ==
    /\ pc = "confirm"
    /\ IF unsafeStreak > UnsafeN THEN OnUnsafe /\ UNCHANGED unsafeStreak
       ELSE IF sky = "safe" THEN Proceed /\ unsafeStreak' = 0
       ELSE unsafeStreak' = unsafeStreak + 1 /\ UNCHANGED <<pc, wd>>
    /\ UNCHANGED <<rig, co, hub, ctx, waitVars, sky, pk>>

(* _confirm_unsafe: unsafe_consecutive samples, one safe read clears it.    *)
ConfirmUnsafe ==
    /\ pc = "confirm"
    /\ IF unsafeStreak >= UnsafeN THEN OnUnsafe /\ UNCHANGED unsafeStreak
       ELSE IF sky = "safe" THEN Proceed /\ unsafeStreak' = 0
       ELSE unsafeStreak' = unsafeStreak + 1 /\ UNCHANGED <<pc, wd>>
    /\ UNCHANGED <<rig, co, hub, ctx, waitVars, sky, pk>>

(* A frame boundary, the next target's setup, or the night's end.           *)
FrameDone ==
    /\ pc = "expose"
    /\ \/ pc' = "gate" /\ ctx' \in {"frame", "slew"} /\ UNCHANGED wd
       \/ WindDown(ParkWhenDone, CloseWhenDone, FALSE) /\ UNCHANGED ctx
    /\ UNCHANGED <<rig, co, hub, unsafeStreak, waitVars, sky, pk>>

----------------------------------------------------------------------------
(* _setup_target past its gate: nothing is aimed from an unknown position;  *)
(* centred through the hub, or unparked and slewed by the run itself,       *)
(* outside the motion lock.                                                 *)
Acquire ==
    /\ pc = "acquire"
    /\ IF ~posKnown
       THEN StopTracking /\ PositionUnknownStop /\ UNCHANGED <<fenced, halted, go>>
       ELSE /\ UNCHANGED <<mount, faults, wd>>
            /\ \/ /\ MayCentre
                  /\ GoTo("run", "entered") /\ ReadEpoch("run")
                  /\ pc' = "centring"
               \/ /\ MayNotCentre
                  /\ pc' = "ucUnpark" /\ UNCHANGED <<fenced, halted, go>>
    /\ UNCHANGED <<roof, posKnown, lock, co, gateVars, waitVars, sky, pk>>

(* The centring's answer: an operator's halt holds the run; any other abort *)
(* reads as no light and is tried again, or imaged on.                      *)
Centred ==
    /\ pc = "centring"
    /\ go["run"] \in {"done", "aborted", "unknown"}
    /\ GoTo("run", "none")
    /\ CASE go["run"] = "done" ->
              pc' = "expose" /\ UNCHANGED <<mount, faults, wd>>
         [] go["run"] = "unknown" ->
              StopTracking /\ PositionUnknownStop
         [] go["run"] = "aborted" ->
              /\ pc' \in IF "run" \in halted THEN {"opHold"} ELSE {"acquire", "expose"}
              /\ UNCHANGED <<mount, faults, wd>>
    /\ UNCHANGED <<roof, posKnown, lock, fenced, halted, co, gateVars, waitVars,
                   sky, pk>>

UncentredUnpark ==
    /\ pc = "ucUnpark"
    /\ mount' = AfterUnpark
    /\ pc' = "ucTrack"
    /\ UNCHANGED <<roof, posKnown, faults, co, hub, gateVars, waitVars, sky, parkVars>>

UncentredTrack ==
    /\ pc = "ucTrack"
    /\ mount' = AfterTrackOn
    /\ pc' = "ucSlew"
    /\ UNCHANGED <<roof, posKnown, faults, co, hub, gateVars, waitVars, sky, parkVars>>

(* A parked mount refuses the slew and the run fails (_safe_stop, which     *)
(* leaves the mount alone).                                                 *)
SendSlew ==
    /\ mount' = AfterSlew
    /\ pc' = IF mount = "parked" THEN "idle" ELSE "ucArrive"

(* The gate again right before the slew, and only now the epoch; then       *)
(* slew_in_mount_frame, with its await for a JNOW mount.                    *)
UncentredSlew ==
    /\ pc = "ucSlew"
    /\ IF ~posKnown
       THEN StopTracking /\ PositionUnknownStop /\ UNCHANGED <<fenced, halted>>
       ELSE /\ IF JnowMount THEN pc' = "ucSend" /\ UNCHANGED mount ELSE SendSlew
            /\ ReadEpoch("run")
            /\ UNCHANGED <<faults, wd>>
    /\ UNCHANGED <<roof, posKnown, lock, go, co, gateVars, waitVars, sky, pk>>

UncentredSend ==
    /\ pc = "ucSend"
    /\ SendSlew
    /\ UNCHANGED <<roof, posKnown, faults, co, hub, gateVars, waitVars, sky, parkVars>>

(* Arrived, halted by the operator, or stopped short: the target is skipped.*)
UncentredArrive ==
    /\ pc = "ucArrive"
    /\ mount # "slewing"
    /\ CASE mount = "tracking" -> pc' = "expose" /\ UNCHANGED wd
         [] mount # "tracking" /\ "run" \in halted ->
              pc' = "opHoldSlew" /\ UNCHANGED wd
         [] OTHER -> WindDown(ParkWhenDone, CloseWhenDone, FALSE)
    /\ UNCHANGED <<rig, co, hub, gateVars, waitVars, sky, pk>>

(* _hold_for_operator: only a resume ends it. *)
OperatorResumes ==
    /\ pc \in {"opHold", "opHoldSlew"}
    /\ pc' = IF pc = "opHold" THEN "acquire" ELSE "ucSlew"
    /\ UNCHANGED <<rig, co, hub, gateVars, waitVars, sky, parkVars>>

----------------------------------------------------------------------------
(* The safety waits: what one read does to the streak.                      *)
CountSafe ==
    /\ safeStreak' = IF safeStreak < ResumeN THEN safeStreak + 1 ELSE safeStreak
    /\ clean' = IF clean < ResumeN THEN clean + 1 ELSE clean

RestartStreak == safeStreak' = 0 /\ clean' = 0

(* Conditions safe again: past the mount's limits, the interrupted setup    *)
(* goes on, and a frame's gate sets its target up afresh.                   *)
Resume ==
    \/ /\ pc' = IF ctx = "slew" THEN "acquire" ELSE "gate"
       /\ ctx' = "slew"
       /\ UNCHANGED wd
    \/ SafetyAbort /\ UNCHANGED ctx

(* _park_hold_pause: stop tracking, then poll.                              *)
HoldStop ==
    /\ pc = "hold0"
    /\ StopTracking
    /\ pc' = "hold" /\ RestartStreak
    /\ UNCHANGED <<roof, posKnown, co, hub, gateVars, sky, parkVars>>

(* Mutant: the pause's stop is sent once and never read back. *)
MutHoldAsksAgain == pc = "hold" /\ FALSE /\ UNCHANGED <<rig, co, hub, run>>

(* The stop is read back and asked again while the mount has not taken it,  *)
(* from the poll loop and through the cooler gate (#345, #453).             *)
HoldAsksAgain ==
    /\ pc \in {"hold", "holdCool"}
    /\ mount = "tracking"
    /\ StopTracking
    /\ UNCHANGED <<roof, posKnown, co, hub, run>>

HoldRead ==
    /\ pc = "hold"
    /\ IF sky = "safe" THEN CountSafe ELSE RestartStreak
    /\ pc' = IF safeStreak' >= ResumeN THEN "holdCool" ELSE "hold"
    /\ UNCHANGED <<rig, co, hub, gateVars, sky, parkVars>>

(* Mutant: an unsafe reading during the cooler wait keeps the streak. *)
MutHoldCooled ==
    /\ pc = "holdCool"
    /\ \/ /\ sky # "safe" /\ pc' = "hold" /\ clean' = 0
          /\ UNCHANGED <<gateVars, wd, safeStreak>>
       \/ Resume /\ unsafeStreak' = 0 /\ UNCHANGED waitVars
    /\ UNCHANGED <<rig, co, hub, sky, pk>>

(* The cooler gate, the weather read through it: the first read that is not *)
(* safe ends it; else the sensor settles and the run resumes.               *)
HoldCooled ==
    /\ pc = "holdCool"
    /\ \/ sky # "safe" /\ pc' = "hold" /\ RestartStreak /\ UNCHANGED <<gateVars, wd>>
       \/ Resume /\ unsafeStreak' = 0 /\ UNCHANGED waitVars
    /\ UNCHANGED <<rig, co, hub, sky, pk>>

(* max_pause_min passes: either wait escalates. *)
MaxPauseElapses ==
    /\ MaxPause
    /\ pc \in {"hold", "reopen"}
    /\ SafetyAbort
    /\ UNCHANGED <<rig, co, hub, gateVars, waitVars, sky, pk>>

----------------------------------------------------------------------------
(* _close_for_reopen: stop guiding and tracking, park (fenced, under the    *)
(* lock), close. A park skipped for an unknown position closes only a roof  *)
(* that needs no parked tube.                                               *)
CloseStop ==
    /\ pc = "crStop"
    /\ StopTracking
    /\ pc' = "crPark"
    /\ UNCHANGED <<roof, posKnown, co, hub, gateVars, waitVars, sky, parkVars>>

FencedPark ==
    /\ pc = "crPark"
    /\ IF posKnown
       THEN Bump(FALSE) /\ pk' = "wait" /\ pc' = "crParking" /\ UNCHANGED <<mount, faults>>
       ELSE StopTracking /\ pc' = "crUnknown" /\ UNCHANGED <<fenced, halted, pk>>
    /\ UNCHANGED <<roof, posKnown, lock, go, co, gateVars, waitVars, sky, wd>>

CloseParked ==
    /\ pc = "crParking"
    /\ pk \in {"yes", "no", "unknown"}
    /\ pk' = "none"
    /\ IF pk = "unknown"
       THEN StopTracking /\ pc' = "crUnknown" /\ UNCHANGED co
       ELSE pc' = "crClose" /\ CoGo("run", "isClosed") /\ UNCHANGED <<mount, faults>>
    /\ UNCHANGED <<roof, posKnown, hub, gateVars, waitVars, sky, wd>>

CloseUnknown ==
    /\ pc = "crUnknown"
    /\ IF RequiresPark
       THEN pc' = (IF roof = "closed" THEN "reopen" ELSE "hold0") /\ UNCHANGED co
       ELSE pc' = "crClose" /\ CoGo("run", "isClosed")
    /\ RestartStreak
    /\ UNCHANGED <<rig, hub, gateVars, sky, parkVars>>

(* Mutant: the pause is entered after a confirmed close too. *)
MutCloseAnswered ==
    /\ pc = "crClose"
    /\ co["run"] \in {"yes", "no"}
    /\ CoGo("run", "idle")
    /\ pc' = "hold0"
    /\ RestartStreak
    /\ UNCHANGED <<rig, hub, gateVars, sky, parkVars>>

(* Confirmed closed: wait to reopen. Refused or failed: the open-sky pause. *)
CloseAnswered ==
    /\ pc = "crClose"
    /\ co["run"] \in {"yes", "no"}
    /\ CoGo("run", "idle")
    /\ pc' = IF co["run"] = "yes" THEN "reopen" ELSE "hold0"
    /\ RestartStreak
    /\ UNCHANGED <<rig, hub, gateVars, sky, parkVars>>

(* _await_safe_and_reopen *)
ReopenRead ==
    /\ pc = "reopen"
    /\ IF sky = "safe" THEN CountSafe ELSE RestartStreak
    /\ pc' = IF safeStreak' >= ResumeN THEN "reopenCool" ELSE "reopen"
    /\ UNCHANGED <<rig, co, hub, gateVars, sky, parkVars>>

ReopenCooled ==
    /\ pc = "reopenCool"
    /\ IF sky = "safe" THEN CountSafe /\ pc' \in {"reopenCool", "reopenAgain"}
       ELSE RestartStreak /\ pc' = "reopen"
    /\ UNCHANGED <<rig, co, hub, gateVars, sky, parkVars>>

(* The weather read once more under the closed roof, then open_shutter.     *)
Reopen ==
    /\ pc = "reopenAgain"
    /\ IF sky # "safe"
       THEN RestartStreak /\ pc' = "reopen" /\ UNCHANGED <<roof, faults, wd, unsafeStreak>>
       ELSE /\ CountSafe /\ unsafeStreak' = 0
            /\ \/ roof' = (IF roof = "open" THEN "open" ELSE "opening")
                  /\ pc' = "opening" /\ UNCHANGED <<faults, wd>>
               \/ Fault /\ SafetyAbort /\ UNCHANGED roof
    /\ UNCHANGED <<mount, posKnown, co, hub, ctx, sky, pk>>

(* Confirmed OPEN, the run resumes; anything else is a SafetyAbort.         *)
Reopened ==
    /\ pc = "opening"
    /\ \/ (SyncRoof => roof = "open") /\ UNCHANGED faults
          /\ IF roof = "open" THEN Resume ELSE SafetyAbort /\ UNCHANGED ctx
       \/ (Fault \/ (RoofMayBeSlow /\ UNCHANGED faults)) /\ SafetyAbort /\ UNCHANGED ctx
    /\ UNCHANGED <<mount, roof, posKnown, co, hub, unsafeStreak, waitVars, sky, pk>>

----------------------------------------------------------------------------
(* _park_and_read_back, under the motion lock. *)

(* The position asked again under the lock, then tel.park(), which may      *)
(* raise or time out with the mount anywhere on its way.                    *)
ParkUnderLock ==
    /\ pk = "wait"
    /\ lock = "free"
    /\ IF ~posKnown THEN pk' = "unknown" /\ UNCHANGED <<mount, faults, lock>>
       ELSE \/ CmdPark /\ lock' = "run" /\ pk' = "sent1"
            \/ Fault /\ mount' \in {mount, AfterPark} /\ pk' = "no" /\ UNCHANGED lock
    /\ UNCHANGED <<roof, posKnown, co, fenced, halted, go, pc, gateVars, waitVars,
                   sky, wd>>

ParkEnds(result) == pk' = result /\ lock' = "free"

(* _await_the_park: parked, on its way, lost (park once more, unless the    *)
(* position is now unknown), unreadable, or past its deadline.              *)
ParkReadBack ==
    /\ pk \in {"sent1", "seen1", "sent2", "seen2"}
    /\ \/ /\ ReadsParked(TRUE)
          /\ ParkEnds("yes") /\ UNCHANGED <<mount, faults>>
       \/ /\ ReadsParked(FALSE) /\ mount \in {"parking", "slewing"}
          /\ pk' = (IF pk \in {"sent1", "seen1"} THEN "seen1" ELSE "seen2")
          /\ UNCHANGED <<mount, faults, lock>>
       \/ /\ ReadsParked(FALSE) /\ Fault       \* late, or no slewing state to read
          /\ ParkEnds("no") /\ UNCHANGED mount
       \/ /\ ReadsParked(FALSE) /\ mount \in {"still", "tracking"}      \* lost
          /\ IF pk \in {"sent2", "seen2"} THEN ParkEnds("no") /\ UNCHANGED <<mount, faults>>
             ELSE IF ~posKnown THEN ParkEnds("unknown") /\ UNCHANGED <<mount, faults>>
             ELSE \/ CmdPark /\ pk' = "sent2" /\ UNCHANGED lock
                  \/ Fault /\ mount' \in {mount, AfterPark} /\ ParkEnds("no")
       \/ /\ Fault /\ UNCHANGED mount                                   \* unreadable
          /\ IF pk \in {"sent1", "sent2"} THEN ParkEnds("yes")
             ELSE (UNCHANGED <<pk, lock>>) \/ ParkEnds("no")
    /\ UNCHANGED <<roof, posKnown, co, fenced, halted, go, pc, gateVars, waitVars,
                   sky, wd>>

----------------------------------------------------------------------------
(* _wind_down_park_and_close *)
WindDownPark ==
    /\ pc = "wdPark"
    /\ IF ~wd.park
       THEN pc' = "wdClose" /\ UNCHANGED <<mount, faults, fenced, halted, pk, wd>>
       ELSE IF ~posKnown
       THEN pc' = "wdParking" /\ pk' = "unknown"
            /\ UNCHANGED <<mount, faults, fenced, halted, wd>>
       ELSE Bump(FALSE) /\ pc' = "wdParking" /\ pk' = "wait"
            /\ UNCHANGED <<mount, faults, wd>>
    /\ UNCHANGED <<roof, posKnown, lock, go, co, gateVars, waitVars, sky>>

(* A park skipped for an unknown position stops tracking instead. An Abort  *)
(* noted during the park is raised only now, after the stop of a park that  *)
(* failed; the roof is then left alone.                                     *)
WindDownParked ==
    /\ pc = "wdParking"
    /\ pk \in {"yes", "no", "unknown"}
    /\ pk' = "none"
    /\ wd' = [wd EXCEPT !.parked = pk]
    /\ IF wd.cancelled THEN pc' = "idle" ELSE pc' = "wdClose"
    /\ IF pk = "unknown" \/ (wd.cancelled /\ pk = "no")
       THEN StopTracking ELSE UNCHANGED <<mount, faults>>
    /\ UNCHANGED <<roof, posKnown, co, hub, gateVars, waitVars, sky>>

WindDownClose ==
    /\ pc = "wdClose"
    /\ IF wd.close /\ ~(wd.parked = "unknown" /\ RequiresPark)
       THEN pc' = "wdRoof" /\ CoGo("run", "isClosed")
       ELSE pc' = "wdEnd" /\ UNCHANGED co
    /\ UNCHANGED <<rig, hub, gateVars, waitVars, sky, parkVars>>

WindDownClosed ==
    /\ pc = "wdRoof"
    /\ co["run"] \in {"yes", "no"}
    /\ CoGo("run", "idle")
    /\ pc' = "wdEnd"
    /\ UNCHANGED <<rig, hub, gateVars, waitVars, sky, parkVars>>

(* Mutant: a failed park is left at that. *)
MutWindDownEnds ==
    /\ pc = "wdEnd"
    /\ pc' = "idle"
    /\ UNCHANGED <<rig, co, hub, gateVars, waitVars, sky, parkVars>>

(* _stop_after_a_failed_park, after the roof-close attempt.                 *)
WindDownEnds ==
    /\ pc = "wdEnd"
    /\ IF wd.parked = "no" THEN StopTracking ELSE UNCHANGED <<mount, faults>>
    /\ pc' = "idle"
    /\ UNCHANGED <<roof, posKnown, co, hub, gateVars, waitVars, sky, parkVars>>

----------------------------------------------------------------------------
(* abort(): a shielded wind-down finishes; a wind-down's park finishes and  *)
(* its roof close does not; the auto-reopen close still stops tracking;     *)
(* anything else ends at once, its lock let go (_safe_stop moves nothing).  *)
RunInSlew == pc = "ucArrive" \/ go["run"] = "arrive"

Cancelled ==
    /\ pc' = "idle"
    /\ pk' = "none"
    /\ CoGo("run", "idle")
    /\ GoTo("run", "none")
    /\ lock' = LockAfterCancel("run")

Abort ==
    /\ Live /\ ~(pc \in WindPcs /\ wd.shielded)
    /\ IF pc \in {"wdPark", "wdParking"} /\ wd.park
       THEN /\ ~wd.cancelled
            /\ wd' = [wd EXCEPT !.cancelled = TRUE]
            /\ UNCHANGED <<mount, faults, co, lock, go, pc, pk>>
       ELSE /\ Cancelled /\ UNCHANGED wd
            /\ IF pc = "crStop" THEN StopTracking
               ELSE CancelSlew(RunInSlew) /\ UNCHANGED faults
    /\ UNCHANGED <<roof, posKnown, fenced, halted, gateVars, waitVars, sky>>

RunStep ==
    \/ SafetyGate \/ ConfirmUnsafe \/ FrameDone
    \/ Acquire \/ Centred \/ UncentredUnpark \/ UncentredTrack \/ UncentredSlew
    \/ UncentredSend \/ UncentredArrive
    \/ HoldStop \/ HoldAsksAgain \/ HoldRead \/ HoldCooled \/ MaxPauseElapses
    \/ CloseStop \/ FencedPark \/ CloseParked \/ CloseUnknown \/ CloseAnswered
    \/ ReopenRead \/ ReopenCooled \/ Reopen \/ Reopened
    \/ ParkUnderLock \/ ParkReadBack
    \/ WindDownPark \/ WindDownParked \/ WindDownClose \/ WindDownClosed
    \/ WindDownEnds
    \/ CenterNext("run") /\ UNCHANGED <<co, run>>
    \/ CoNext("run") /\ UNCHANGED <<hub, run>>
=============================================================================

------------------------- MODULE ObservatoryProofs -------------------------
(***************************************************************************)
(* The observatory's safety rules, for every value of the debounce counts,  *)
(* the plan's options and the number of device failures.                    *)
(*                                                                          *)
(*   RoofNeverCrushes       the never-crush rule of sequence/roof.py        *)
(*   AimsFromKnownPosition  the position rule of #886/#888                  *)
(*   StopHalts              the motion fence against a STOP                 *)
(*   TypeCorrect            every variable's type, the counters' bounds     *)
(*   ResumesDebounced       the resume debounce of the two safety waits     *)
(*   SlewsUnderOpenSky      no slew under a roof the run has closed         *)
(*   SafetyEndsStill        one failure leaves no mount tracking at the end *)
(*   RoutesNeverCrush       the never-crush rule between the routes alone   *)
(*                                                                          *)
(* NeverCrush alone is not inductive: the parked answer is used two awaits  *)
(* after it was read. Interlock adds who can be where meanwhile: the run    *)
(* that closes is in its close and nowhere else, so the two actions that    *)
(* unpark (both of an acquisition) are out of its reach, and a roof an      *)
(* Abort left travelling travels with no run behind it. The first rule is   *)
(* proved as long as the operator leaves unpark, goto and dome close alone  *)
(* while a run may be closing the roof, and a roof close that returns has   *)
(* ended.                                                                   *)
(***************************************************************************)
EXTENDS Observatory, TLAPS

(* The operator keeps to the routes that leave a parked mount parked, the   *)
(* roof's travel is over when its command returns, and "parked" is true.    *)
Undisturbed ==
    /\ Routes \cap {"goto", "center", "unpark", "dome"} = {}
    /\ SyncRoof /\ ~RoofMayBeSlow /\ ~ResetReadsParked

ClosePcs == {"crClose", "wdRoof"}

(* The routes' side: only a park may be in flight. *)
RoutesQuiet ==
    /\ domeT = "none"
    /\ co["route"] = "idle"
    /\ go["route"] \in {"none", "parkWait", "parkSent"}

(* Each of the run's two inner tasks runs under its own step of the run.    *)
RunInside ==
    /\ co["run"] # "idle" => pc \in ClosePcs
    /\ go["run"] # "none" => pc = "centring"

(* From the parked answer to the end of the travel the mount stays parked.  *)
Closing ==
    RequiresPark =>
        /\ co["run"] = "command" => mount = "parked"
        /\ roof = "closing" =>
             /\ mount = "parked"
             /\ pc = "idle" \/ (pc \in ClosePcs /\ co["run"] = "travel")

Interlock ==
    /\ co \in [Closers -> CoSteps]
    /\ go \in [Tasks -> GotoSteps]
    /\ RoutesQuiet /\ RunInside /\ Closing

----------------------------------------------------------------------------
(* A run busy with anything but its close or its centring may change the    *)
(* mount and its own place at will: no roof is closing over it.             *)
LEMMA Elsewhere ==
    ASSUME Interlock,
           pc \notin ClosePcs \cup {"idle", "centring"},
           UNCHANGED <<roof, co, go, domeT>>
    PROVE  Interlock'
  BY DEF Interlock, RoutesQuiet, RunInside, Closing, ClosePcs

(* A step that unparks nothing and leaves the run where it is, is harmless. *)
LEMMA MountKept ==
    ASSUME Interlock,
           mount = "parked" => mount' = "parked",
           pc' = pc,
           UNCHANGED <<roof, co, domeT>>,
           go' \in [Tasks -> GotoSteps],
           go'["route"] \in {"none", "parkWait", "parkSent"},
           go'["run"] = go["run"]
    PROVE  Interlock'
  BY DEF Interlock, RoutesQuiet, RunInside, Closing, ClosePcs

----------------------------------------------------------------------------
(* The hardware's own steps. *)
LEMMA RigKeeps ==
    ASSUME Interlock, RigNext, UNCHANGED <<co, hub, domeT, run, stop>>
    PROVE  Interlock'
  <1> USE DEF hub, run
  <1>1. CASE ParkArrives
    BY <1>1, MountKept DEF ParkArrives, Interlock, RoutesQuiet
  <1>2. CASE SlewArrives
    BY <1>2, MountKept DEF SlewArrives, Interlock, RoutesQuiet
  <1>3. CASE RoofArrives
    BY <1>3 DEF RoofArrives, Interlock, RoutesQuiet, RunInside, Closing, ClosePcs
  <1>4. CASE MountResets
    BY <1>4, MountKept DEF MountResets, Interlock, RoutesQuiet
  <1> QED
    BY <1>1, <1>2, <1>3, <1>4 DEF RigNext

(* The routes left to the operator: park, stop, tracking and trust.         *)
LEMMA RoutesKeep ==
    ASSUME Undisturbed, Interlock,
           \/ (Operator \/ RouteTasks) /\ UNCHANGED <<run, stop>>
           \/ Stops
    PROVE  Interlock'
  <1> USE DEF run
  <1>1. CASE Operator /\ UNCHANGED <<run, stop>>
    <2>1. CASE PostPark
      BY <1>1, <2>1, MountKept
         DEF PostPark, CancelSlew, AfterStop, GoTo, Interlock, RoutesQuiet, Tasks, GotoSteps
    <2>2. CASE PostTracking
      BY <1>1, <2>2, MountKept
         DEF PostTracking, AfterTrackOn, AfterTrackOff, hub, Interlock, RoutesQuiet
    <2>3. CASE PostTrust
      BY <1>1, <2>3, MountKept DEF PostTrust, hub, Interlock, RoutesQuiet
    <2>4. ~PostGoto /\ ~PostUnpark /\ ~PostDomeClose
      BY DEF PostGoto, PostUnpark, PostDomeClose, Undisturbed
    <2> QED
      BY <1>1, <2>1, <2>2, <2>3, <2>4 DEF Operator
  <1>2. CASE RouteTasks /\ UNCHANGED <<run, stop>>
    <2>1. CASE ParkLock
      BY <1>2, <2>1, MountKept
         DEF ParkLock, CmdPark, AfterPark, GoTo, Interlock, RoutesQuiet, Tasks, GotoSteps
    <2>2. CASE ParkReturns
      BY <1>2, <2>2, MountKept
         DEF ParkReturns, rig, GoTo, Interlock, RoutesQuiet, Tasks, GotoSteps
    <2>3. ~DomeLock /\ ~DomeParked /\ ~DomeDone
      BY DEF DomeLock, DomeParked, DomeDone, Interlock, RoutesQuiet
    <2>4. ~CenterNext("route")
      BY DEF CenterNext, CenterLock, CenterUnpark, CenterTrack, CenterSlew, CenterSend,
             CenterDone, CenterAgain, CenterArrive, Interlock, RoutesQuiet
    <2>5. ~PlainNext
      BY DEF PlainNext, PlainLock, PlainUnpark, PlainSlew, PlainArrive,
             Interlock, RoutesQuiet
    <2>6. ~CoNext("route")
      BY DEF CoNext, AskClosed, AskParked, CommandClose, CloseReturns,
             ConfirmClosed, CoAt, Interlock, RoutesQuiet
    <2> QED
      BY <1>2, <2>1, <2>2, <2>3, <2>4, <2>5, <2>6 DEF RouteTasks
  <1>3. CASE Stops
    BY <1>3, MountKept
       DEF Stops, PostStop, AfterStop, GoTo, Interlock, RoutesQuiet, Tasks, GotoSteps
  <1> QED
    BY <1>1, <1>2, <1>3

----------------------------------------------------------------------------
(* close_observatory, called by the run. *)
LEMMA CloseKeeps ==
    ASSUME Undisturbed, Interlock, CoNext("run"), UNCHANGED <<hub, run, domeT>>
    PROVE  Interlock'
  <1> USE DEF hub, run, CoAt, CoGo, Closers, CoSteps, Interlock, RoutesQuiet,
              RunInside, Closing, ClosePcs
  <1>1. CASE AskClosed("run")
    BY <1>1 DEF AskClosed
  <1>2. CASE AskParked("run")
    BY <1>2 DEF AskParked, ReadsParked, Undisturbed
  <1>3. CASE CommandClose("run")
    BY <1>3 DEF CommandClose
  <1>4. CASE CloseReturns("run")
    BY <1>4 DEF CloseReturns, Undisturbed, rig
  <1>5. CASE ConfirmClosed("run")
    BY <1>5 DEF ConfirmClosed
  <1> QED
    BY <1>1, <1>2, <1>3, <1>4, <1>5 DEF CoNext

(* goto_and_center, called by the run. *)
LEMMA CentreKeeps ==
    ASSUME Interlock, CenterNext("run"), UNCHANGED <<co, run, domeT>>
    PROVE  Interlock'
  <1> USE DEF run, GoTo, Verdict, Tasks, GotoSteps, Interlock, RoutesQuiet,
              RunInside, Closing, ClosePcs
  <1>1. CASE CenterLock("run")
    BY <1>1 DEF CenterLock, rig
  <1>2. CASE CenterUnpark("run")
    BY <1>2 DEF CenterUnpark
  <1>3. CASE CenterTrack("run")
    BY <1>3 DEF CenterTrack
  <1>4. CASE CenterSlew("run")
    BY <1>4 DEF CenterSlew
  <1>5. CASE CenterSend("run")
    BY <1>5 DEF CenterSend
  <1>6. CASE CenterDone("run")
    BY <1>6 DEF CenterDone, CenterArrive
  <1>7. CASE CenterAgain("run")
    BY <1>7 DEF CenterAgain, CenterArrive
  <1> QED
    BY <1>1, <1>2, <1>3, <1>4, <1>5, <1>6, <1>7 DEF CenterNext

----------------------------------------------------------------------------
(* The run's steps that leave the roof, the close and the centring alone.   *)
LEMMA OwnStepsKeep ==
    ASSUME Interlock, UNCHANGED domeT,
           \/ SafetyGate \/ ConfirmUnsafe \/ FrameDone
           \/ UncentredUnpark \/ UncentredTrack \/ UncentredSlew \/ UncentredSend
           \/ UncentredArrive
           \/ HoldStop \/ HoldAsksAgain \/ HoldRead \/ HoldCooled \/ MaxPauseElapses
           \/ CloseStop \/ FencedPark \/ ReopenRead \/ ReopenCooled \/ Reopened
           \/ WindDownPark \/ WindDownParked \/ WindDownEnds
           \/ OperatorResumes
    PROVE  Interlock'
  <1> USE DEF rig, hub, run, ClosePcs
  <1>1. CASE SafetyGate \/ ConfirmUnsafe \/ FrameDone
    BY <1>1, Elsewhere DEF SafetyGate, ConfirmUnsafe, FrameDone
  <1>2. CASE \/ UncentredUnpark \/ UncentredTrack \/ UncentredSlew \/ UncentredSend
             \/ UncentredArrive
    BY <1>2, Elsewhere
       DEF UncentredUnpark, UncentredTrack, UncentredSlew, UncentredSend,
           UncentredArrive
  <1>3. CASE HoldStop \/ HoldAsksAgain \/ HoldRead \/ HoldCooled \/ MaxPauseElapses
    BY <1>3, Elsewhere
       DEF HoldStop, HoldAsksAgain, HoldRead, HoldCooled, MaxPauseElapses
  <1>4. CASE CloseStop \/ FencedPark \/ ReopenRead \/ ReopenCooled \/ Reopened
    BY <1>4, Elsewhere DEF CloseStop, FencedPark, ReopenRead, ReopenCooled, Reopened
  <1>5. CASE WindDownPark \/ WindDownParked \/ WindDownEnds
    BY <1>5, Elsewhere DEF WindDownPark, WindDownParked, WindDownEnds
  <1>6. CASE OperatorResumes
    BY <1>6, Elsewhere DEF OperatorResumes
  <1> QED
    BY <1>1, <1>2, <1>3, <1>4, <1>5, <1>6

(* The park and its read-back never unpark. *)
LEMMA ParkKeeps ==
    ASSUME Interlock, UNCHANGED domeT, ParkUnderLock \/ ParkReadBack
    PROVE  Interlock'
  <1>1. /\ mount = "parked" => mount' = "parked"
        /\ pc' = pc
        /\ UNCHANGED <<roof, co, go>>
    BY DEF ParkUnderLock, ParkReadBack, ParkEnds, CmdPark, AfterPark
  <1> QED
    BY <1>1, MountKept DEF Interlock, RoutesQuiet

(* The steps that enter and leave the centring and the close, and the       *)
(* reopening.                                                               *)
LEMMA HandOversKeep ==
    ASSUME Interlock, UNCHANGED domeT,
           \/ Acquire \/ Centred \/ CloseParked \/ CloseUnknown \/ CloseAnswered
           \/ Reopen \/ WindDownClose \/ WindDownClosed
    PROVE  Interlock'
  <1> USE DEF rig, hub, GoTo, CoGo, Tasks, GotoSteps, Closers, CoSteps, Interlock,
              RoutesQuiet, RunInside, Closing, ClosePcs
  <1>1. CASE Acquire
    BY <1>1 DEF Acquire
  <1>2. CASE Centred
    BY <1>2 DEF Centred
  <1>3. CASE CloseParked
    BY <1>3 DEF CloseParked
  <1>4. CASE CloseUnknown
    BY <1>4 DEF CloseUnknown
  <1>5. CASE CloseAnswered
    BY <1>5 DEF CloseAnswered
  <1>6. CASE Reopen
    BY <1>6 DEF Reopen
  <1>7. CASE WindDownClose
    BY <1>7 DEF WindDownClose
  <1>8. CASE WindDownClosed
    BY <1>8 DEF WindDownClosed
  <1> QED
    BY <1>1, <1>2, <1>3, <1>4, <1>5, <1>6, <1>7, <1>8

(* An Abort lets go of the close and the centring, the roof travelling or   *)
(* not, and unparks nothing.                                                *)
LEMMA AbortKeeps ==
    ASSUME Interlock, Abort, UNCHANGED domeT
    PROVE  Interlock'
  <1>1. CASE pc \in {"wdPark", "wdParking"} /\ wd.park
    BY <1>1, Elsewhere DEF Abort, ClosePcs
  <1>2. CASE ~(pc \in {"wdPark", "wdParking"} /\ wd.park)
    <2>1. /\ pc' = "idle" /\ co' = [co EXCEPT !["run"] = "idle"]
          /\ go' = [go EXCEPT !["run"] = "none"] /\ roof' = roof
      BY <1>2 DEF Abort, Cancelled, CoGo, GoTo
    <2>2. mount = "parked" => mount' = "parked"
      BY <1>2 DEF Abort, StopTracking, AfterTrackOff, CancelSlew, AfterStop
    <2> QED
      BY <2>1, <2>2 DEF Interlock, RoutesQuiet, RunInside, Closing, Tasks, GotoSteps,
                        Closers, CoSteps
  <1> QED
    BY <1>1, <1>2

----------------------------------------------------------------------------
(* Interlock is an inductive invariant of the undisturbed observatory.      *)
LEMMA InterlockInductive ==
    ASSUME Undisturbed
    PROVE  /\ Init => Interlock
           /\ Interlock /\ [Next]_vars => Interlock'
  <1>1. Init => Interlock
    BY DEF Init, RigInit, CoInit, HubInit, RoutesInit, RunInit, Interlock,
           RoutesQuiet, RunInside, Closing, ClosePcs, Tasks, GotoSteps, Closers,
           CoSteps
  <1>2. ASSUME Interlock, [Next]_vars PROVE Interlock'
    <2> USE <1>2
    <2>1. CASE RigNext /\ UNCHANGED <<co, hub, domeT, run, stop>>
      BY <2>1, RigKeeps
    <2>2. CASE ByHand
      BY <2>2 DEF ByHand, OpenedByHand, hub, run, Interlock, RoutesQuiet, RunInside,
                  Closing, ClosePcs
    <2>3. CASE (Operator \/ RouteTasks) /\ UNCHANGED <<run, stop>>
      BY <2>3, RoutesKeep
    <2>4. CASE Stops
      BY <2>4, RoutesKeep
    <2>5. CASE StartRun
      BY <2>5 DEF StartRun, Start, rig, hub, Interlock, RoutesQuiet, RunInside,
                  Closing, ClosePcs
    <2>6. CASE RunTask
      <3>1. CASE CoNext("run") /\ UNCHANGED <<hub, run>>
        BY <2>6, <3>1, CloseKeeps DEF RunTask
      <3>2. CASE CenterNext("run") /\ UNCHANGED <<co, run>>
        BY <2>6, <3>2, CentreKeeps DEF RunTask
      <3>3. CASE ParkUnderLock \/ ParkReadBack
        BY <2>6, <3>3, ParkKeeps DEF RunTask
      <3>4. CASE \/ Acquire \/ Centred \/ CloseParked \/ CloseUnknown
                 \/ CloseAnswered \/ Reopen \/ WindDownClose \/ WindDownClosed
        BY <2>6, <3>4, HandOversKeep DEF RunTask
      <3> QED
        BY <2>6, <3>1, <3>2, <3>3, <3>4, OwnStepsKeep DEF RunTask, RunStep
    <2>7. CASE Resumes
      BY <2>7, OwnStepsKeep DEF Resumes
    <2>8. CASE Aborts
      BY <2>8, AbortKeeps DEF Aborts
    <2>9. CASE Weather
      BY <2>9, MountKept DEF Weather, SkyChanges, rig, hub, Interlock, RoutesQuiet
    <2>10. CASE UNCHANGED vars
      BY <2>10, MountKept DEF vars, rig, hub, run, Interlock, RoutesQuiet
    <2> QED
      BY <2>1, <2>2, <2>3, <2>4, <2>5, <2>6, <2>7, <2>8, <2>9, <2>10 DEF Next
  <1> QED
    BY <1>1, <1>2

(* close_observatory keeps its promise (roof.py:6): however often the run   *)
(* closes, is aborted, is started again, and however many reads and         *)
(* commands fail, the roof never travels closed over an unparked mount.     *)
THEOREM RoofNeverCrushes ==
    ASSUME Undisturbed
    PROVE  Spec => []NeverCrush
  <1>1. Init => Interlock
    BY InterlockInductive
  <1>2. Interlock /\ [Next]_vars => Interlock'
    BY InterlockInductive
  <1>3. Interlock => NeverCrush
    BY DEF Interlock, Closing, NeverCrush
  <1> QED
    BY <1>1, <1>2, <1>3, PTL DEF Spec

----------------------------------------------------------------------------
(* Aiming from an unknown position (#886, #888). The plain goto asks its    *)
(* gate too early (three awaits before its slew), so the rule is proved of  *)
(* an observatory whose operator centres instead. The other await behind a  *)
(* gate, the conversion to a JNOW mount's frame, is taken for an Alpaca     *)
(* mount only, which has no position latch: GotoPlaces and Latched say so.  *)
GotoPlaces ==
    /\ go \in [Tasks -> GotoSteps]
    /\ "goto" \notin Routes =>
         go["route"] \notin {"pEntered", "pUnpark", "pTrack", "pArrive"}
    /\ ~JnowMount => \A t \in Tasks : go[t] # "frame"

Latched ==
    /\ posKnown \in BOOLEAN
    /\ sky \in Skies
    /\ JnowMount => posKnown
    /\ ~JnowMount => pc # "ucSend"

Aims == mount' # mount /\ mount' \in {"slewing", "parking"}

(* Where a goto may stand, and no plain one without its route.              *)
LEMMA GotoPlacesInductive ==
    /\ Init => GotoPlaces
    /\ GotoPlaces /\ [Next]_vars => GotoPlaces'
  <1> USE DEF GotoPlaces, Tasks, GotoSteps
  <1>1. Init => GotoPlaces
    BY DEF Init, HubInit
  <1>2. ASSUME GotoPlaces, [Next]_vars PROVE GotoPlaces'
    <2> USE <1>2 DEF hub, GoTo
    <2>1. CASE UNCHANGED go
      BY <2>1
    <2>2. CASE Operator
      BY <2>2 DEF Operator, PostGoto, PostPark, PostUnpark, PostTracking, PostTrust,
                  PostDomeClose
    <2>3. ASSUME NEW t \in Tasks, CenterNext(t) PROVE GotoPlaces'
      BY <2>3 DEF CenterNext, CenterLock, CenterUnpark, CenterTrack, CenterSlew, CenterSend,
                  CenterDone, CenterAgain, CenterArrive, Verdict
    <2>4. CASE RouteTasks
      <3>1. CASE ParkLock \/ ParkReturns \/ DomeLock \/ DomeParked \/ DomeDone
        BY <3>1 DEF ParkLock, ParkReturns, DomeLock, DomeParked, DomeDone
      <3>2. CASE PlainNext
        BY <3>2 DEF PlainNext, PlainLock, PlainUnpark, PlainSlew, PlainArrive
      <3> QED
        BY <2>1, <2>3, <2>4, <3>1, <3>2 DEF RouteTasks
    <2>5. CASE Stops
      BY <2>5 DEF Stops, PostStop
    <2>6. CASE RunTask
      <3>1. CASE Acquire \/ Centred
        BY <3>1 DEF Acquire, Centred
      <3>2. CASE \/ SafetyGate \/ ConfirmUnsafe \/ FrameDone
                 \/ UncentredUnpark \/ UncentredTrack \/ UncentredSlew
                 \/ UncentredSend \/ UncentredArrive
                 \/ HoldStop \/ HoldAsksAgain \/ HoldRead \/ HoldCooled
                 \/ MaxPauseElapses
        BY <3>2, <2>1
           DEF SafetyGate, ConfirmUnsafe, FrameDone, UncentredUnpark,
               UncentredTrack, UncentredSlew, UncentredSend, UncentredArrive,
               HoldStop, HoldAsksAgain, HoldRead, HoldCooled, MaxPauseElapses
      <3>3. CASE \/ CloseStop \/ FencedPark \/ CloseParked \/ CloseUnknown
                 \/ CloseAnswered \/ ReopenRead \/ ReopenCooled \/ Reopen
                 \/ Reopened
        BY <3>3, <2>1
           DEF CloseStop, FencedPark, CloseParked, CloseUnknown, CloseAnswered,
               ReopenRead, ReopenCooled, Reopen, Reopened
      <3>4. CASE \/ ParkUnderLock \/ ParkReadBack \/ WindDownPark
                 \/ WindDownParked \/ WindDownClose \/ WindDownClosed
                 \/ WindDownEnds
        BY <3>4, <2>1
           DEF ParkUnderLock, ParkReadBack, WindDownPark, WindDownParked,
               WindDownClose, WindDownClosed, WindDownEnds
      <3> QED
        BY <2>1, <2>3, <2>6, <3>1, <3>2, <3>3, <3>4 DEF RunTask, RunStep
    <2>7. CASE Aborts
      BY <2>7 DEF Aborts, Abort, Cancelled
    <2>8. CASE StartRun \/ Resumes \/ Weather \/ ByHand
      BY <2>1, <2>8 DEF StartRun, Start, Resumes, OperatorResumes, Weather, SkyChanges,
                        ByHand
    <2> QED
      BY <2>1, <2>2, <2>4, <2>5, <2>6, <2>7, <2>8 DEF Next, vars
  <1> QED
    BY <1>1, <1>2

(* Only a reset touches the latch of a position that is known, and only for *)
(* a JNOW mount does the run wait with its slew converted and not sent.     *)
LEMMA LatchedInductive ==
    /\ Init => Latched
    /\ Latched /\ [Next]_vars => Latched'
  <1> USE DEF Latched, rig, hub, run, Skies
  <1>1. Init => Latched
    BY DEF Init, RigInit, RunInit
  <1>2. ASSUME Latched, [Next]_vars PROVE Latched'
    <2> USE <1>2
    <2>1. CASE pc' = pc /\ sky' = sky /\ posKnown' \in {posKnown, TRUE}
      BY <2>1
    <2>2. CASE RigNext /\ UNCHANGED <<co, hub, domeT, run, stop>>
      BY <2>2, RigAssumption
         DEF RigNext, ParkArrives, SlewArrives, RoofArrives, MountResets
    <2>3. CASE Operator /\ UNCHANGED <<run, stop>>
      BY <2>1, <2>3 DEF Operator, PostGoto, PostPark, PostUnpark, PostTracking,
                        PostTrust, PostDomeClose
    <2>4. ASSUME NEW t \in Tasks, CenterNext(t) PROVE UNCHANGED posKnown
      BY <2>4 DEF CenterNext, CenterLock, CenterUnpark, CenterTrack, CenterSlew,
                  CenterSend, CenterDone, CenterAgain, CenterArrive
    <2>5. ASSUME NEW p \in Closers, CoNext(p) PROVE UNCHANGED posKnown
      BY <2>5 DEF CoNext, AskClosed, AskParked, CommandClose, CloseReturns,
                  ConfirmClosed
    <2>6. CASE RouteTasks /\ UNCHANGED <<run, stop>>
      <3>1. UNCHANGED posKnown
        BY <2>4, <2>5, <2>6
           DEF RouteTasks, ParkLock, ParkReturns, DomeLock, DomeParked, DomeDone,
               PlainNext, PlainLock, PlainUnpark, PlainSlew, PlainArrive, Tasks,
               Closers
      <3> QED
        BY <2>1, <2>6, <3>1
    <2>7. CASE Stops
      BY <2>1, <2>7 DEF Stops, PostStop
    <2>8. CASE RunTask
      <3> USE DEF WindDown, SafetyAbort, PositionUnknownStop
      <3>1. CASE SafetyGate \/ ConfirmUnsafe \/ FrameDone
        <4>1. OnUnsafe \/ Proceed => pc' # "ucSend"
          BY RunAssumption DEF OnUnsafe, Proceed
        <4>2. pc' # "ucSend"
          BY <3>1, <4>1 DEF SafetyGate, ConfirmUnsafe, FrameDone
        <4>3. UNCHANGED <<posKnown, sky>>
          BY <3>1 DEF SafetyGate, ConfirmUnsafe, FrameDone
        <4> QED
          BY <4>2, <4>3
      <3>2. CASE Acquire \/ Centred
        BY <3>2 DEF Acquire, Centred
      <3>3. CASE \/ UncentredUnpark \/ UncentredTrack \/ UncentredSlew
                 \/ UncentredSend \/ UncentredArrive
        BY <3>3 DEF UncentredUnpark, UncentredTrack, UncentredSlew, UncentredSend,
                    UncentredArrive, SendSlew
      <3>4. CASE HoldStop \/ HoldAsksAgain \/ HoldRead \/ HoldCooled \/ MaxPauseElapses
        BY <3>4
           DEF HoldStop, HoldAsksAgain, HoldRead, HoldCooled, MaxPauseElapses, Resume
      <3>5. CASE CloseStop \/ FencedPark \/ CloseParked \/ CloseUnknown \/ CloseAnswered
        BY <3>5
           DEF CloseStop, FencedPark, CloseParked, CloseUnknown, CloseAnswered
      <3>6. CASE ReopenRead \/ ReopenCooled \/ Reopen \/ Reopened
        BY <3>6 DEF ReopenRead, ReopenCooled, Reopen, Reopened, Resume
      <3>7. CASE ParkUnderLock \/ ParkReadBack
        BY <2>1, <3>7 DEF ParkUnderLock, ParkReadBack
      <3>8. CASE \/ WindDownPark \/ WindDownParked \/ WindDownClose \/ WindDownClosed
                 \/ WindDownEnds
        BY <3>8 DEF WindDownPark, WindDownParked, WindDownClose, WindDownClosed,
                    WindDownEnds
      <3>9. CASE CenterNext("run") /\ UNCHANGED <<co, run>>
        BY <2>1, <2>4, <3>9 DEF Tasks
      <3>10. CASE CoNext("run") /\ UNCHANGED <<hub, run>>
        BY <2>1, <2>5, <3>10 DEF Closers
      <3> QED
        BY <2>8, <3>1, <3>2, <3>3, <3>4, <3>5, <3>6, <3>7, <3>8, <3>9, <3>10
           DEF RunTask, RunStep
    <2>9. CASE Aborts
      BY <2>9 DEF Aborts, Abort, Cancelled
    <2>10. CASE StartRun \/ Resumes \/ Weather \/ ByHand
      BY <2>10 DEF StartRun, Start, Resumes, OperatorResumes, Weather, SkyChanges,
                   ByHand, OpenedByHand
    <2>11. CASE UNCHANGED vars
      BY <2>1, <2>11 DEF vars
    <2> QED
      BY <2>2, <2>3, <2>6, <2>7, <2>8, <2>9, <2>10, <2>11 DEF Next
  <1> QED
    BY <1>1, <1>2

(* Every command that aims is sent from a known position. *)
LEMMA AimsKnowing ==
    ASSUME "goto" \notin Routes, GotoPlaces, Latched, Next, Aims
    PROVE  posKnown
  <1> USE DEF Aims, rig, hub, run, AfterPark, AfterUnpark, AfterTrackOn, AfterTrackOff,
              AfterStop, CancelSlew, CmdPark, StopTracking
  <1>2. ~RigNext /\ ~ByHand
    BY DEF RigNext, ParkArrives, SlewArrives, RoofArrives, MountResets, ByHand,
           OpenedByHand
  <1>3. ~Operator /\ ~Stops
    BY DEF Operator, PostGoto, PostPark, PostUnpark, PostTracking, PostTrust,
           PostDomeClose, Stops, PostStop
  <1>4. ASSUME NEW t \in Tasks, CenterNext(t) PROVE posKnown
    BY <1>4 DEF CenterNext, CenterLock, CenterUnpark, CenterTrack, CenterSlew, CenterSend,
                CenterDone, CenterAgain, CenterArrive, GotoPlaces, Latched
  <1>5. ASSUME NEW p \in Closers PROVE ~CoNext(p)
    BY DEF CoNext, AskClosed, AskParked, CommandClose, CloseReturns, ConfirmClosed
  <1>6. CASE RouteTasks
    <2>1. CASE ParkLock
      BY <2>1 DEF ParkLock
    <2>2. CASE DomeLock
      BY <2>2 DEF DomeLock
    <2>3. ~ParkReturns /\ ~DomeParked /\ ~DomeDone
      BY DEF ParkReturns, DomeParked, DomeDone
    <2>4. ~PlainNext
      BY DEF PlainNext, PlainLock, PlainUnpark, PlainSlew, PlainArrive, GotoPlaces
    <2> QED
      BY <1>4, <1>5, <1>6, <2>1, <2>2, <2>3, <2>4 DEF RouteTasks, Tasks, Closers
  <1>7. CASE RunTask
    <2>1. ~SafetyGate /\ ~ConfirmUnsafe /\ ~FrameDone /\ ~Acquire /\ ~Centred
      BY DEF SafetyGate, ConfirmUnsafe, FrameDone, Acquire, Centred
    <2>2. /\ ~UncentredUnpark /\ ~UncentredTrack /\ ~UncentredArrive
          /\ UncentredSlew \/ UncentredSend => posKnown
      BY DEF UncentredUnpark, UncentredTrack, UncentredSlew, UncentredSend,
             UncentredArrive, Latched
    <2>3. ~HoldStop /\ ~HoldAsksAgain /\ ~HoldRead /\ ~HoldCooled /\ ~MaxPauseElapses
      BY DEF HoldStop, HoldAsksAgain, HoldRead, HoldCooled, MaxPauseElapses
    <2>4. /\ ~CloseStop /\ ~FencedPark /\ ~CloseParked /\ ~CloseUnknown
          /\ ~CloseAnswered /\ ~ReopenRead /\ ~ReopenCooled /\ ~Reopen /\ ~Reopened
      BY DEF CloseStop, FencedPark, CloseParked, CloseUnknown, CloseAnswered,
             ReopenRead, ReopenCooled, Reopen, Reopened
    <2>5. ParkUnderLock \/ ParkReadBack => posKnown
      BY DEF ParkUnderLock, ParkReadBack, ParkEnds
    <2>6. /\ ~WindDownPark /\ ~WindDownParked /\ ~WindDownClose /\ ~WindDownClosed
          /\ ~WindDownEnds
      BY DEF WindDownPark, WindDownParked, WindDownClose, WindDownClosed, WindDownEnds
    <2> QED
      BY <1>4, <1>5, <1>7, <2>1, <2>2, <2>3, <2>4, <2>5, <2>6
         DEF RunTask, RunStep, Tasks, Closers
  <1>8. ~StartRun /\ ~Resumes /\ ~Aborts /\ ~Weather
    BY DEF StartRun, Start, Resumes, OperatorResumes, Aborts, Abort, Weather, SkyChanges
  <1> QED
    BY <1>2, <1>3, <1>6, <1>7, <1>8 DEF Next

(* The position rule of #886/#888: whoever aims the mount, and however long *)
(* the command waited for the motion lock, the position was known when it   *)
(* was sent.                                                                *)
THEOREM AimsFromKnownPosition ==
    ASSUME "goto" \notin Routes
    PROVE  Spec => AimedKnowing
  <1>1. Init => GotoPlaces
    BY GotoPlacesInductive
  <1>2. GotoPlaces /\ [Next]_vars => GotoPlaces'
    BY GotoPlacesInductive
  <1>3. /\ Init => Latched
        /\ Latched /\ [Next]_vars => Latched'
    BY LatchedInductive
  <1>4. GotoPlaces /\ Latched /\ [Next]_vars
        => [mount' # mount /\ mount' \in {"slewing", "parking"} => posKnown]_vars
    BY AimsKnowing DEF Aims, vars, rig
  <1> QED
    BY <1>1, <1>2, <1>3, <1>4, PTL DEF Spec, AimedKnowing

----------------------------------------------------------------------------
(* The motion fence against a STOP (hub.bump_motion_epoch). The acquisition *)
(* without centring reads the epoch after its setup awaits, and a JNOW      *)
(* mount's slew is sent an await after the fence was asked, so the rule is  *)
(* proved of a plan that centres every target, on any other mount.          *)
UncentredPcs == {"ucUnpark", "ucTrack", "ucSlew", "ucSend", "ucArrive", "opHoldSlew"}

(* A STOP nobody has answered keeps the run's epoch out of date.            *)
Fenced ==
    /\ sky \in Skies
    /\ pc \notin UncentredPcs
    /\ stop => "run" \in fenced

(* The run reads the epoch afresh only where a new acquisition begins.      *)
LEMMA FencedInductive ==
    ASSUME ~MayNotCentre
    PROVE  /\ Init => Fenced
           /\ Fenced /\ [Next]_vars => Fenced'
  <1> USE DEF Fenced, UncentredPcs, Skies
  <1>1. Init => Fenced
    BY DEF Init, RunInit
  <1>2. ASSUME Fenced, [Next]_vars PROVE Fenced'
    <2> USE <1>2 DEF hub, run
    <2>1. CASE UNCHANGED <<pc, fenced>> /\ sky' \in Skies /\ (stop' = stop \/ ~stop')
      BY <2>1
    <2>2. CASE Operator /\ UNCHANGED <<run, stop>>
      BY <2>2 DEF Operator, PostGoto, PostPark, PostUnpark, PostTracking, PostTrust,
                  PostDomeClose, ReadEpoch, Bump, Tasks
    <2>3. ASSUME NEW t \in Tasks, CenterNext(t) PROVE UNCHANGED fenced
      BY <2>3 DEF CenterNext, CenterLock, CenterUnpark, CenterTrack, CenterSlew, CenterSend,
                  CenterDone, CenterAgain, CenterArrive
    <2>4. CASE RouteTasks /\ UNCHANGED <<run, stop>>
      <3>1. UNCHANGED fenced
        BY <2>3, <2>4
           DEF RouteTasks, ParkLock, ParkReturns, DomeLock, DomeParked, DomeDone,
               PlainNext, PlainLock, PlainUnpark, PlainSlew, PlainArrive, Tasks
      <3> QED
        BY <2>1, <2>4, <3>1
    <2>5. CASE Stops
      BY <2>5 DEF Stops, PostStop, Bump, Tasks
    <2>6. CASE RunTask
      <3>1. stop' = stop \/ ~stop'
        BY <2>6 DEF RunTask
      <3> USE DEF WindDown, SafetyAbort, PositionUnknownStop
      <3>2. CASE Acquire
        BY <2>6, <3>2 DEF RunTask, Acquire
      <3>3. CASE Centred
        <4>1. pc' \in {"expose", "opHold", "acquire", "wdPark"}
          BY <3>3 DEF Centred
        <4> QED
          BY <3>1, <3>3, <4>1 DEF Centred
      <3>4. CASE SafetyGate \/ ConfirmUnsafe \/ FrameDone
        <4>1. OnUnsafe \/ Proceed => pc' \notin UncentredPcs
          BY RunAssumption DEF OnUnsafe, Proceed
        <4>2. pc' \notin UncentredPcs
          BY <3>4, <4>1 DEF SafetyGate, ConfirmUnsafe, FrameDone
        <4>3. UNCHANGED <<sky, fenced>>
          BY <3>4 DEF SafetyGate, ConfirmUnsafe, FrameDone
        <4> QED
          BY <3>1, <4>2, <4>3
      <3>5. /\ ~UncentredUnpark /\ ~UncentredTrack /\ ~UncentredSlew
            /\ ~UncentredSend /\ ~UncentredArrive
        BY DEF UncentredUnpark, UncentredTrack, UncentredSlew, UncentredSend,
               UncentredArrive
      <3>6. CASE HoldStop \/ HoldAsksAgain \/ HoldRead \/ HoldCooled \/ MaxPauseElapses
        BY <3>1, <3>6
           DEF HoldStop, HoldAsksAgain, HoldRead, HoldCooled, MaxPauseElapses, Resume
      <3>7. CASE CloseStop \/ FencedPark \/ CloseParked \/ CloseUnknown \/ CloseAnswered
        BY <3>1, <3>7
           DEF CloseStop, FencedPark, CloseParked, CloseUnknown, CloseAnswered, Bump,
               Tasks
      <3>8. CASE ReopenRead \/ ReopenCooled \/ Reopen \/ Reopened
        BY <3>1, <3>8 DEF ReopenRead, ReopenCooled, Reopen, Reopened, Resume
      <3>9. CASE ParkUnderLock \/ ParkReadBack
        BY <2>1, <3>1, <3>9 DEF ParkUnderLock, ParkReadBack
      <3>10. CASE \/ WindDownPark \/ WindDownParked \/ WindDownClose \/ WindDownClosed
                  \/ WindDownEnds
        BY <3>1, <3>10
           DEF WindDownPark, WindDownParked, WindDownClose, WindDownClosed,
               WindDownEnds, Bump, Tasks
      <3>11. CASE CenterNext("run") /\ UNCHANGED <<co, run>>
        BY <2>1, <2>3, <3>1, <3>11 DEF Tasks
      <3>12. CASE CoNext("run") /\ UNCHANGED <<hub, run>>
        BY <2>1, <3>1, <3>12
      <3> QED
        BY <2>6, <3>2, <3>3, <3>4, <3>5, <3>6, <3>7, <3>8, <3>9, <3>10, <3>11, <3>12
           DEF RunTask, RunStep
    <2>7. CASE Aborts
      BY <2>7 DEF Aborts, Abort, Cancelled
    <2>8. CASE StartRun \/ Resumes
      BY <2>8 DEF StartRun, Start, Resumes, OperatorResumes
    <2>9. CASE Weather \/ ByHand \/ (RigNext /\ UNCHANGED <<co, hub, domeT, run, stop>>)
      BY <2>1, <2>9 DEF Weather, SkyChanges, ByHand
    <2>10. CASE UNCHANGED vars
      BY <2>1, <2>10 DEF vars
    <2> QED
      BY <2>2, <2>4, <2>5, <2>6, <2>7, <2>8, <2>9, <2>10 DEF Next
  <1> QED
    BY <1>1, <1>2

(* What is under the lock when the run's centring slews: the fence.         *)
LEMMA SlewsUnfenced ==
    ASSUME ~JnowMount, GotoPlaces, Fenced, Fenced', Next, RunSlews
    PROVE  ~stop
  <1>1. go["run"] # "arrive" /\ go'["run"] = "arrive"
    BY DEF RunSlews, Fenced, UncentredPcs
  <1> USE <1>1 DEF hub, GoTo, GotoPlaces, Tasks
  <1>2. go' # go
    OBVIOUS
  <1>3. CASE CenterNext("run")
    BY <1>3 DEF CenterNext, CenterLock, CenterUnpark, CenterTrack, CenterSlew,
                CenterSend, CenterDone, CenterAgain, CenterArrive, CommittedClean,
                Verdict, Fenced
  <1>4. ~RouteTasks /\ ~Operator /\ ~Stops
    BY DEF RouteTasks, ParkLock, ParkReturns, DomeLock, DomeParked, DomeDone,
           PlainNext, PlainLock, PlainUnpark, PlainSlew, PlainArrive, CenterNext,
           CenterLock, CenterUnpark, CenterTrack, CenterSlew, CenterSend, CenterDone,
           CenterAgain, CenterArrive, Operator, PostGoto, PostPark, PostUnpark,
           PostTracking, PostTrust, PostDomeClose, Stops, PostStop
  <1>5. CASE RunTask /\ ~CenterNext("run")
    BY <1>2, <1>5
       DEF RunTask, RunStep, SafetyGate, ConfirmUnsafe, FrameDone, Acquire,
           Centred, UncentredUnpark, UncentredTrack, UncentredSlew, UncentredSend,
           UncentredArrive, HoldStop, HoldAsksAgain, HoldRead, HoldCooled,
           MaxPauseElapses, CloseStop, FencedPark, CloseParked, CloseUnknown,
           CloseAnswered, ReopenRead, ReopenCooled, Reopen, Reopened,
           ParkUnderLock, ParkReadBack, WindDownPark, WindDownParked,
           WindDownClose, WindDownClosed, WindDownEnds
  <1>6. ~Aborts /\ ~StartRun /\ ~Resumes /\ ~Weather /\ ~ByHand
    BY <1>2 DEF Aborts, Abort, Cancelled, StartRun, Start, Resumes, OperatorResumes,
                Weather, SkyChanges, ByHand
  <1> QED
    BY <1>2, <1>3, <1>4, <1>5, <1>6 DEF Next

(* The fence holds (hub.py, bump_motion_epoch): with every target centred,  *)
(* on a mount that needs no conversion, no slew of the run's follows an     *)
(* operator's STOP, at whichever await of the acquisition it landed, before *)
(* the operator resumes the run.                                            *)
THEOREM StopHalts ==
    ASSUME ~MayNotCentre, ~JnowMount
    PROVE  Spec => StopHolds
  <1>1. Init => Fenced
    BY FencedInductive
  <1>2. Fenced /\ [Next]_vars => Fenced'
    BY FencedInductive
  <1>3. /\ Init => GotoPlaces
        /\ GotoPlaces /\ [Next]_vars => GotoPlaces'
    BY GotoPlacesInductive
  <1>4. GotoPlaces /\ Fenced /\ Fenced' /\ [Next]_vars => [RunSlews => ~stop]_vars
    BY SlewsUnfenced
  <1> QED
    BY <1>1, <1>2, <1>3, <1>4, PTL DEF Spec, StopHolds

----------------------------------------------------------------------------
(* Types, component by component. The mount's commands and the failures.    *)
LEMMA CommandsTyped ==
    ASSUME RigTypeOK
    PROVE  /\ {AfterPark, AfterUnpark, AfterTrackOn, AfterTrackOff, AfterSlew, AfterStop}
                \subseteq MountStates
           /\ Fault => faults' \in 0 .. MaxFaults
           /\ CmdPark \/ StopTracking =>
                mount' \in MountStates /\ faults' \in 0 .. MaxFaults
  <1> USE RigAssumption
          DEF RigTypeOK, MountStates, AfterPark, AfterUnpark, AfterTrackOn,
              AfterTrackOff, AfterSlew, AfterStop
  <1>1. Fault => faults' \in 0 .. MaxFaults
    BY DEF Fault
  <1>2. CmdPark \/ StopTracking => mount' \in MountStates /\ faults' \in 0 .. MaxFaults
    BY <1>1 DEF CmdPark, StopTracking
  <1> QED
    BY <1>1, <1>2

(* The hardware by itself, and the roof opened from its panel. *)
LEMMA RigTyped ==
    ASSUME RigTypeOK, RigNext \/ OpenedByHand PROVE RigTypeOK'
  BY CommandsTyped, RigAssumption
     DEF RigTypeOK, MountStates, RoofStates, RigNext, ParkArrives, SlewArrives, RoofArrives,
         MountResets, OpenedByHand

(* close_observatory, whoever called it. *)
LEMMA CloseTyped ==
    ASSUME RigTypeOK, CoTypeOK, NEW p \in Closers, CoNext(p)
    PROVE  RigTypeOK' /\ CoTypeOK'
  <1> USE CommandsTyped
      DEF RigTypeOK, CoTypeOK, MountStates, RoofStates, CoSteps, CoGo
  <1>1. CASE AskClosed(p)
    BY <1>1 DEF AskClosed
  <1>2. CASE AskParked(p)
    BY <1>2 DEF AskParked
  <1>3. CASE CommandClose(p)
    BY <1>3 DEF CommandClose
  <1>4. CASE CloseReturns(p)
    BY <1>4 DEF CloseReturns, rig
  <1>5. CASE ConfirmClosed(p)
    BY <1>5 DEF ConfirmClosed
  <1> QED
    BY <1>1, <1>2, <1>3, <1>4, <1>5 DEF CoNext

(* goto_and_center and the plain goto. *)
LEMMA GotoTyped ==
    ASSUME RigTypeOK, HubTypeOK, (\E t \in Tasks : CenterNext(t)) \/ PlainNext
    PROVE  RigTypeOK' /\ HubTypeOK'
  <1> USE DEF HubTypeOK, Holders, GotoSteps, GoTo, Verdict
  <1>1. /\ mount' \in MountStates
        /\ UNCHANGED <<roof, posKnown, faults, fenced, halted>>
    BY CommandsTyped
       DEF RigTypeOK, MountStates, rig, CenterNext, CenterLock, CenterUnpark, CenterTrack,
           CenterSlew, CenterSend, CenterDone, CenterAgain, CenterArrive,
           PlainNext, PlainLock, PlainUnpark, PlainSlew, PlainArrive
  <1>2. ASSUME NEW t \in Tasks, CenterNext(t)
        PROVE  lock' \in Holders \cup {"free"} /\ go' \in [Tasks -> GotoSteps]
    BY <1>2
       DEF Tasks, CenterNext, CenterLock, CenterUnpark, CenterTrack, CenterSlew,
           CenterSend, CenterDone, CenterAgain, CenterArrive
  <1>3. CASE PlainNext
    BY <1>1, <1>3
       DEF RigTypeOK, Tasks, PlainNext, PlainLock, PlainUnpark, PlainSlew, PlainArrive
  <1> QED
    BY <1>1, <1>2, <1>3 DEF RigTypeOK

(* The routes and the tasks they spawn. *)
LEMMA RoutesTyped ==
    ASSUME RigTypeOK, CoTypeOK, HubTypeOK, RoutesTypeOK,
           Operator \/ RouteTasks \/ PostStop
    PROVE  RigTypeOK' /\ CoTypeOK' /\ HubTypeOK' /\ RoutesTypeOK'
  <1> USE CommandsTyped
  <1>1. CASE PostGoto
    BY <1>1 DEF PostGoto, ReadEpoch, GoTo, rig, RigTypeOK, CoTypeOK, HubTypeOK,
                RoutesTypeOK, Tasks, GotoSteps
  <1>2. CASE PostPark \/ PostStop
    <2>1. mount' \in MountStates /\ UNCHANGED <<roof, posKnown, faults, co, domeT>>
      BY <1>2 DEF PostPark, PostStop, CancelSlew, RigTypeOK
    <2>2. /\ go' \in [Tasks -> GotoSteps] /\ lock' \in Holders \cup {"free"}
          /\ fenced' \subseteq Tasks /\ halted' \subseteq Tasks
      <3>1. /\ go' \in {[go EXCEPT !["route"] = "parkWait"],
                         [go EXCEPT !["route"] = "none"]}
            /\ lock' \in {lock, "free"}
            /\ fenced' = Tasks /\ halted' \in {halted, Tasks}
        BY <1>2 DEF PostPark, PostStop, Bump, GoTo, LockAfterCancel
      <3> QED
        BY <3>1 DEF HubTypeOK, GotoSteps
    <2> QED
      BY <2>1, <2>2 DEF RigTypeOK, CoTypeOK, HubTypeOK, RoutesTypeOK
  <1>3. CASE PostUnpark \/ PostTracking \/ PostTrust
    BY <1>3 DEF PostUnpark, PostTracking, PostTrust, hub, RigTypeOK, CoTypeOK,
                HubTypeOK, RoutesTypeOK
  <1>4. CASE PostDomeClose
    BY <1>4 DEF PostDomeClose, Bump, GoTo, CoGo, CancelSlew, RigTypeOK, CoTypeOK,
                HubTypeOK, RoutesTypeOK, Tasks, GotoSteps, Holders, Closers, CoSteps,
                DomeSteps
  <1>5. CASE ParkLock \/ ParkReturns
    BY <1>5 DEF ParkLock, ParkReturns, GoTo, rig, RigTypeOK, CoTypeOK, HubTypeOK,
                RoutesTypeOK, Tasks, GotoSteps, Holders
  <1>6. CASE DomeLock
    <2>1. mount' \in MountStates /\ faults' \in 0 .. MaxFaults
      BY <1>6 DEF DomeLock, RigTypeOK
    <2> QED
      BY <1>6, <2>1 DEF DomeLock, CoGo, RigTypeOK, CoTypeOK, HubTypeOK, RoutesTypeOK,
                  Holders, Closers, CoSteps, DomeSteps
  <1>7. CASE DomeParked \/ DomeDone
    BY <1>7 DEF DomeParked, DomeDone, CoGo, rig, RigTypeOK, CoTypeOK, HubTypeOK,
                RoutesTypeOK, Holders, Closers, CoSteps, DomeSteps
  <1>8. CASE (CenterNext("route") \/ PlainNext) /\ UNCHANGED <<co, domeT>>
    BY <1>8, GotoTyped DEF CoTypeOK, RoutesTypeOK, Tasks
  <1>9. CASE CoNext("route") /\ UNCHANGED <<hub, domeT>>
    BY <1>9, CloseTyped DEF HubTypeOK, hub, RoutesTypeOK, Closers
  <1> QED
    BY <1>1, <1>2, <1>3, <1>4, <1>5, <1>6, <1>7, <1>8, <1>9 DEF Operator, RouteTasks

(* How the run leaves one phase for another. *)
LEMMA WaysOnTyped ==
    ASSUME RunTypeOK
    PROVE  /\ SafetyAbort \/ PositionUnknownStop => pc' = "wdPark" /\ wd' \in WindDowns
           /\ WindDown(ParkWhenDone, CloseWhenDone, FALSE) =>
                pc' = "wdPark" /\ wd' \in WindDowns
           /\ Proceed => pc' \in {"expose", "acquire", "wdPark"} /\ wd' \in WindDowns
           /\ OnUnsafe =>
                /\ pc' \in {"expose", "acquire", "wdPark", "crStop", "hold0"}
                /\ wd' \in WindDowns
           /\ Resume => /\ pc' \in {"acquire", "gate", "wdPark"}
                        /\ ctx' \in {"slew", "frame"} /\ wd' \in WindDowns
           /\ CountSafe \/ RestartStreak =>
                safeStreak' \in 0 .. ResumeN /\ clean' \in 0 .. ResumeN
  <1> USE RunAssumption
  <1>1. ASSUME NEW park \in BOOLEAN, NEW close \in BOOLEAN, NEW shielded \in BOOLEAN,
               WindDown(park, close, shielded)
        PROVE  pc' = "wdPark" /\ wd' \in WindDowns
    BY <1>1 DEF WindDown, NoWindDown, WindDowns
  <1>2. SafetyAbort \/ PositionUnknownStop => pc' = "wdPark" /\ wd' \in WindDowns
    BY <1>1, RigAssumption DEF SafetyAbort, PositionUnknownStop
  <1>3. Proceed => pc' \in {"expose", "acquire", "wdPark"} /\ wd' \in WindDowns
    BY <1>2 DEF Proceed, RunTypeOK
  <1>4. OnUnsafe => /\ pc' \in {"expose", "acquire", "wdPark", "crStop", "hold0"}
                    /\ wd' \in WindDowns
    BY <1>2, <1>3 DEF OnUnsafe, RunTypeOK
  <1>5. Resume => /\ pc' \in {"acquire", "gate", "wdPark"}
                  /\ ctx' \in {"slew", "frame"} /\ wd' \in WindDowns
    BY <1>2 DEF Resume, RunTypeOK
  <1>6. CountSafe \/ RestartStreak =>
          safeStreak' \in 0 .. ResumeN /\ clean' \in 0 .. ResumeN
    BY DEF CountSafe, RestartStreak, RunTypeOK
  <1> QED
    BY <1>1, <1>2, <1>3, <1>4, <1>5, <1>6

(* Every step of the run's task. *)
LEMMA RunTyped ==
    ASSUME RigTypeOK, CoTypeOK, HubTypeOK, RunTypeOK,
           Start \/ RunStep \/ OperatorResumes \/ Abort \/ SkyChanges
    PROVE  RigTypeOK' /\ CoTypeOK' /\ HubTypeOK' /\ RunTypeOK'
  <1> USE CommandsTyped, WaysOnTyped, RunAssumption
      DEF rig, hub, run, gateVars, waitVars, parkVars
  <1>1. CASE Start \/ SkyChanges \/ OperatorResumes
    <2>1. NoWindDown \in WindDowns
      BY DEF NoWindDown, WindDowns
    <2> QED
      BY <1>1, <2>1 DEF Start, SkyChanges, OperatorResumes, RigTypeOK, CoTypeOK,
                        HubTypeOK, RunTypeOK, GatePcs, AcquirePcs
  <1>2. CASE SafetyGate \/ ConfirmUnsafe \/ FrameDone
    <2>1. UNCHANGED <<rig, co, hub, safeStreak, clean, sky, pk>>
      BY <1>2 DEF SafetyGate, ConfirmUnsafe, FrameDone
    <2>2. /\ pc' \in {"expose", "acquire", "wdPark", "crStop", "hold0", "confirm", "gate"}
          /\ wd' \in WindDowns /\ ctx' \in {"slew", "frame"}
      <3>1. CASE SafetyGate
        <4>1. wd' = wd => wd' \in WindDowns
          BY DEF RunTypeOK
        <4> QED
          BY <3>1, <4>1 DEF SafetyGate, RunTypeOK, Skies
      <3>2. CASE ConfirmUnsafe \/ FrameDone
        BY <3>2 DEF ConfirmUnsafe, FrameDone, RunTypeOK
      <3> QED
        BY <1>2, <3>1, <3>2
    <2>3. unsafeStreak' \in 0 .. UnsafeN
      <3>1. CASE SafetyGate
        <4>1. unsafeStreak' \in {0, 1, unsafeStreak}
          BY <3>1 DEF SafetyGate, RunTypeOK, Skies
        <4> QED
          BY <4>1 DEF RunTypeOK
      <3>2. CASE ConfirmUnsafe \/ FrameDone
        <4>1. \/ unsafeStreak' \in {0, unsafeStreak}
              \/ ~(unsafeStreak >= UnsafeN) /\ unsafeStreak' = unsafeStreak + 1
          BY <3>2 DEF ConfirmUnsafe, FrameDone
        <4> QED
          BY <4>1 DEF RunTypeOK
      <3> QED
        BY <1>2, <3>1, <3>2
    <2> QED
      BY <2>1, <2>2, <2>3 DEF RigTypeOK, CoTypeOK, HubTypeOK, RunTypeOK, GatePcs,
         AcquirePcs, HoldPcs, ReopenPcs, WindPcs
  <1>3. CASE Acquire \/ Centred
    <2>1. /\ mount' \in MountStates /\ faults' \in 0 .. MaxFaults
          /\ UNCHANGED <<roof, posKnown, lock, co, gateVars, waitVars, sky, pk>>
      BY <1>3 DEF Acquire, Centred, RigTypeOK
    <2>2. /\ go' \in [Tasks -> GotoSteps]
          /\ fenced' \subseteq Tasks /\ halted' \subseteq Tasks
      <3>1. /\ go' \in {go, [go EXCEPT !["run"] = "entered"], [go EXCEPT !["run"] = "none"]}
            /\ fenced' \subseteq fenced /\ halted' \subseteq halted
        BY <1>3 DEF Acquire, Centred, ReadEpoch, GoTo
      <3> QED
        BY <3>1 DEF HubTypeOK, GotoSteps
    <2>3. /\ pc' \in {"centring", "ucUnpark", "wdPark", "expose", "opHold", "acquire"}
          /\ wd' \in WindDowns
      <3>1. CASE Acquire
        BY <3>1 DEF Acquire, RunTypeOK
      <3>2. CASE Centred
        BY <3>2 DEF Centred, RunTypeOK
      <3> QED
        BY <1>3, <3>1, <3>2
    <2> QED
      BY <2>1, <2>2, <2>3 DEF RigTypeOK, CoTypeOK, HubTypeOK, RunTypeOK, GatePcs,
                              AcquirePcs, WindPcs
  <1>4. CASE UncentredUnpark \/ UncentredTrack \/ UncentredSlew \/ UncentredSend
    BY <1>4 DEF UncentredUnpark, UncentredTrack, UncentredSlew, UncentredSend, SendSlew,
                ReadEpoch, RigTypeOK, CoTypeOK, HubTypeOK, RunTypeOK, AcquirePcs, WindPcs,
                GatePcs
  <1>5. CASE UncentredArrive
    <2>1. pc' \in {"expose", "opHoldSlew", "wdPark"} /\ wd' \in WindDowns
      BY <1>5 DEF UncentredArrive, RunTypeOK
    <2> QED
      BY <1>5, <2>1 DEF UncentredArrive, RigTypeOK, CoTypeOK, HubTypeOK, RunTypeOK,
                AcquirePcs, WindPcs, GatePcs
  <1>6. CASE HoldStop \/ HoldAsksAgain \/ HoldRead \/ HoldCooled \/ MaxPauseElapses
    <2>1. /\ mount' \in MountStates /\ faults' \in 0 .. MaxFaults
          /\ UNCHANGED <<roof, posKnown, co, hub, sky, pk>>
      BY <1>6 DEF HoldStop, HoldAsksAgain, HoldRead, HoldCooled, MaxPauseElapses,
                  RigTypeOK
    <2>2. /\ safeStreak' \in 0 .. ResumeN /\ clean' \in 0 .. ResumeN
          /\ unsafeStreak' \in 0 .. UnsafeN
      <3>1. CountSafe \/ RestartStreak \/ UNCHANGED waitVars
        BY <1>6 DEF HoldStop, HoldAsksAgain, HoldRead, HoldCooled, MaxPauseElapses
      <3>2. unsafeStreak' \in {0, unsafeStreak}
        BY <1>6 DEF HoldStop, HoldAsksAgain, HoldRead, HoldCooled, MaxPauseElapses
      <3>3. safeStreak' \in 0 .. ResumeN /\ clean' \in 0 .. ResumeN
        BY <3>1, WaysOnTyped DEF RunTypeOK
      <3>4. unsafeStreak' \in 0 .. UnsafeN
        BY <3>2 DEF RunTypeOK
      <3> QED
        BY <3>3, <3>4
    <2>3. /\ pc' \in {"hold", "holdCool", "acquire", "gate", "wdPark"}
          /\ ctx' \in {"slew", "frame"} /\ wd' \in WindDowns
      <3> USE DEF RunTypeOK
      <3>1. CASE HoldCooled
        BY <3>1 DEF HoldCooled
      <3>2. CASE MaxPauseElapses
        BY <3>2 DEF MaxPauseElapses
      <3> QED
        BY <1>6, <3>1, <3>2 DEF HoldStop, HoldAsksAgain, HoldRead
    <2> QED
      BY <2>1, <2>2, <2>3 DEF RigTypeOK, CoTypeOK, HubTypeOK, RunTypeOK, GatePcs,
                              AcquirePcs, HoldPcs, WindPcs
  <1>7. CASE CloseStop \/ FencedPark
    BY <1>7 DEF CloseStop, FencedPark, Bump, RigTypeOK, CoTypeOK, HubTypeOK, RunTypeOK,
                ReopenPcs, ParkSteps
  <1>8. CASE CloseParked \/ CloseUnknown \/ CloseAnswered
    <2>1. /\ mount' \in MountStates /\ faults' \in 0 .. MaxFaults
          /\ co' \in [Closers -> CoSteps]
          /\ UNCHANGED <<roof, posKnown, hub, gateVars, sky, wd>>
      BY <1>8 DEF CloseParked, CloseUnknown, CloseAnswered, CoGo, RigTypeOK, CoTypeOK,
                  CoSteps
    <2>2. /\ pc' \in {"crUnknown", "crClose", "reopen", "hold0"} /\ pk' \in {pk, "none"}
          /\ RestartStreak \/ UNCHANGED waitVars
      BY <1>8 DEF CloseParked, CloseUnknown, CloseAnswered
    <2>3. safeStreak' \in 0 .. ResumeN /\ clean' \in 0 .. ResumeN
      BY <2>2 DEF RunTypeOK
    <2> QED
      BY <2>1, <2>2, <2>3 DEF RigTypeOK, CoTypeOK, HubTypeOK, RunTypeOK, ReopenPcs,
                              HoldPcs, ParkSteps
  <1>9. CASE ReopenRead \/ ReopenCooled \/ Reopen \/ Reopened
    <2>1. /\ roof' \in RoofStates /\ faults' \in 0 .. MaxFaults
          /\ UNCHANGED <<mount, posKnown, co, hub, sky, pk>>
      BY <1>9 DEF ReopenRead, ReopenCooled, Reopen, Reopened, RigTypeOK, RoofStates
    <2>2. /\ safeStreak' \in 0 .. ResumeN /\ clean' \in 0 .. ResumeN
          /\ unsafeStreak' \in 0 .. UnsafeN
      <3>1. CountSafe \/ RestartStreak \/ UNCHANGED waitVars
        BY <1>9 DEF ReopenRead, ReopenCooled, Reopen, Reopened
      <3>2. unsafeStreak' \in {0, unsafeStreak}
        BY <1>9 DEF ReopenRead, ReopenCooled, Reopen, Reopened
      <3>3. safeStreak' \in 0 .. ResumeN /\ clean' \in 0 .. ResumeN
        BY <3>1, WaysOnTyped DEF RunTypeOK
      <3>4. unsafeStreak' \in 0 .. UnsafeN
        BY <3>2 DEF RunTypeOK
      <3> QED
        BY <3>3, <3>4
    <2>3. /\ pc' \in {"reopen", "reopenCool", "reopenAgain", "opening", "acquire",
                      "gate", "wdPark"}
          /\ ctx' \in {"slew", "frame"} /\ wd' \in WindDowns
      <3> USE DEF RunTypeOK
      <3>1. CASE Reopen
        BY <3>1 DEF Reopen
      <3>2. CASE Reopened
        BY <3>2 DEF Reopened
      <3> QED
        BY <1>9, <3>1, <3>2 DEF ReopenRead, ReopenCooled
    <2> QED
      BY <2>1, <2>2, <2>3 DEF RigTypeOK, CoTypeOK, HubTypeOK, RunTypeOK, GatePcs,
                              AcquirePcs, ReopenPcs, WindPcs
  <1>10. CASE ParkUnderLock
    BY <1>10 DEF ParkUnderLock, RigTypeOK, CoTypeOK, HubTypeOK, RunTypeOK, ParkSteps,
                 Holders, Tasks
  <1>11. CASE ParkReadBack
    <2>1. mount' \in MountStates /\ faults' \in 0 .. MaxFaults
      BY <1>11 DEF ParkReadBack, RigTypeOK
    <2>2. pk' \in ParkSteps /\ lock' \in Holders \cup {"free"}
      BY <1>11 DEF ParkReadBack, ParkEnds, HubTypeOK, ParkSteps, RunTypeOK
    <2> QED
      BY <1>11, <2>1, <2>2 DEF ParkReadBack, RigTypeOK, CoTypeOK, HubTypeOK, RunTypeOK
  <1>12. CASE WindDownPark \/ WindDownParked
    BY <1>12 DEF WindDownPark, WindDownParked, Bump, RigTypeOK, CoTypeOK, HubTypeOK,
                 RunTypeOK, ParkSteps, WindPcs, GatePcs, WindDowns
  <1>13. CASE WindDownClose \/ WindDownClosed \/ WindDownEnds
    BY <1>13 DEF WindDownClose, WindDownClosed, WindDownEnds, CoGo, RigTypeOK, CoTypeOK,
                 HubTypeOK, RunTypeOK, WindPcs, GatePcs, Closers, CoSteps
  <1>14. CASE CenterNext("run") /\ UNCHANGED <<co, run>>
    BY <1>14, GotoTyped DEF CoTypeOK, RunTypeOK, Tasks
  <1>15. CASE CoNext("run") /\ UNCHANGED <<hub, run>>
    BY <1>15, CloseTyped DEF HubTypeOK, RunTypeOK, Closers
  <1>16. CASE Abort
    <2>1. mount' \in MountStates /\ faults' \in 0 .. MaxFaults
      BY <1>16 DEF Abort, CancelSlew, RigTypeOK
    <2>2. /\ co' \in [Closers -> CoSteps] /\ go' \in [Tasks -> GotoSteps]
          /\ lock' \in Holders \cup {"free"}
      BY <1>16 DEF Abort, Cancelled, CoGo, GoTo, LockAfterCancel, CoTypeOK, HubTypeOK,
                   Closers, CoSteps, Tasks, GotoSteps
    <2>3. pc' \in {pc, "idle"} /\ pk' \in {pk, "none"}
      BY <1>16 DEF Abort, Cancelled
    <2>4. wd' \in WindDowns
      BY <1>16 DEF Abort, RunTypeOK, WindDowns
    <2> QED
      BY <1>16, <2>1, <2>2, <2>3, <2>4
         DEF Abort, RigTypeOK, CoTypeOK, HubTypeOK, RunTypeOK, ParkSteps, GatePcs
  <1> QED
    BY <1>1, <1>2, <1>3, <1>4, <1>5, <1>6, <1>7, <1>8, <1>9, <1>10, <1>11, <1>12,
       <1>13, <1>14, <1>15, <1>16 DEF RunStep

(* Every variable keeps its type, and the two debounce counters their       *)
(* bounds, whatever the plan, the routes and the failures.                  *)
THEOREM TypeCorrect == Spec => []TypeOK
  <1>1. Init => TypeOK
    <2> SUFFICES ASSUME Init PROVE TypeOK
      OBVIOUS
    <2> USE DEF Init
    <2>1. RigTypeOK
      BY RigAssumption DEF RigInit, RigTypeOK, MountStates, RoofStates
    <2>2. CoTypeOK /\ HubTypeOK /\ RoutesTypeOK
      BY DEF CoInit, HubInit, RoutesInit, CoTypeOK, CoSteps, HubTypeOK, GotoSteps, Holders,
             RoutesTypeOK, DomeSteps
    <2>3. NoWindDown \in WindDowns
      BY DEF NoWindDown, WindDowns
    <2>4. RunTypeOK
      BY <2>3, RunAssumption DEF RunInit, RunTypeOK, GatePcs, ParkSteps
    <2> QED
      BY <2>1, <2>2, <2>4 DEF TypeOK
  <1>2. TypeOK /\ [Next]_vars => TypeOK'
    <2> SUFFICES ASSUME TypeOK, [Next]_vars PROVE TypeOK'
      OBVIOUS
    <2> USE DEF TypeOK
    <2>1. CASE RigNext /\ UNCHANGED <<co, hub, domeT, run, stop>>
      BY <2>1, RigTyped DEF CoTypeOK, HubTypeOK, RoutesTypeOK, RunTypeOK, hub, run
    <2>2. CASE ByHand
      BY <2>2, RigTyped DEF ByHand, CoTypeOK, HubTypeOK, RoutesTypeOK, RunTypeOK, hub, run
    <2>3. CASE (Operator \/ RouteTasks) /\ UNCHANGED <<run, stop>>
      BY <2>3, RoutesTyped DEF RunTypeOK, run
    <2>4. CASE Stops
      BY <2>4, RoutesTyped DEF Stops, RunTypeOK, run
    <2>5. CASE StartRun \/ RunTask \/ Resumes \/ Aborts \/ Weather
      BY <2>5, RunTyped DEF StartRun, RunTask, Resumes, Aborts, Weather, RoutesTypeOK
    <2>6. CASE UNCHANGED vars
      BY <2>6 DEF vars, rig, hub, run, RigTypeOK, CoTypeOK, HubTypeOK, RoutesTypeOK,
                  RunTypeOK
    <2> QED
      BY <2>1, <2>2, <2>3, <2>4, <2>5, <2>6 DEF Next
  <1> QED
    BY <1>1, <1>2, PTL DEF Spec

----------------------------------------------------------------------------
(* The resume debounce. safeStreak is what the code compares, clean what    *)
(* was really read: they agree, and past the threshold they stay there.     *)
ReadyPcs == {"holdCool", "reopenCool", "reopenAgain", "opening"}

Debounce ==
    /\ clean = safeStreak
    /\ pc \in ReadyPcs => clean >= ResumeN

(* Outside the two waits nothing is counted, and no wait is entered ready.  *)
LEMMA StreakKept ==
    ASSUME Debounce, UNCHANGED waitVars, pc' = pc \/ pc' \notin ReadyPcs
    PROVE  Debounce'
  BY DEF Debounce, waitVars

(* The operator's routes, the hardware and the tasks under the run count    *)
(* nothing; an Abort and a new run leave the waits behind.                  *)
LEMMA DebounceInductive ==
    /\ Init => Debounce
    /\ TypeOK /\ Debounce /\ [Next]_vars => Debounce'
  <1>1. Init => Debounce
    BY DEF Init, RunInit, Debounce, ReadyPcs
  <1>2. ASSUME TypeOK, Debounce, [Next]_vars PROVE Debounce'
    <2> USE <1>2, StreakKept
    <2>1. CASE UNCHANGED run
      BY <2>1 DEF run, waitVars
    <2>2. CASE StartRun \/ Resumes \/ Weather \/ Aborts
      <3>1. UNCHANGED waitVars
        BY <2>2 DEF StartRun, Start, Resumes, OperatorResumes, Weather, SkyChanges, Aborts,
                    Abort
      <3>2. pc' = pc \/ pc' \notin ReadyPcs
        BY <2>2 DEF StartRun, Start, Resumes, OperatorResumes, Weather, SkyChanges, Aborts,
                    Abort, Cancelled, ReadyPcs
      <3> QED
        BY <3>1, <3>2
    <2>3. CASE RunTask
      <3>0. RunTypeOK
        BY DEF TypeOK
      <3>1. CASE SafetyGate \/ ConfirmUnsafe \/ FrameDone
        <4>1. OnUnsafe \/ Proceed => pc' \notin ReadyPcs
          BY <3>0, WaysOnTyped DEF ReadyPcs
        <4>2. WindDown(ParkWhenDone, CloseWhenDone, FALSE) => pc' \notin ReadyPcs
          BY DEF WindDown, ReadyPcs
        <4>3. pc' = pc \/ pc' \notin ReadyPcs
          BY <3>0, <3>1, <4>1, <4>2
             DEF SafetyGate, ConfirmUnsafe, FrameDone, ReadyPcs, RunTypeOK, Skies
        <4> QED
          BY <3>1, <4>3 DEF SafetyGate, ConfirmUnsafe, FrameDone
      <3>2. CASE Acquire \/ Centred \/ UncentredUnpark \/ UncentredTrack \/ UncentredSlew
                 \/ UncentredSend \/ UncentredArrive
        <4>1. pc' \notin ReadyPcs
          BY <3>2 DEF Acquire, Centred, UncentredUnpark, UncentredTrack, UncentredSlew,
                      UncentredSend, UncentredArrive, SendSlew, PositionUnknownStop,
                      WindDown, ReadyPcs
        <4> QED
          BY <3>2, <4>1 DEF Acquire, Centred, UncentredUnpark, UncentredTrack,
                            UncentredSlew, UncentredSend, UncentredArrive
      <3>3. CASE CloseStop \/ FencedPark \/ CloseParked \/ MaxPauseElapses
        BY <3>3 DEF CloseStop, FencedPark, CloseParked, MaxPauseElapses, SafetyAbort,
                    WindDown, ReadyPcs
      <3>4. CASE HoldStop \/ CloseUnknown \/ CloseAnswered
        BY <3>4 DEF HoldStop, CloseUnknown, CloseAnswered, RestartStreak, Debounce,
                    ReadyPcs
      <3>5. CASE HoldRead \/ ReopenRead
        BY <3>0, <3>5, RunAssumption
           DEF HoldRead, ReopenRead, CountSafe, RestartStreak, Debounce, RunTypeOK,
               ReadyPcs
      <3>6. CASE HoldCooled
        <4>1. CASE RestartStreak /\ pc' = "hold"
          BY <4>1 DEF RestartStreak, Debounce, ReadyPcs
        <4>2. CASE Resume /\ UNCHANGED waitVars
          BY <3>0, <4>2, WaysOnTyped DEF ReadyPcs
        <4> QED
          BY <3>6, <4>1, <4>2 DEF HoldCooled
      <3>7. CASE ReopenCooled \/ Reopen
        <4>1. CASE CountSafe /\ clean >= ResumeN
          BY <3>0, <4>1, RunAssumption DEF CountSafe, Debounce, RunTypeOK
        <4>2. CASE RestartStreak /\ pc' = "reopen"
          BY <4>2 DEF RestartStreak, Debounce, ReadyPcs
        <4> QED
          BY <3>7, <4>1, <4>2 DEF ReopenCooled, Reopen, Debounce, ReadyPcs
      <3>8. CASE Reopened
        <4>1. Resume \/ SafetyAbort
          BY <3>8 DEF Reopened
        <4> QED
          BY <3>0, <3>8, <4>1, WaysOnTyped DEF Reopened, ReadyPcs
      <3>9. CASE HoldAsksAgain \/ ParkUnderLock \/ ParkReadBack
        BY <3>9 DEF HoldAsksAgain, ParkUnderLock, ParkReadBack, run, waitVars
      <3>10. CASE \/ WindDownPark \/ WindDownParked \/ WindDownClose \/ WindDownClosed
                  \/ WindDownEnds
        BY <3>10 DEF WindDownPark, WindDownParked, WindDownClose, WindDownClosed,
                     WindDownEnds, ReadyPcs
      <3> QED
        BY <2>1, <2>3, <3>1, <3>2, <3>3, <3>4, <3>5, <3>6, <3>7, <3>8, <3>9, <3>10
           DEF RunTask, RunStep
    <2> QED
      BY <2>1, <2>2, <2>3 DEF Next, vars, ByHand, Stops
  <1> QED
    BY <1>1, <1>2

(* A held run leaves its wait for work by two doors only. *)
LEMMA LeavesReady ==
    ASSUME TypeOK, Debounce, Next, Held, ~Held', Live', pc' \notin WindPcs
    PROVE  clean >= ResumeN
  <1> USE DEF Held, Live, HoldPcs, ReopenPcs, WindPcs
  <1>0. RunTypeOK
    BY DEF TypeOK
  <1>1. pc' # pc
    OBVIOUS
  <1>2. ~StartRun /\ ~Resumes /\ ~Weather /\ ~Aborts
    BY <1>1 DEF StartRun, Start, Resumes, OperatorResumes, Weather, SkyChanges, Aborts,
                Abort, Cancelled
  <1>3. CASE RunStep
    <2>1. ~SafetyGate /\ ~ConfirmUnsafe /\ ~FrameDone /\ ~Acquire /\ ~Centred
      BY DEF SafetyGate, ConfirmUnsafe, FrameDone, Acquire, Centred
    <2>2. /\ ~UncentredUnpark /\ ~UncentredTrack /\ ~UncentredSlew /\ ~UncentredSend
          /\ ~UncentredArrive
      BY DEF UncentredUnpark, UncentredTrack, UncentredSlew, UncentredSend,
             UncentredArrive
    <2>3. ~HoldStop /\ ~HoldAsksAgain /\ ~HoldRead /\ ~MaxPauseElapses
      BY <1>1 DEF HoldStop, HoldAsksAgain, HoldRead, MaxPauseElapses, SafetyAbort,
                  WindDown, run
    <2>4. /\ ~CloseStop /\ ~FencedPark /\ ~CloseParked /\ ~CloseUnknown
          /\ ~CloseAnswered /\ ~ReopenRead /\ ~ReopenCooled
      BY DEF CloseStop, FencedPark, CloseParked, CloseUnknown, CloseAnswered,
             ReopenRead, ReopenCooled
    <2>5. ~Reopen
      BY DEF Reopen, SafetyAbort, WindDown
    <2>6. /\ ~ParkUnderLock /\ ~ParkReadBack
          /\ ~WindDownPark /\ ~WindDownParked /\ ~WindDownClose
          /\ ~WindDownClosed /\ ~WindDownEnds
      BY <1>1 DEF ParkUnderLock, ParkReadBack, WindDownPark, WindDownParked,
                  WindDownClose, WindDownClosed, WindDownEnds
    <2>7. HoldCooled \/ Reopened
      BY <1>1, <1>3, <2>1, <2>2, <2>3, <2>4, <2>5, <2>6 DEF RunStep, run
    <2> QED
      BY <2>7 DEF HoldCooled, Reopened, Debounce, ReadyPcs
  <1> QED
    BY <1>1, <1>2, <1>3 DEF Next, RunTask, run, ByHand, Stops

(* engine._park_hold_pause and _await_safe_and_reopen: whatever the two     *)
(* thresholds, and however the weather, the operator, the failures and the  *)
(* Aborts interleave, a run the weather held goes back to work only on      *)
(* resume_safe_consecutive safe readings in a row.                          *)
THEOREM ResumesDebounced == Spec => ResumeDebounced
  <1>1. Spec => []TypeOK
    BY TypeCorrect
  <1>2. /\ Init => Debounce
        /\ TypeOK /\ Debounce /\ [Next]_vars => Debounce'
    BY DebounceInductive
  <1>3. TypeOK /\ Debounce /\ [Next]_vars
        => [Held /\ ~Held' /\ Live' /\ pc' \notin WindPcs => clean >= ResumeN]_vars
    BY LeavesReady
  <1> QED
    BY <1>1, <1>2, <1>3, PTL DEF Spec, ResumeDebounced

----------------------------------------------------------------------------
(* What the run's inner tasks do not depend on: nobody else steps them.     *)
LEMMA InsideInductive ==
    /\ Init => RunInside
    /\ TypeOK /\ RunInside /\ [Next]_vars => RunInside'
  <1>1. Init => RunInside
    BY DEF Init, CoInit, HubInit, RunInit, RunInside, Closers, Tasks
  <1>2. ASSUME TypeOK, RunInside, [Next]_vars PROVE RunInside'
    <2>0. /\ co \in [Closers -> CoSteps] /\ go \in [Tasks -> GotoSteps]
          /\ RunTypeOK
      BY <1>2 DEF TypeOK, CoTypeOK, HubTypeOK
    <2> USE <1>2, <2>0 DEF RunInside, ClosePcs, CoGo, GoTo, Closers, Tasks
    <2>1. CASE pc' = pc /\ co'["run"] = co["run"] /\ go'["run"] = go["run"]
      BY <2>1
    <2>2. CASE RigNext /\ UNCHANGED <<co, hub, domeT, run, stop>>
      BY <2>1, <2>2 DEF hub, run
    <2>3. CASE (Operator \/ RouteTasks) /\ UNCHANGED <<run, stop>>
      <3>1. co'["run"] = co["run"]
        BY <2>3 DEF Operator, PostGoto, PostPark, PostUnpark, PostTracking, PostTrust,
                    PostDomeClose, RouteTasks, ParkLock, ParkReturns, DomeLock,
                    DomeParked, DomeDone, CoNext, AskClosed, AskParked, CommandClose,
                    CloseReturns, ConfirmClosed
      <3>2. Operator => go'["run"] = go["run"]
        BY DEF Operator, PostGoto, PostPark, PostUnpark, PostTracking, PostTrust,
               PostDomeClose, hub
      <3>3. RouteTasks => go'["run"] = go["run"]
        <4>1. CenterNext("route") \/ PlainNext => go'["run"] = go["run"]
          BY DEF PlainNext, PlainLock, PlainUnpark, PlainSlew, PlainArrive,
                 CenterNext, CenterLock, CenterUnpark, CenterTrack, CenterSlew,
                 CenterSend, CenterDone, CenterAgain, CenterArrive
        <4> QED
          BY <4>1 DEF RouteTasks, ParkLock, ParkReturns, DomeLock, DomeParked,
                      DomeDone, hub
      <3> QED
        BY <2>1, <2>3, <3>1, <3>2, <3>3 DEF run
    <2>4. CASE Stops \/ Weather \/ ByHand
      BY <2>1, <2>4 DEF Stops, PostStop, Weather, SkyChanges, ByHand, hub, run
    <2>5. CASE StartRun \/ Resumes
      BY <2>5 DEF StartRun, Start, Resumes, OperatorResumes, hub
    <2>6. CASE Aborts
      BY <2>6 DEF Aborts, Abort, Cancelled
    <2>7. CASE RunTask
      <3> USE <2>7
      <3>1. CASE CoNext("run") /\ UNCHANGED <<hub, run>>
        BY <3>1 DEF CoNext, CoAt, AskClosed, AskParked, CommandClose, CloseReturns,
                    ConfirmClosed, hub, run
      <3>2. CASE CenterNext("run") /\ UNCHANGED <<co, run>>
        BY <3>2 DEF CenterNext, CenterLock, CenterUnpark, CenterTrack, CenterSlew,
                    CenterSend, CenterDone, CenterAgain, CenterArrive, run
      <3>3. CASE \/ SafetyGate \/ ConfirmUnsafe \/ FrameDone
                 \/ UncentredUnpark \/ UncentredTrack \/ UncentredSlew \/ UncentredSend
                 \/ UncentredArrive
                 \/ HoldStop \/ HoldRead \/ HoldCooled \/ MaxPauseElapses
        BY <3>3 DEF SafetyGate, ConfirmUnsafe, FrameDone, UncentredUnpark, UncentredTrack,
                    UncentredSlew, UncentredSend, UncentredArrive, HoldStop, HoldRead,
                    HoldCooled, MaxPauseElapses, hub
      <3>4. CASE \/ CloseStop \/ FencedPark \/ ReopenRead \/ ReopenCooled \/ Reopen
                 \/ Reopened \/ WindDownPark \/ WindDownParked \/ WindDownEnds
        BY <3>4 DEF CloseStop, FencedPark, ReopenRead, ReopenCooled, Reopen, Reopened,
                    WindDownPark, WindDownParked, WindDownEnds, hub
      <3>5. CASE HoldAsksAgain \/ ParkUnderLock \/ ParkReadBack
        BY <2>1, <3>5 DEF HoldAsksAgain, ParkUnderLock, ParkReadBack, hub, run
      <3>6. CASE Acquire \/ Centred
        BY <3>6 DEF Acquire, Centred
      <3>7. CASE \/ CloseParked \/ CloseUnknown \/ CloseAnswered \/ WindDownClose
                 \/ WindDownClosed
        BY <3>7 DEF CloseParked, CloseUnknown, CloseAnswered, WindDownClose,
                    WindDownClosed, hub
      <3> QED
        BY <3>1, <3>2, <3>3, <3>4, <3>5, <3>6, <3>7 DEF RunTask, RunStep
    <2>8. CASE UNCHANGED vars
      BY <2>1, <2>8 DEF vars, hub, run
    <2> QED
      BY <2>2, <2>3, <2>4, <2>5, <2>6, <2>7, <2>8 DEF Next
  <1> QED
    BY <1>1, <1>2

----------------------------------------------------------------------------
(* Failures are spent one at a time and never given back. *)
LEMMA FaultsSpent ==
    ASSUME TypeOK, [Next]_vars
    PROVE  /\ faults \in Nat /\ faults' \in {faults, faults + 1}
           /\ faults' = 0 => faults = 0
           /\ faults' <= 1 => faults <= 1
  <1>1. faults \in Nat
    BY RigAssumption DEF TypeOK, RigTypeOK
  <1>2. faults' \in {faults, faults + 1}
    <2> USE DEF rig, Fault, CmdPark, StopTracking
    <2>1. ASSUME NEW p \in Closers, CoNext(p) PROVE faults' \in {faults, faults + 1}
      BY <2>1 DEF CoNext, AskClosed, AskParked, CommandClose, CloseReturns, ConfirmClosed
    <2>2. ASSUME NEW t \in Tasks, CenterNext(t) PROVE faults' = faults
      BY <2>2 DEF CenterNext, CenterLock, CenterUnpark, CenterTrack, CenterSlew,
                  CenterSend, CenterDone, CenterAgain, CenterArrive
    <2>3. CASE RigNext \/ ByHand
      BY <2>3 DEF RigNext, ParkArrives, SlewArrives, RoofArrives, MountResets, ByHand,
                  OpenedByHand
    <2>4. CASE Operator \/ Stops
      BY <2>4 DEF Operator, PostGoto, PostPark, PostUnpark, PostTracking, PostTrust,
                  PostDomeClose, Stops, PostStop
    <2>5. CASE RouteTasks
      BY <2>1, <2>2, <2>5
         DEF RouteTasks, ParkLock, ParkReturns, DomeLock, DomeParked, DomeDone, PlainNext,
             PlainLock, PlainUnpark, PlainSlew, PlainArrive, Tasks, Closers
    <2>6. CASE RunStep
      <3>1. CASE \/ SafetyGate \/ ConfirmUnsafe \/ FrameDone \/ Acquire \/ Centred
                 \/ UncentredUnpark \/ UncentredTrack \/ UncentredSlew \/ UncentredSend
                 \/ UncentredArrive
        BY <3>1 DEF SafetyGate, ConfirmUnsafe, FrameDone, Acquire, Centred, UncentredUnpark,
                    UncentredTrack, UncentredSlew, UncentredSend, UncentredArrive
      <3>2. CASE \/ HoldStop \/ HoldAsksAgain \/ HoldRead \/ HoldCooled \/ MaxPauseElapses
                 \/ CloseStop \/ FencedPark \/ CloseParked \/ CloseUnknown
                 \/ CloseAnswered \/ ReopenRead \/ ReopenCooled \/ Reopen \/ Reopened
        BY <3>2 DEF HoldStop, HoldAsksAgain, HoldRead, HoldCooled, MaxPauseElapses, CloseStop,
                    FencedPark, CloseParked, CloseUnknown, CloseAnswered, ReopenRead,
                    ReopenCooled, Reopen, Reopened
      <3>3. CASE \/ ParkUnderLock \/ ParkReadBack \/ WindDownPark \/ WindDownParked
                 \/ WindDownClose \/ WindDownClosed \/ WindDownEnds
        BY <3>3 DEF ParkUnderLock, ParkReadBack, WindDownPark, WindDownParked,
                    WindDownClose, WindDownClosed, WindDownEnds
      <3> QED
        BY <2>1, <2>2, <2>6, <3>1, <3>2, <3>3 DEF RunStep, Tasks, Closers
    <2>7. CASE StartRun \/ Resumes \/ Aborts \/ Weather
      BY <2>7 DEF StartRun, Start, Resumes, OperatorResumes, Aborts, Abort, Weather,
                  SkyChanges
    <2> QED
      BY <2>3, <2>4, <2>5, <2>6, <2>7 DEF Next, vars, RunTask
  <1> QED
    BY <1>1, <1>2

(* The sky over the run. A close that is the run's alone, and ends before   *)
(* it returns, leaves the roof where the run's own place says: without a    *)
(* device failure the run is at work, or holds under the open sky, only     *)
(* with the roof open.                                                      *)
RunsRoofAlone == "dome" \notin Routes /\ SyncRoof /\ ~RoofMayBeSlow

OpenPcs == {"gate", "confirm", "expose", "crStop", "crPark", "crParking", "crUnknown"}
           \cup AcquirePcs \cup HoldPcs

RoofKnown ==
    faults = 0 =>
        /\ pc \in OpenPcs => roof = "open"
        /\ pc = "crClose" =>
             /\ co["run"] \in {"isClosed", "isParked", "command", "no"} => roof = "open"
             /\ co["run"] = "travel" => roof \in {"closing", "closed"}
             /\ co["run"] \in {"confirm", "yes"} => roof = "closed"

NoDomeLane == domeT = "none" /\ co["route"] = "idle"

(* A step that moves no roof and takes the run to no open-sky place from    *)
(* elsewhere.                                                               *)
LEMMA RoofStays ==
    ASSUME RoofKnown,
           roof' = roof,
           faults' = 0 => faults = 0,
           pc' \in OpenPcs => pc \in OpenPcs,
           pc' = "crClose" => pc = "crClose" /\ co'["run"] = co["run"]
    PROVE  RoofKnown'
  BY DEF RoofKnown

(* Without its route the dome lane stays empty. *)
LEMMA NoDomeLaneInductive ==
    ASSUME "dome" \notin Routes
    PROVE  /\ Init => NoDomeLane
           /\ TypeOK /\ NoDomeLane /\ [Next]_vars => NoDomeLane'
  <1>1. Init => NoDomeLane
    BY DEF Init, CoInit, RoutesInit, NoDomeLane, Closers
  <1>2. ASSUME TypeOK, NoDomeLane, [Next]_vars PROVE NoDomeLane'
    <2>0. co \in [Closers -> CoSteps]
      BY <1>2 DEF TypeOK, CoTypeOK
    <2> USE <1>2, <2>0 DEF NoDomeLane, CoGo, Closers
    <2>1. CASE RigNext /\ UNCHANGED <<co, hub, domeT, run, stop>>
      BY <2>1
    <2>2. CASE Operator \/ RouteTasks
      BY <2>2 DEF Operator, PostGoto, PostPark, PostUnpark, PostTracking, PostTrust,
                  PostDomeClose, RouteTasks, ParkLock, ParkReturns, DomeLock, DomeParked,
                  DomeDone, CoNext, CoAt, AskClosed, AskParked, CommandClose, CloseReturns,
                  ConfirmClosed
    <2>3. CASE Stops \/ Weather \/ ByHand \/ StartRun \/ Resumes \/ Aborts
      BY <2>3 DEF Stops, PostStop, Weather, SkyChanges, ByHand, StartRun, Start, Resumes,
                  OperatorResumes, Aborts, Abort, Cancelled
    <2>4. CASE RunTask
      <3>1. co'["route"] = co["route"]
        <4>1. CASE \/ SafetyGate \/ ConfirmUnsafe \/ FrameDone \/ Acquire \/ Centred
                   \/ UncentredUnpark \/ UncentredTrack \/ UncentredSlew
                   \/ UncentredSend \/ UncentredArrive \/ HoldStop \/ HoldAsksAgain
                   \/ HoldRead \/ HoldCooled \/ MaxPauseElapses
          BY <4>1 DEF SafetyGate, ConfirmUnsafe, FrameDone, Acquire, Centred,
                      UncentredUnpark, UncentredTrack, UncentredSlew, UncentredSend,
                      UncentredArrive, HoldStop, HoldAsksAgain, HoldRead, HoldCooled,
                      MaxPauseElapses
        <4>2. CASE ~(\/ SafetyGate \/ ConfirmUnsafe \/ FrameDone \/ Acquire \/ Centred
                   \/ UncentredUnpark \/ UncentredTrack \/ UncentredSlew
                   \/ UncentredSend \/ UncentredArrive \/ HoldStop \/ HoldAsksAgain
                   \/ HoldRead \/ HoldCooled \/ MaxPauseElapses)
          BY <2>4, <4>2
             DEF RunTask, RunStep, CloseStop, FencedPark, CloseParked, CloseUnknown,
                 CloseAnswered, ReopenRead, ReopenCooled, Reopen, Reopened, ParkUnderLock,
                 ParkReadBack, WindDownPark, WindDownParked, WindDownClose,
                 WindDownClosed, WindDownEnds, CoNext, AskClosed, AskParked,
                 CommandClose, CloseReturns, ConfirmClosed
        <4> QED
          BY <4>1, <4>2
      <3> QED
        BY <2>4, <3>1 DEF RunTask
    <2> QED
      BY <2>1, <2>2, <2>3, <2>4 DEF Next, vars
  <1> QED
    BY <1>1, <1>2

(* The run's own close moves the roof, and reads it, as RoofKnown says. *)
LEMMA CloseKnows ==
    ASSUME RunsRoofAlone, TypeOK, RoofKnown, RunInside, [Next]_vars,
           CoNext("run"), pc' = pc
    PROVE  RoofKnown'
  <1>0. /\ co \in [Closers -> CoSteps] /\ pc \notin OpenPcs
        /\ faults' = 0 => faults = 0
    BY FaultsSpent DEF TypeOK, CoTypeOK, CoNext, CoAt, AskClosed, AskParked,
       CommandClose, CloseReturns, ConfirmClosed, RunInside, ClosePcs, OpenPcs,
       AcquirePcs, HoldPcs
  <1>1. SUFFICES ASSUME faults' = 0, faults = 0, pc = "crClose"
                 PROVE  /\ co'["run"] \in {"isClosed", "isParked", "command", "no"}
                             => roof' = "open"
                        /\ co'["run"] = "travel" => roof' \in {"closing", "closed"}
                        /\ co'["run"] \in {"confirm", "yes"} => roof' = "closed"
    BY <1>0 DEF RoofKnown
  <1> USE <1>0, <1>1 DEF RoofKnown, CoAt, CoGo, Closers, Fault
  <1>2. CASE AskClosed("run")
    BY <1>2 DEF AskClosed
  <1>3. CASE AskParked("run")
    BY <1>3 DEF AskParked
  <1>4. CASE CommandClose("run")
    BY <1>4 DEF CommandClose
  <1>5. CASE CloseReturns("run")
    BY <1>5 DEF CloseReturns, RunsRoofAlone, rig
  <1>6. CASE ConfirmClosed("run")
    BY <1>6 DEF ConfirmClosed
  <1> QED
    BY <1>2, <1>3, <1>4, <1>5, <1>6 DEF CoNext

(* Every other step of the run: the roof is left alone but by the           *)
(* reopening, and a wait under the closed roof ends confirmed open.         *)
LEMMA RunKnows ==
    ASSUME RunsRoofAlone, TypeOK, RoofKnown, RunInside, [Next]_vars,
           RunStep, ~(CoNext("run") /\ UNCHANGED <<hub, run>>)
    PROVE  RoofKnown'
  <1>0. /\ faults' = 0 => faults = 0
        /\ RunTypeOK /\ co \in [Closers -> CoSteps]
    BY FaultsSpent DEF TypeOK, CoTypeOK
  <1> USE <1>0, RoofStays DEF OpenPcs, AcquirePcs, HoldPcs
  <1>1. CASE SafetyGate \/ ConfirmUnsafe \/ FrameDone
    <2>1. roof' = roof
      BY <1>1 DEF SafetyGate, ConfirmUnsafe, FrameDone, rig
    <2>2. pc \in OpenPcs
      BY <1>1 DEF SafetyGate, ConfirmUnsafe, FrameDone
    <2>3. pc' # "crClose"
      <3>1. OnUnsafe \/ Proceed => pc' # "crClose"
        BY WaysOnTyped
      <3> QED
        BY <1>1, <3>1 DEF SafetyGate, ConfirmUnsafe, FrameDone, WindDown, RunTypeOK, Skies
    <2> QED
      BY <2>1, <2>2, <2>3
  <1>2. CASE \/ Acquire \/ Centred \/ UncentredUnpark \/ UncentredTrack
             \/ UncentredSlew \/ UncentredSend \/ UncentredArrive
    <2>1. roof' = roof /\ pc \in OpenPcs
      BY <1>2 DEF Acquire, Centred, UncentredUnpark, UncentredTrack, UncentredSlew,
                  UncentredSend, UncentredArrive, rig
    <2>2. pc' # "crClose"
      BY <1>2 DEF Acquire, Centred, UncentredUnpark, UncentredTrack, UncentredSlew,
                  UncentredSend, UncentredArrive, SendSlew, PositionUnknownStop, WindDown
    <2> QED
      BY <2>1, <2>2
  <1>3. CASE HoldStop \/ HoldAsksAgain \/ HoldRead \/ HoldCooled \/ MaxPauseElapses
    <2>1. roof' = roof
      BY <1>3 DEF HoldStop, HoldAsksAgain, HoldRead, HoldCooled, MaxPauseElapses, rig
    <2>2. pc' # "crClose" /\ (pc \in OpenPcs \/ pc' = "wdPark")
      BY <1>3, WaysOnTyped DEF HoldStop, HoldAsksAgain, HoldRead, HoldCooled,
                               MaxPauseElapses, run
    <2> QED
      BY <2>1, <2>2
  <1>4. CASE CloseStop \/ FencedPark
    BY <1>4 DEF CloseStop, FencedPark
  <1>5. CASE CloseParked \/ CloseUnknown
    BY <1>5 DEF CloseParked, CloseUnknown, RoofKnown, CoGo, Closers, rig
  <1>6. CASE CloseAnswered
    BY <1>6 DEF CloseAnswered, RoofKnown, rig
  <1>7. CASE ReopenRead \/ ReopenCooled
    BY <1>7 DEF ReopenRead, ReopenCooled, rig
  <1>8. CASE Reopen
    BY <1>8 DEF Reopen, SafetyAbort, WindDown, RoofKnown
  <1>9. CASE Reopened
    <2>1. roof' = roof /\ (roof = "open" \/ pc' = "wdPark")
      BY <1>9, WaysOnTyped DEF Reopened, RunsRoofAlone
    <2>2. pc' # "crClose"
      BY <1>9, WaysOnTyped DEF Reopened
    <2> QED
      BY <2>1, <2>2 DEF RoofKnown
  <1>10. CASE ParkUnderLock \/ ParkReadBack
    BY <1>10 DEF ParkUnderLock, ParkReadBack
  <1>11. CASE \/ WindDownPark \/ WindDownParked \/ WindDownClose \/ WindDownClosed
              \/ WindDownEnds
    BY <1>11 DEF WindDownPark, WindDownParked, WindDownClose, WindDownClosed,
                 WindDownEnds, rig
  <1>12. CASE CenterNext("run") /\ UNCHANGED <<co, run>>
    BY <1>12 DEF CenterNext, CenterLock, CenterUnpark, CenterTrack, CenterSlew,
                 CenterSend, CenterDone, CenterAgain, CenterArrive, rig, run
  <1> QED
    BY <1>1, <1>2, <1>3, <1>4, <1>5, <1>6, <1>7, <1>8, <1>9, <1>10, <1>11, <1>12
       DEF RunStep

(* A run starts under an open roof, and no one else closes it. *)
LEMMA RoofKnownInductive ==
    ASSUME RunsRoofAlone
    PROVE  /\ Init => RoofKnown
           /\ TypeOK /\ RoofKnown /\ RunInside /\ NoDomeLane /\ [Next]_vars => RoofKnown'
  <1>1. Init => RoofKnown
    BY DEF Init, RigInit, RunInit, RoofKnown
  <1>2. ASSUME TypeOK, RoofKnown, RunInside, NoDomeLane, [Next]_vars PROVE RoofKnown'
    <2>0. (faults' = 0 => faults = 0) /\ co \in [Closers -> CoSteps]
      BY <1>2, FaultsSpent DEF TypeOK, CoTypeOK
    <2> USE <1>2, <2>0, RoofStays
    <2>1. CASE RigNext /\ UNCHANGED <<co, hub, domeT, run, stop>>
      BY <2>1 DEF RigNext, ParkArrives, SlewArrives, RoofArrives, MountResets, run,
                  RoofKnown
    <2>2. CASE (Operator \/ RouteTasks) /\ UNCHANGED <<run, stop>>
      <3>1. roof' = roof /\ co'["run"] = co["run"]
        <4>1. ~CoNext("route") /\ ~DomeLock /\ ~DomeParked /\ ~DomeDone
              /\ ~PostDomeClose
          BY DEF CoNext, CoAt, AskClosed, AskParked, CommandClose, CloseReturns,
                 ConfirmClosed, DomeLock, DomeParked, DomeDone, PostDomeClose,
                 NoDomeLane, RunsRoofAlone
        <4>2. CASE Operator
          BY <4>1, <4>2 DEF Operator, PostGoto, PostPark, PostUnpark, PostTracking,
                            PostTrust, rig
        <4>3. CASE RouteTasks
          BY <4>1, <4>3 DEF RouteTasks, ParkLock, ParkReturns, PlainNext, PlainLock,
                            PlainUnpark, PlainSlew, PlainArrive, CenterNext, CenterLock,
                            CenterUnpark, CenterTrack, CenterSlew, CenterSend,
                            CenterDone, CenterAgain, CenterArrive, rig
        <4> QED
          BY <2>2, <4>2, <4>3
      <3> QED
        BY <2>2, <3>1 DEF run
    <2>3. CASE Stops \/ Weather
      BY <2>3 DEF Stops, PostStop, Weather, SkyChanges, rig, run
    <2>4. CASE ByHand
      BY <2>4 DEF ByHand, OpenedByHand, run, RoofKnown, OpenPcs, AcquirePcs, HoldPcs
    <2>5. CASE StartRun
      BY <2>5 DEF StartRun, Start, RoofKnown, rig
    <2>6. CASE Resumes
      BY <2>6 DEF Resumes, OperatorResumes, rig, OpenPcs, AcquirePcs
    <2>7. CASE Aborts
      BY <2>7 DEF Aborts, Abort, Cancelled, OpenPcs, AcquirePcs, HoldPcs
    <2>8. CASE RunTask
      <3>1. CASE CoNext("run") /\ UNCHANGED <<hub, run>>
        BY <3>1, CloseKnows DEF run
      <3>2. CASE ~(CoNext("run") /\ UNCHANGED <<hub, run>>)
        BY <2>8, <3>2, RunKnows DEF RunTask
      <3> QED
        BY <3>1, <3>2
    <2>9. CASE UNCHANGED vars
      BY <2>9 DEF vars, rig, run
    <2> QED
      BY <2>1, <2>2, <2>3, <2>4, <2>5, <2>6, <2>7, <2>8, <2>9 DEF Next
  <1> QED
    BY <1>1, <1>2

(* The run slews from an open-sky place only. *)
LEMMA SlewsFromOpen ==
    ASSUME TypeOK, RunInside, Next, RunSlews
    PROVE  pc \in OpenPcs
  <1> USE DEF OpenPcs, AcquirePcs
  <1>1. CASE pc # "ucArrive" /\ pc' = "ucArrive"
    <2>0. RunTypeOK
      BY DEF TypeOK
    <2>1. UncentredSlew \/ UncentredSend => pc \in OpenPcs
      BY DEF UncentredSlew, UncentredSend
    <2>2. ~StartRun /\ ~Resumes /\ ~Weather /\ ~Aborts
      BY <1>1 DEF StartRun, Start, Resumes, OperatorResumes, Weather, SkyChanges, Aborts,
                  Abort, Cancelled
    <2>3. ~SafetyGate /\ ~ConfirmUnsafe /\ ~FrameDone
      <3>1. OnUnsafe \/ Proceed => pc' # "ucArrive"
        BY <2>0, WaysOnTyped
      <3> QED
        BY <1>1, <2>0, <3>1
           DEF SafetyGate, ConfirmUnsafe, FrameDone, WindDown, RunTypeOK, Skies
    <2>4. /\ ~Acquire /\ ~Centred /\ ~UncentredUnpark /\ ~UncentredTrack
          /\ ~UncentredArrive
      BY <1>1 DEF Acquire, Centred, UncentredUnpark, UncentredTrack, UncentredArrive,
                  PositionUnknownStop, WindDown
    <2>5. ~HoldStop /\ ~HoldAsksAgain /\ ~HoldRead /\ ~HoldCooled /\ ~MaxPauseElapses
      BY <1>1, <2>0, WaysOnTyped
         DEF HoldStop, HoldAsksAgain, HoldRead, HoldCooled, MaxPauseElapses, run
    <2>6. /\ ~CloseStop /\ ~FencedPark /\ ~CloseParked /\ ~CloseUnknown
          /\ ~CloseAnswered /\ ~ReopenRead /\ ~ReopenCooled /\ ~Reopen /\ ~Reopened
      BY <1>1, <2>0, WaysOnTyped
         DEF CloseStop, FencedPark, CloseParked, CloseUnknown, CloseAnswered, ReopenRead,
             ReopenCooled, Reopen, Reopened
    <2>7. /\ ~ParkUnderLock /\ ~ParkReadBack /\ ~WindDownPark /\ ~WindDownParked
          /\ ~WindDownClose /\ ~WindDownClosed /\ ~WindDownEnds
      BY <1>1 DEF ParkUnderLock, ParkReadBack, WindDownPark, WindDownParked,
                  WindDownClose, WindDownClosed, WindDownEnds
    <2> QED
      BY <1>1, <2>1, <2>2, <2>3, <2>4, <2>5, <2>6, <2>7
         DEF Next, RunTask, RunStep, run, ByHand, Stops
  <1>2. CASE go["run"] # "arrive" /\ go'["run"] = "arrive"
    <2>0. go \in [Tasks -> GotoSteps]
      BY DEF TypeOK, HubTypeOK
    <2>1. CASE pc = "centring"
      BY <2>1
    <2>2. CASE go["run"] = "none"
      <3> USE <1>2, <2>0, <2>2 DEF GoTo, Tasks, Verdict, hub
      <3>1. ASSUME NEW t \in Tasks, CenterNext(t) PROVE FALSE
        BY <3>1 DEF CenterNext, CenterLock, CenterUnpark, CenterTrack, CenterSlew,
                    CenterSend, CenterDone, CenterAgain, CenterArrive
      <3>2. ~Operator /\ ~Stops /\ ~RouteTasks
        BY <3>1 DEF Operator, PostGoto, PostPark, PostUnpark, PostTracking, PostTrust,
                    PostDomeClose, Stops, PostStop, RouteTasks, ParkLock, ParkReturns,
                    DomeLock, DomeParked, DomeDone, PlainNext, PlainLock, PlainUnpark,
                    PlainSlew, PlainArrive
      <3>3. ~StartRun /\ ~Resumes /\ ~Weather /\ ~Aborts /\ ~ByHand
        BY DEF StartRun, Start, Resumes, OperatorResumes, Weather, SkyChanges, Aborts,
               Abort, Cancelled, ByHand
      <3>4. ~RunStep
        BY <3>1
           DEF RunStep, SafetyGate, ConfirmUnsafe, FrameDone, Acquire, Centred,
               UncentredUnpark, UncentredTrack, UncentredSlew, UncentredSend,
               UncentredArrive, HoldStop, HoldAsksAgain, HoldRead, HoldCooled,
               MaxPauseElapses, CloseStop, FencedPark, CloseParked, CloseUnknown,
               CloseAnswered, ReopenRead, ReopenCooled, Reopen, Reopened, ParkUnderLock,
               ParkReadBack, WindDownPark, WindDownParked, WindDownClose,
               WindDownClosed, WindDownEnds
      <3> QED
        BY <3>2, <3>3, <3>4 DEF Next, RunTask
    <2> QED
      BY <2>1, <2>2 DEF RunInside
  <1> QED
    BY <1>1, <1>2 DEF RunSlews

(* engine._await_safe_and_reopen: with the roof the run's alone, and no     *)
(* device failure, no slew of the run's, centred or not, is sent under a    *)
(* roof that is not open, however often the weather closed it.              *)
THEOREM SlewsUnderOpenSky ==
    ASSUME RunsRoofAlone
    PROVE  Spec => OpenSky
  <1>1. Spec => []TypeOK
    BY TypeCorrect
  <1>2. /\ Init => RunInside
        /\ TypeOK /\ RunInside /\ [Next]_vars => RunInside'
    BY InsideInductive
  <1>3. /\ Init => NoDomeLane
        /\ TypeOK /\ NoDomeLane /\ [Next]_vars => NoDomeLane'
    BY NoDomeLaneInductive DEF RunsRoofAlone
  <1>4. /\ Init => RoofKnown
        /\ TypeOK /\ RoofKnown /\ RunInside /\ NoDomeLane /\ [Next]_vars => RoofKnown'
    BY RoofKnownInductive
  <1>5. TypeOK /\ RunInside /\ RoofKnown /\ [Next]_vars
        => [RunSlews /\ faults = 0 => roof = "open"]_vars
    BY SlewsFromOpen DEF RoofKnown
  <1> QED
    BY <1>1, <1>2, <1>3, <1>4, <1>5, PTL DEF Spec, OpenSky

----------------------------------------------------------------------------
(* How a run ends under a safety verdict. The operator's gotos and the      *)
(* tracking switch are left out: they set the mount tracking on purpose.    *)
NoMotionRoutes == Routes \cap {"goto", "center", "tracking"} = {}

Moving == mount \in {"tracking", "slewing"}

ParkPcs == {"crParking", "wdParking"}

(* Who can be where: the route lane parks at most, a park belongs to the    *)
(* step that asked for it, and a shielded wind-down is the run's last act.  *)
Placed ==
    /\ go["route"] \in {"none", "parkWait", "parkSent"}
    /\ pk # "none" => pc \in ParkPcs
    /\ wd.shielded => pc \in WindPcs \cup {"idle"}

(* Only the route and the run step what is theirs. *)
LEMMA PlacedInductive ==
    ASSUME NoMotionRoutes
    PROVE  /\ Init => Placed
           /\ TypeOK /\ RunInside /\ Placed /\ [Next]_vars => Placed'
  <1>1. Init => Placed
    BY DEF Init, HubInit, RunInit, NoWindDown, Placed, Tasks
  <1>2. ASSUME TypeOK, RunInside, Placed, [Next]_vars PROVE Placed'
    <2>0. RunTypeOK /\ go \in [Tasks -> GotoSteps]
      BY <1>2 DEF TypeOK, HubTypeOK
    <2> USE <1>2, <2>0 DEF Placed, ParkPcs, WindPcs
    <2>1. CASE UNCHANGED <<pc, pk, wd>> /\ go'["route"] \in {"none", "parkWait", "parkSent"}
      BY <2>1
    <2>2. CASE RigNext /\ UNCHANGED <<co, hub, domeT, run, stop>>
      BY <2>1, <2>2 DEF hub, run
    <2>3. CASE (Operator \/ RouteTasks) /\ UNCHANGED <<run, stop>>
      <3>1. ~CenterNext("route") /\ ~PlainNext
        BY DEF CenterNext, CenterLock, CenterUnpark, CenterTrack, CenterSlew, CenterSend,
               CenterDone, CenterAgain, CenterArrive, PlainNext, PlainLock, PlainUnpark,
               PlainSlew, PlainArrive
      <3>2. go'["route"] \in {"none", "parkWait", "parkSent"}
        BY <2>3, <3>1
           DEF Operator, PostGoto, PostPark, PostUnpark, PostTracking, PostTrust,
               PostDomeClose, RouteTasks, ParkLock, ParkReturns, DomeLock, DomeParked,
               DomeDone, GoTo, hub, Tasks, NoMotionRoutes
      <3> QED
        BY <2>1, <2>3, <3>2 DEF run
    <2>4. CASE Stops \/ Weather \/ ByHand
      BY <2>1, <2>4 DEF Stops, PostStop, Weather, SkyChanges, ByHand, hub, run, GoTo,
                        Tasks, parkVars
    <2>5. CASE StartRun \/ Resumes
      BY <2>5 DEF StartRun, Start, Resumes, OperatorResumes, NoWindDown, hub, parkVars
    <2>6. CASE Aborts
      BY <2>6 DEF Aborts, Abort, Live, Cancelled, GoTo, Tasks, RunTypeOK, WindDowns
    <2>7. CASE RunTask
      <3> USE DEF hub, run, parkVars, GoTo, Tasks
      <3>1. CASE CoNext("run") /\ UNCHANGED <<hub, run>>
        BY <2>1, <3>1
      <3>2. CASE CenterNext("run") /\ UNCHANGED <<co, run>>
        BY <2>1, <3>2 DEF CenterNext, CenterLock, CenterUnpark, CenterTrack, CenterSlew,
                    CenterSend, CenterDone, CenterAgain, CenterArrive
      <3>3. CASE SafetyGate \/ ConfirmUnsafe \/ FrameDone \/ UncentredArrive
        <4>1. pk = "none" /\ ~wd.shielded
          BY <3>3 DEF SafetyGate, ConfirmUnsafe, FrameDone, UncentredArrive
        <4>2. UNCHANGED wd \/ pc' = "wdPark"
          <5>1. Proceed \/ OnUnsafe => UNCHANGED wd \/ pc' = "wdPark"
            BY RunAssumption DEF Proceed, OnUnsafe, SafetyAbort, WindDown
          <5> QED
            BY <3>3, <5>1 DEF SafetyGate, ConfirmUnsafe, FrameDone, UncentredArrive,
                              WindDown, RunTypeOK, Skies
        <4> QED
          BY <3>3, <4>1, <4>2 DEF SafetyGate, ConfirmUnsafe, FrameDone, UncentredArrive
      <3>4. CASE Acquire \/ Centred \/ UncentredSlew
        BY <3>4 DEF Acquire, Centred, UncentredSlew, SendSlew, PositionUnknownStop,
                    WindDown
      <3>5. CASE UncentredUnpark \/ UncentredTrack \/ UncentredSend
        BY <3>5 DEF UncentredUnpark, UncentredTrack, UncentredSend, SendSlew
      <3>6. CASE \/ HoldStop \/ HoldAsksAgain \/ HoldRead \/ HoldCooled \/ MaxPauseElapses
        BY <2>1, <3>6 DEF HoldStop, HoldAsksAgain, HoldRead, HoldCooled, MaxPauseElapses,
                    Resume, SafetyAbort, WindDown
      <3>7. CASE CloseStop \/ FencedPark \/ CloseParked \/ CloseUnknown \/ CloseAnswered
        BY <3>7 DEF CloseStop, FencedPark, CloseParked, CloseUnknown, CloseAnswered
      <3>8. CASE ReopenRead \/ ReopenCooled \/ Reopen \/ Reopened
        BY <3>8 DEF ReopenRead, ReopenCooled, Reopen, Reopened, Resume, SafetyAbort,
                    WindDown
      <3>9. CASE ParkUnderLock \/ ParkReadBack
        BY <3>9 DEF ParkUnderLock, ParkReadBack
      <3>10. CASE \/ WindDownPark \/ WindDownParked \/ WindDownClose \/ WindDownClosed
                  \/ WindDownEnds
        BY <3>10 DEF WindDownPark, WindDownParked, WindDownClose, WindDownClosed,
                     WindDownEnds, RunTypeOK, WindDowns
      <3> QED
        BY <2>7, <3>1, <3>2, <3>3, <3>4, <3>5, <3>6, <3>7, <3>8, <3>9, <3>10
           DEF RunTask, RunStep
    <2>8. CASE UNCHANGED vars
      BY <2>1, <2>8 DEF vars, hub, run
    <2> QED
      BY <2>2, <2>3, <2>4, <2>5, <2>6, <2>7, <2>8 DEF Next
  <1> QED
    BY <1>1, <1>2

(* Nothing but the run's own acquisition sets the mount in motion: a slew   *)
(* is sent by its slewing steps, and the only other way to track is to      *)
(* arrive.                                                                  *)
LEMMA SetsInMotion ==
    ASSUME NoMotionRoutes, TypeOK, RunInside, Placed, Next
    PROVE  /\ Moving' => Moving \/ pc \in AcquirePcs
           /\ mount' = "slewing" => \/ mount = "slewing"
                                    \/ pc \in {"ucSlew", "ucSend"}
                                    \/ pc = "centring" /\ go["run"] \in {"relock", "frame"}
  <1> USE DEF Moving, rig, hub, run, AcquirePcs, AfterPark, AfterUnpark, AfterTrackOn,
              AfterTrackOff, AfterStop, AfterSlew, CancelSlew, CmdPark, StopTracking
  <1>1. CASE mount' \in {mount, "parked", "parking", "still"}
    BY <1>1
  <1>2. CASE RigNext \/ ByHand
    BY <1>2 DEF RigNext, ParkArrives, SlewArrives, RoofArrives, MountResets, ByHand,
                OpenedByHand
  <1>3. ASSUME NEW p \in Closers, CoNext(p) PROVE mount' = mount
    BY <1>3 DEF CoNext, AskClosed, AskParked, CommandClose, CloseReturns, ConfirmClosed
  <1>4. CASE Operator \/ Stops
    BY <1>1, <1>4 DEF Operator, PostGoto, PostPark, PostUnpark, PostTracking, PostTrust,
                      PostDomeClose, Stops, PostStop, NoMotionRoutes
  <1>5. CASE RouteTasks
    <2>1. ~CenterNext("route") /\ ~PlainNext
      BY DEF CenterNext, CenterLock, CenterUnpark, CenterTrack, CenterSlew, CenterSend,
             CenterDone, CenterAgain, CenterArrive, PlainNext, PlainLock, PlainUnpark,
             PlainSlew, PlainArrive, Placed
    <2>2. mount' \in {mount, "parked", "parking", "still"}
      BY <1>3, <1>5, <2>1
         DEF RouteTasks, ParkLock, ParkReturns, DomeLock, DomeParked, DomeDone, Closers
    <2> QED
      BY <1>1, <2>2
  <1>6. CASE RunStep
    <2>1. CASE CenterNext("run")
      BY <2>1 DEF CenterNext, CenterLock, CenterUnpark, CenterTrack, CenterSlew,
                  CenterSend, CenterDone, CenterAgain, CenterArrive, RunInside
    <2>2. CASE CoNext("run")
      BY <1>1, <1>3, <2>2 DEF Closers
    <2>3. CASE UncentredUnpark \/ UncentredTrack \/ UncentredSlew \/ UncentredSend
      BY <2>3 DEF UncentredUnpark, UncentredTrack, UncentredSlew, UncentredSend, SendSlew
    <2>4. CASE SafetyGate \/ ConfirmUnsafe \/ FrameDone \/ Acquire \/ Centred
               \/ UncentredArrive \/ HoldStop \/ HoldAsksAgain \/ HoldRead
               \/ HoldCooled \/ MaxPauseElapses
      BY <1>1, <2>4
         DEF SafetyGate, ConfirmUnsafe, FrameDone, Acquire, Centred, UncentredArrive,
             HoldStop, HoldAsksAgain, HoldRead, HoldCooled, MaxPauseElapses
    <2>5. CASE \/ CloseStop \/ FencedPark \/ CloseParked \/ CloseUnknown
               \/ CloseAnswered \/ ReopenRead \/ ReopenCooled \/ Reopen \/ Reopened
      BY <1>1, <2>5
         DEF CloseStop, FencedPark, CloseParked, CloseUnknown, CloseAnswered, ReopenRead,
             ReopenCooled, Reopen, Reopened
    <2>6. CASE \/ ParkUnderLock \/ ParkReadBack \/ WindDownPark \/ WindDownParked
               \/ WindDownClose \/ WindDownClosed \/ WindDownEnds
      BY <1>1, <2>6
         DEF ParkUnderLock, ParkReadBack, WindDownPark, WindDownParked, WindDownClose,
             WindDownClosed, WindDownEnds
    <2> QED
      BY <1>6, <2>1, <2>2, <2>3, <2>4, <2>5, <2>6 DEF RunStep
  <1>7. CASE StartRun \/ Resumes \/ Aborts \/ Weather
    BY <1>1, <1>7 DEF StartRun, Start, Resumes, OperatorResumes, Aborts, Abort, Weather,
                      SkyChanges
  <1> QED
    BY <1>2, <1>4, <1>5, <1>6, <1>7 DEF Next, RunTask

(* Only a reset makes a known position unknown; it stops the mount.         *)
LEMMA OnlyResetsLose ==
    ASSUME Next, posKnown = TRUE, posKnown' = FALSE
    PROVE  ~JnowMount /\ faults' = faults + 1 /\ mount' \in {"parked", "still"}
  <1> USE DEF rig, run
  <1>1. CASE RigNext
    BY <1>1, RigAssumption
       DEF RigNext, ParkArrives, SlewArrives, RoofArrives, MountResets, Fault
  <1>2. ~Operator /\ ~Stops /\ ~ByHand
    BY DEF Operator, PostGoto, PostPark, PostUnpark, PostTracking, PostTrust,
           PostDomeClose, Stops, PostStop, ByHand, OpenedByHand
  <1>3. ASSUME NEW t \in Tasks PROVE ~CenterNext(t)
    BY DEF CenterNext, CenterLock, CenterUnpark, CenterTrack, CenterSlew, CenterSend,
           CenterDone, CenterAgain, CenterArrive
  <1>4. ASSUME NEW p \in Closers PROVE ~CoNext(p)
    BY DEF CoNext, AskClosed, AskParked, CommandClose, CloseReturns, ConfirmClosed
  <1>5. ~RouteTasks
    BY <1>3, <1>4 DEF RouteTasks, ParkLock, ParkReturns, DomeLock, DomeParked, DomeDone,
                      PlainNext, PlainLock, PlainUnpark, PlainSlew, PlainArrive, Tasks,
                      Closers
  <1>6. ~RunStep
    BY <1>3, <1>4
       DEF RunStep, SafetyGate, ConfirmUnsafe, FrameDone, Acquire, Centred,
           UncentredUnpark, UncentredTrack, UncentredSlew, UncentredSend,
           UncentredArrive, HoldStop, HoldAsksAgain, HoldRead, HoldCooled,
           MaxPauseElapses, CloseStop, FencedPark, CloseParked, CloseUnknown,
           CloseAnswered, ReopenRead, ReopenCooled, Reopen, Reopened, ParkUnderLock,
           ParkReadBack, WindDownPark, WindDownParked, WindDownClose, WindDownClosed,
           WindDownEnds, Tasks, Closers
  <1>7. ~StartRun /\ ~Resumes /\ ~Aborts /\ ~Weather
    BY DEF StartRun, Start, Resumes, OperatorResumes, Aborts, Abort, Weather, SkyChanges
  <1> QED
    BY <1>1, <1>2, <1>5, <1>6, <1>7 DEF Next, RunTask

(* The centring answers "unknown" in the step that reads the latch.         *)
LEMMA UnknownIsRead ==
    ASSUME TypeOK, Next, go["run"] # "unknown", go'["run"] = "unknown"
    PROVE  ~posKnown /\ UNCHANGED <<mount, faults>>
  <1>0. go \in [Tasks -> GotoSteps] /\ go' # go
    BY DEF TypeOK, HubTypeOK
  <1> USE <1>0 DEF GoTo, Tasks, Verdict, hub
  <1>1. CASE CenterNext("run")
    BY <1>1 DEF CenterNext, CenterLock, CenterUnpark, CenterTrack, CenterSlew,
                CenterSend, CenterDone, CenterAgain, CenterArrive, rig
  <1>2. ~CenterNext("route") /\ ~PlainNext
    BY DEF CenterNext, CenterLock, CenterUnpark, CenterTrack, CenterSlew, CenterSend,
           CenterDone, CenterAgain, CenterArrive, PlainNext, PlainLock, PlainUnpark,
           PlainSlew, PlainArrive
  <1>3. ~Operator /\ ~Stops /\ ~RouteTasks
    BY <1>2 DEF Operator, PostGoto, PostPark, PostUnpark, PostTracking, PostTrust,
                PostDomeClose, Stops, PostStop, RouteTasks, ParkLock, ParkReturns,
                DomeLock, DomeParked, DomeDone
  <1>4. ~StartRun /\ ~Resumes /\ ~Weather /\ ~Aborts /\ ~ByHand
    BY DEF StartRun, Start, Resumes, OperatorResumes, Weather, SkyChanges, Aborts,
           Abort, Cancelled, ByHand
  <1>5. CASE RunStep /\ ~CenterNext("run")
    BY <1>5
       DEF RunStep, SafetyGate, ConfirmUnsafe, FrameDone, Acquire, Centred,
           UncentredUnpark, UncentredTrack, UncentredSlew, UncentredSend,
           UncentredArrive, HoldStop, HoldAsksAgain, HoldRead, HoldCooled,
           MaxPauseElapses, CloseStop, FencedPark, CloseParked, CloseUnknown,
           CloseAnswered, ReopenRead, ReopenCooled, Reopen, Reopened, ParkUnderLock,
           ParkReadBack, WindDownPark, WindDownParked, WindDownClose,
           WindDownClosed, WindDownEnds
  <1> QED
    BY <1>1, <1>3, <1>4, <1>5 DEF Next, RunTask

(* A position is unknown, or was read unknown by a centring, only after a   *)
(* failure, and then no slew is on its way.                                 *)
Lost ==
    /\ ~posKnown => faults >= 1 /\ mount # "slewing"
    /\ go["run"] = "unknown" => faults >= 1 /\ mount # "slewing"

(* Every slew is sent from a known position, and a reset stops the mount.   *)
LEMMA LostInductive ==
    ASSUME NoMotionRoutes
    PROVE  /\ Init => Lost
           /\ /\ TypeOK /\ RunInside /\ Placed /\ GotoPlaces /\ Latched
              /\ Lost /\ [Next]_vars
              => Lost'
  <1>1. Init => Lost
    BY DEF Init, RigInit, HubInit, Lost, Tasks
  <1>2. ASSUME TypeOK, RunInside, Placed, GotoPlaces, Latched, Lost, Next
        PROVE  Lost'
    <2>1. faults \in Nat /\ faults' \in {faults, faults + 1}
      BY <1>2, FaultsSpent
    <2>2. mount' # "slewing" \/ mount = "slewing" \/ posKnown
      BY <1>2, AimsKnowing DEF Aims, NoMotionRoutes
    <2>3. ~posKnown' => faults' >= 1 /\ mount' # "slewing"
      <3>1. posKnown \in BOOLEAN /\ posKnown' \in BOOLEAN
        BY <1>2, LatchedInductive DEF Latched
      <3>2. CASE posKnown = FALSE
        BY <1>2, <2>1, <2>2, <3>2 DEF Lost
      <3>3. CASE posKnown = TRUE /\ posKnown' = FALSE
        <4>1. faults' = faults + 1 /\ mount' \in {"parked", "still"}
          BY <1>2, <3>3, OnlyResetsLose
        <4> QED
          BY <2>1, <4>1
      <3> QED
        BY <3>1, <3>2, <3>3
    <2>4. CASE go["run"] = "unknown"
      BY <1>2, <2>1, <2>3, <2>4, SetsInMotion DEF Lost, RunInside
    <2>5. CASE go["run"] # "unknown"
      BY <1>2, <2>1, <2>3, <2>5, UnknownIsRead DEF Lost
    <2> QED
      BY <2>4, <2>5
  <1>3. Lost /\ UNCHANGED vars => Lost'
    BY DEF Lost, vars, rig, hub
  <1> QED
    BY <1>1, <1>2, <1>3

(* With at most one failure, a shielded wind-down                           *)
(*   that aims nothing began with the mount stopped;                        *)
(*   that parks knows where its park stands: the mount still moves only if  *)
(*   the failure was spent on it, and then the stop is not lost as well.    *)
Unaimed == ~Moving /\ wd.parked = "none" /\ pc # "wdParking"

Parking ==
    pc = "wdParking" =>
        /\ pk \in {"sent1", "seen1"} /\ Moving => posKnown /\ faults = 1
        /\ pk \in {"sent2", "seen2", "yes"} => ~Moving
        /\ pk = "no" => faults >= 1 \/ ~Moving
        /\ pk = "unknown" => faults >= 1 /\ mount # "slewing"

AfterParking ==
    pc \in {"wdClose", "wdRoof", "wdEnd"} =>
        /\ wd.parked \in {"yes", "unknown"} => ~Moving
        /\ wd.parked = "no" => faults >= 1 \/ ~Moving
        /\ wd.parked # "none"

Guarded ==
    faults <= 1 /\ wd.shielded /\ pc \in WindPcs =>
        IF wd.park THEN Parking /\ AfterParking ELSE Unaimed

StillInv == RunInside /\ Placed /\ GotoPlaces /\ Latched /\ Lost /\ Guarded

(* Steps beside the wind-down: hardware, routes, weather, the roof close.   *)
LEMMA Coasts ==
    ASSUME NoMotionRoutes, TypeOK, StillInv, Next, UNCHANGED <<pc, pk, wd>>
    PROVE  Guarded'
  <1>1. faults \in Nat /\ faults' \in {faults, faults + 1}
    BY FaultsSpent
  <1>2. SUFFICES ASSUME faults' <= 1, wd.shielded, pc \in WindPcs
                 PROVE  (IF wd.park THEN Parking /\ AfterParking ELSE Unaimed)'
    BY DEF Guarded
  <1>3. /\ Moving' => Moving
        /\ mount' = "slewing" => mount = "slewing"
    BY <1>2, SetsInMotion DEF StillInv, WindPcs, AcquirePcs
  <1>4. Moving' /\ posKnown => posKnown'
    <2>1. posKnown \in BOOLEAN /\ posKnown' \in BOOLEAN
      BY LatchedInductive DEF StillInv, Latched
    <2>2. posKnown = TRUE /\ posKnown' = FALSE => ~Moving'
      BY OnlyResetsLose DEF Moving
    <2> QED
      BY <2>1, <2>2
  <1>5. IF wd.park THEN Parking /\ AfterParking ELSE Unaimed
    BY <1>1, <1>2 DEF StillInv, Guarded
  <1>6. CASE ~wd.park
    BY <1>3, <1>5, <1>6 DEF Unaimed
  <1>7. CASE wd.park
    <2>1. Parking'
      BY <1>1, <1>2, <1>3, <1>4, <1>5, <1>7 DEF Parking
    <2>2. AfterParking'
      BY <1>1, <1>3, <1>5, <1>7 DEF AfterParking
    <2> QED
      BY <1>7, <2>1, <2>2
  <1> QED
    BY <1>6, <1>7

(* The park of the wind-down, and its read-back. *)
LEMMA ParkGuarded ==
    ASSUME TypeOK, StillInv, [Next]_vars, ParkUnderLock \/ ParkReadBack
    PROVE  Guarded'
  <1>0. /\ faults \in Nat /\ RunTypeOK
        /\ UNCHANGED <<pc, wd, posKnown>>
        /\ Lost
    BY FaultsSpent DEF TypeOK, StillInv, ParkUnderLock, ParkReadBack
  <1>1. SUFFICES ASSUME faults' <= 1, wd.shielded, pc \in WindPcs
                 PROVE  pc = "wdParking" /\ wd.park /\ Parking'
    BY <1>0 DEF Guarded, AfterParking
  <1>2. faults <= 1
    BY FaultsSpent, <1>1
  <1>3. pc = "wdParking"
    BY <1>1 DEF StillInv, Placed, ParkPcs, WindPcs, ParkUnderLock, ParkReadBack
  <1>4. wd.park /\ Parking
    BY <1>1, <1>2, <1>3 DEF StillInv, Guarded, Unaimed
  <1> USE <1>0, <1>1, <1>2, <1>3, <1>4 DEF Parking, Moving, Fault, AfterPark, Lost
  <1>5. CASE ParkUnderLock
    BY <1>5 DEF ParkUnderLock, CmdPark
  <1>6. CASE ParkReadBack
    <2>1. CASE ReadsParked(TRUE) /\ ParkEnds("yes") /\ UNCHANGED <<mount, faults>>
      BY <1>6, <2>1 DEF ParkReadBack, ReadsParked, ParkEnds
    <2>2. CASE /\ pk' = (IF pk \in {"sent1", "seen1"} THEN "seen1" ELSE "seen2")
               /\ UNCHANGED <<mount, faults>>
      BY <1>6, <2>2 DEF ParkReadBack
    <2>3. CASE Fault /\ ParkEnds("no")
      BY <2>3 DEF ParkEnds
    <2>4. CASE /\ mount \in {"still", "tracking"}
               /\ IF pk \in {"sent2", "seen2"}
                  THEN ParkEnds("no") /\ UNCHANGED <<mount, faults>>
                  ELSE IF ~posKnown
                  THEN ParkEnds("unknown") /\ UNCHANGED <<mount, faults>>
                  ELSE CmdPark /\ pk' = "sent2"
      BY <1>6, <2>4 DEF ParkReadBack, ParkEnds, CmdPark
    <2>5. CASE /\ Fault /\ UNCHANGED mount
               /\ IF pk \in {"sent1", "sent2"} THEN ParkEnds("yes") ELSE UNCHANGED pk
      BY <1>6, <2>5 DEF ParkReadBack, ParkEnds
    <2> QED
      BY <1>6, <2>1, <2>2, <2>3, <2>4, <2>5 DEF ParkReadBack
  <1> QED
    BY <1>5, <1>6

(* The wind-down's own steps. *)
LEMMA WindDownGuarded ==
    ASSUME TypeOK, StillInv, [Next]_vars,
           \/ WindDownPark \/ WindDownParked \/ WindDownClose \/ WindDownClosed
           \/ WindDownEnds
    PROVE  Guarded'
  <1>0. /\ faults \in Nat
        /\ faults' <= 1 => faults <= 1
        /\ pk \in ParkSteps /\ wd \in WindDowns /\ Lost
        /\ pc \in WindPcs
        /\ faults <= 1 /\ wd.shielded =>
             IF wd.park THEN Parking /\ AfterParking ELSE Unaimed
    BY FaultsSpent DEF TypeOK, RunTypeOK, StillInv, WindPcs, Guarded, WindDownPark,
                       WindDownParked, WindDownClose, WindDownClosed, WindDownEnds
  <1>1. CASE WindDownEnds
    BY <1>1 DEF WindDownEnds, Guarded, WindPcs
  <1>2. CASE WindDownClose \/ WindDownClosed
    <2>1. /\ UNCHANGED <<mount, faults, wd>>
          /\ pc \in {"wdClose", "wdRoof"} /\ pc' \in {"wdRoof", "wdEnd"}
      BY <1>2 DEF WindDownClose, WindDownClosed, rig, parkVars
    <2> QED
      BY <1>0, <2>1 DEF Guarded, Unaimed, Parking, AfterParking, Moving
  <1>3. CASE WindDownPark
    <2>1. pc = "wdPark" /\ UNCHANGED <<mount, faults, wd, posKnown>>
      BY <1>3 DEF WindDownPark
    <2>2. CASE ~wd.park
      BY <1>0, <1>3, <2>1, <2>2 DEF WindDownPark, Guarded, Unaimed, Moving
    <2>3. CASE wd.park
      <3>1. /\ pc' = "wdParking"
            /\ pk' = "wait" \/ (pk' = "unknown" /\ ~posKnown)
        BY <1>3, <2>3 DEF WindDownPark
      <3> QED
        BY <1>0, <2>1, <2>3, <3>1 DEF Guarded, Parking, AfterParking, Moving, Lost
    <2> QED
      BY <2>2, <2>3
  <1>4. CASE WindDownParked
    <2>1. CASE wd.cancelled
      BY <1>4, <2>1 DEF WindDownParked, Guarded, WindPcs
    <2>2. CASE ~wd.cancelled
      <3>1. /\ pc = "wdParking" /\ pc' = "wdClose"
            /\ pk \in {"yes", "no", "unknown"}
            /\ wd' = [wd EXCEPT !.parked = pk]
            /\ IF pk = "unknown" THEN StopTracking ELSE UNCHANGED <<mount, faults>>
        BY <1>4, <2>2 DEF WindDownParked
      <3>2. /\ wd'.park = wd.park /\ wd'.shielded = wd.shielded /\ wd'.parked = pk
        BY <1>0, <3>1 DEF WindDowns
      <3>3. SUFFICES ASSUME faults' <= 1, wd.shielded
                     PROVE  wd.park /\ AfterParking'
        BY <3>1, <3>2 DEF Guarded, Parking
      <3>4. wd.park /\ Parking
        BY <1>0, <3>1, <3>3 DEF Unaimed
      <3>5. CASE pk = "unknown"
        <4>1. ~Moving'
          BY <1>0, <3>1, <3>3, <3>4, <3>5
             DEF Parking, Moving, StopTracking, Fault, AfterTrackOff
        <4> QED
          BY <3>1, <3>2, <3>4, <3>5, <4>1 DEF AfterParking
      <3>6. CASE pk # "unknown"
        BY <1>0, <3>1, <3>2, <3>4, <3>6 DEF AfterParking, Parking, Moving
      <3> QED
        BY <3>5, <3>6
    <2> QED
      BY <2>1, <2>2
  <1> QED
    BY <1>1, <1>2, <1>3, <1>4

(* The steps that may begin a wind-down. A stop for an unknown position is  *)
(* not lost: the failure was spent on the position.                         *)
LEMMA EntryGuarded ==
    ASSUME TypeOK, StillInv, [Next]_vars, pc \notin WindPcs,
           \/ pc' \notin WindPcs
           \/ WindDown(ParkWhenDone, CloseWhenDone, FALSE)
           \/ SafetyAbort
           \/ /\ PositionUnknownStop /\ StopTracking
              /\ ~posKnown \/ go["run"] = "unknown"
    PROVE  Guarded'
  <1>0. /\ faults \in Nat
        /\ faults' <= 1 => faults <= 1
        /\ Lost
    BY FaultsSpent DEF StillInv
  <1> USE DEF Guarded, WindDown, NoWindDown
  <1>1. CASE pc' \notin WindPcs
    BY <1>1
  <1>2. CASE WindDown(ParkWhenDone, CloseWhenDone, FALSE)
    BY <1>2
  <1>3. CASE SafetyAbort
    BY <1>3 DEF SafetyAbort, Parking, AfterParking
  <1>4. CASE /\ PositionUnknownStop /\ StopTracking
             /\ ~posKnown \/ go["run"] = "unknown"
    <2>1. faults' <= 1 => ~Moving'
      BY <1>0, <1>4 DEF Lost, StopTracking, Fault, AfterTrackOff, Moving
    <2> QED
      BY <1>4, <2>1 DEF PositionUnknownStop, Unaimed
  <1> QED
    BY <1>1, <1>2, <1>3, <1>4

(* Every step of the run. *)
LEMMA RunGuarded ==
    ASSUME NoMotionRoutes, TypeOK, StillInv, Next, RunStep
    PROVE  Guarded'
  <1>0. RunTypeOK
    BY DEF TypeOK
  <1> USE EntryGuarded DEF WindPcs
  <1>1. CASE SafetyGate \/ ConfirmUnsafe \/ FrameDone \/ UncentredArrive
    <2>1. pc \notin WindPcs
      BY <1>1 DEF SafetyGate, ConfirmUnsafe, FrameDone, UncentredArrive
    <2>2. Proceed \/ OnUnsafe => pc' \notin WindPcs \/ SafetyAbort
      BY RunAssumption DEF Proceed, OnUnsafe
    <2>3. \/ pc' \notin WindPcs
          \/ WindDown(ParkWhenDone, CloseWhenDone, FALSE)
          \/ SafetyAbort
      BY <1>0, <1>1, <2>1, <2>2
         DEF SafetyGate, ConfirmUnsafe, FrameDone, UncentredArrive, RunTypeOK, Skies
    <2> QED
      BY <2>1, <2>3
  <1>2. CASE Acquire \/ Centred \/ UncentredSlew
    <2>1. pc \notin WindPcs
      BY <1>2 DEF Acquire, Centred, UncentredSlew
    <2>2. \/ pc' \notin WindPcs
          \/ /\ PositionUnknownStop /\ StopTracking
             /\ ~posKnown \/ go["run"] = "unknown"
      BY <1>2 DEF Acquire, Centred, UncentredSlew, SendSlew
    <2> QED
      BY <2>1, <2>2
  <1>3. CASE UncentredUnpark \/ UncentredTrack \/ UncentredSend
    BY <1>3 DEF UncentredUnpark, UncentredTrack, UncentredSend, SendSlew
  <1>4. CASE HoldStop \/ HoldRead \/ HoldCooled \/ MaxPauseElapses
    BY <1>4 DEF HoldStop, HoldRead, HoldCooled, MaxPauseElapses, Resume
  <1>5. CASE CloseStop \/ FencedPark \/ CloseParked \/ CloseUnknown \/ CloseAnswered
    BY <1>5 DEF CloseStop, FencedPark, CloseParked, CloseUnknown, CloseAnswered
  <1>6. CASE ReopenRead \/ ReopenCooled \/ Reopen \/ Reopened
    BY <1>6 DEF ReopenRead, ReopenCooled, Reopen, Reopened, Resume
  <1>7. CASE \/ HoldAsksAgain
             \/ CenterNext("run") /\ UNCHANGED <<co, run>>
             \/ CoNext("run") /\ UNCHANGED <<hub, run>>
    BY <1>7, Coasts DEF HoldAsksAgain, run
  <1>8. CASE ParkUnderLock \/ ParkReadBack
    BY <1>8, ParkGuarded
  <1>9. CASE \/ WindDownPark \/ WindDownParked \/ WindDownClose \/ WindDownClosed
             \/ WindDownEnds
    BY <1>9, WindDownGuarded
  <1> QED
    BY <1>1, <1>2, <1>3, <1>4, <1>5, <1>6, <1>7, <1>8, <1>9 DEF RunStep

(* Every step of the observatory. *)
LEMMA GuardedInductive ==
    ASSUME NoMotionRoutes
    PROVE  /\ Init => Guarded
           /\ TypeOK /\ StillInv /\ [Next]_vars => Guarded'
  <1>1. Init => Guarded
    BY DEF Init, RunInit, Guarded, WindPcs
  <1>2. ASSUME TypeOK, StillInv, Next PROVE Guarded'
    <2> USE <1>2
    <2>1. CASE \/ RigNext /\ UNCHANGED <<co, hub, domeT, run, stop>>
               \/ ByHand \/ Stops \/ Weather
               \/ (Operator \/ RouteTasks) /\ UNCHANGED <<run, stop>>
      BY <2>1, Coasts DEF ByHand, Stops, Weather, SkyChanges, run, parkVars
    <2>2. CASE StartRun \/ Resumes
      BY <2>2 DEF StartRun, Start, Resumes, OperatorResumes, Guarded, WindPcs
    <2>3. CASE Aborts
      BY <2>3 DEF Aborts, Abort, Cancelled, Guarded, WindPcs, TypeOK, RunTypeOK, WindDowns
    <2>4. CASE RunTask
      BY <2>4, RunGuarded DEF RunTask
    <2> QED
      BY <2>1, <2>2, <2>3, <2>4 DEF Next
  <1>3. StillInv /\ UNCHANGED vars => Guarded'
    BY DEF StillInv, Guarded, Parking, AfterParking, Unaimed, Moving, vars, rig, run
  <1> QED
    BY <1>1, <1>2, <1>3

(* The last step of a shielded wind-down. *)
LEMMA EndsGuarded ==
    ASSUME TypeOK, StillInv, Next, Live, ~Live', wd.shielded, faults' <= 1
    PROVE  mount' # "tracking"
  <1>0. /\ faults \in Nat /\ RunTypeOK
        /\ faults <= 1
        /\ pc \in WindPcs /\ pc' = "idle"
        /\ IF wd.park THEN Parking /\ AfterParking ELSE Unaimed
    BY FaultsSpent DEF TypeOK, StillInv, Placed, Guarded, Live
  <1> USE <1>0 DEF WindPcs
  <1>1. ~Aborts /\ ~StartRun /\ ~Resumes /\ ~Weather /\ ~ByHand /\ ~Stops
    BY DEF Aborts, Abort, StartRun, Start, Resumes, OperatorResumes, Weather, SkyChanges,
           ByHand, Stops, run
  <1>2. CASE WindDownEnds \/ WindDownParked
    <2>1. CASE /\ pc = "wdEnd"
               /\ IF wd.parked = "no" THEN StopTracking ELSE UNCHANGED <<mount, faults>>
      BY <2>1 DEF AfterParking, Unaimed, Moving, StopTracking, Fault, AfterTrackOff,
                  RunTypeOK, WindDowns
    <2>2. CASE /\ pc = "wdParking" /\ pk \in {"yes", "no", "unknown"}
               /\ IF pk \in {"unknown", "no"} THEN StopTracking
                  ELSE UNCHANGED <<mount, faults>>
      BY <2>2 DEF Parking, Unaimed, Moving, StopTracking, Fault, AfterTrackOff
    <2> QED
      BY <1>2, <2>1, <2>2 DEF WindDownEnds, WindDownParked
  <1>3. CASE RunStep /\ ~WindDownEnds /\ ~WindDownParked
    BY <1>3 DEF RunStep, SafetyGate, ConfirmUnsafe, FrameDone, Acquire, Centred,
           UncentredUnpark, UncentredTrack, UncentredSlew, UncentredSend,
           UncentredArrive, HoldStop, HoldAsksAgain, HoldRead, HoldCooled,
           MaxPauseElapses, CloseStop, FencedPark, CloseParked, CloseUnknown,
           CloseAnswered, ReopenRead, ReopenCooled, Reopen, Reopened, ParkUnderLock,
           ParkReadBack, WindDownPark, WindDownClose, WindDownClosed, run
  <1> QED
    BY <1>1, <1>2, <1>3 DEF Next, RunTask, run

(* engine._wind_down_park_and_close: with at most one device failure,       *)
(* wherever it falls (the park lost, late or unreadable, the stop lost, the *)
(* roof's queries, a reset of the mount), whatever the roof and the plan,   *)
(* and however the operator parks, unparks, stops or closes the roof        *)
(* meanwhile, a run ended by a safety verdict leaves no mount tracking.     *)
THEOREM SafetyEndsStill ==
    ASSUME NoMotionRoutes
    PROVE  Spec => EndsStill
  <1>1. Spec => []TypeOK
    BY TypeCorrect
  <1>2. /\ Init => RunInside
        /\ TypeOK /\ RunInside /\ [Next]_vars => RunInside'
    BY InsideInductive
  <1>3. /\ Init => Placed
        /\ TypeOK /\ RunInside /\ Placed /\ [Next]_vars => Placed'
    BY PlacedInductive
  <1>4. /\ Init => GotoPlaces /\ Latched
        /\ GotoPlaces /\ Latched /\ [Next]_vars => (GotoPlaces /\ Latched)'
    BY GotoPlacesInductive, LatchedInductive
  <1>5. /\ Init => Lost
        /\ TypeOK /\ StillInv /\ [Next]_vars => Lost'
    BY LostInductive DEF StillInv
  <1>6. /\ Init => Guarded
        /\ TypeOK /\ StillInv /\ [Next]_vars => Guarded'
    BY GuardedInductive
  <1>7. /\ Init => StillInv
        /\ TypeOK /\ StillInv /\ [Next]_vars => StillInv'
    BY <1>2, <1>3, <1>4, <1>5, <1>6 DEF StillInv
  <1>8. TypeOK /\ StillInv /\ [Next]_vars
        => [Live /\ ~Live' /\ wd.shielded /\ faults' <= 1 => mount' # "tracking"]_vars
    BY EndsGuarded
  <1> QED
    BY <1>1, <1>7, <1>8, PTL DEF Spec, EndsStill

----------------------------------------------------------------------------
(* The roof route against the mount routes, with no run. The lanes of       *)
(* _spawn are the interlock here: while the dome lane is live the goto lane *)
(* is empty and the unpark refused. A failure would end a second close's    *)
(* task with the first one's roof still travelling, and free the lanes, so  *)
(* the rule is proved without failures.                                     *)
RoutesAlone == ~MayRun /\ MaxFaults = 0 /\ SyncRoof /\ ~RoofMayBeSlow

Lanes ==
    /\ pc = "idle" /\ pk = "none" /\ posKnown = TRUE
    /\ co["run"] = "idle" /\ go["run"] = "none"
    /\ domeT # "none" => go["route"] = "none"
    /\ co["route"] # "idle" => domeT = "closing"

(* From the parked answer to the end of the travel the lane is held and the *)
(* mount stays parked; an answer is given with the roof at rest.            *)
LaneCloses ==
    RequiresPark =>
        /\ co["route"] = "command" => mount = "parked"
        /\ roof = "closing" => mount = "parked" /\ domeT # "none"
        /\ co["route"] \in {"confirm", "yes", "no"} => roof # "closing"
        /\ co["route"] = "confirm" => roof = "closed"

(* The lanes hold step by step. *)
LEMMA LanesInductive ==
    ASSUME RoutesAlone
    PROVE  /\ Init => Lanes /\ LaneCloses
           /\ TypeOK /\ Lanes /\ LaneCloses /\ [Next]_vars => (Lanes /\ LaneCloses)'
  <1>1. Init => Lanes /\ LaneCloses
    BY DEF Init, RigInit, CoInit, HubInit, RoutesInit, RunInit, Lanes, LaneCloses,
           Closers, Tasks
  <1>2. ASSUME TypeOK, Lanes, LaneCloses, [Next]_vars PROVE (Lanes /\ LaneCloses)'
    <2>0. /\ co \in [Closers -> CoSteps] /\ go \in [Tasks -> GotoSteps]
          /\ ~Fault
      BY <1>2 DEF TypeOK, CoTypeOK, HubTypeOK, RigTypeOK, RoutesAlone, Fault
    <2> USE <1>2, <2>0 DEF Lanes, LaneCloses, CoGo, GoTo, Closers, Tasks
    <2>1. CASE /\ UNCHANGED <<roof, posKnown, pc, pk, co, domeT>>
               /\ mount = "parked" => mount' = "parked"
               /\ go'["run"] = go["run"]
               /\ domeT # "none" => go'["route"] = go["route"]
      BY <2>1
    <2>2. CASE RigNext /\ UNCHANGED <<co, hub, domeT, run, stop>>
      BY <2>2 DEF RigNext, ParkArrives, SlewArrives, RoofArrives, MountResets, hub, run
    <2>3. CASE ByHand
      BY <2>3 DEF ByHand, OpenedByHand, hub, run
    <2>4. CASE Operator /\ UNCHANGED <<run, stop>>
      <3>1. CASE PostGoto \/ PostPark \/ PostTracking \/ PostTrust
        BY <2>1, <2>4, <3>1
           DEF PostGoto, PostPark, PostTracking, PostTrust, GotoLaneFree, DomeLive,
               CancelSlew, AfterStop, AfterTrackOn, AfterTrackOff, rig, hub, run
      <3>2. CASE PostUnpark
        BY <2>4, <3>2 DEF PostUnpark, GotoLaneFree, DomeLive, hub, run
      <3>3. CASE PostDomeClose
        BY <2>4, <3>3 DEF PostDomeClose, CancelSlew, AfterStop, run
      <3> QED
        BY <2>4, <3>1, <3>2, <3>3 DEF Operator
    <2>5. CASE RouteTasks /\ UNCHANGED <<run, stop>>
      <3>1. CASE ParkLock \/ ParkReturns
        BY <2>1, <2>5, <3>1 DEF ParkLock, ParkReturns, CmdPark, AfterPark, rig, run
      <3>2. CASE DomeLock
        BY <2>5, <3>2 DEF DomeLock, CmdPark, AfterPark, run
      <3>3. CASE DomeParked \/ DomeDone
        BY <2>5, <3>3 DEF DomeParked, DomeDone, rig, run
      <3>4. CASE (CenterNext("route") \/ PlainNext) /\ UNCHANGED <<co, domeT>>
        <4>1. domeT = "none" /\ UNCHANGED <<roof, posKnown>> /\ go'["run"] = go["run"]
          BY <3>4 DEF CenterNext, CenterLock, CenterUnpark, CenterTrack, CenterSlew,
                 CenterSend, CenterDone, CenterAgain, CenterArrive, PlainNext, PlainLock,
                 PlainUnpark, PlainSlew, PlainArrive, rig
        <4> QED
          BY <2>5, <3>4, <4>1 DEF run
      <3>5. CASE CoNext("route") /\ UNCHANGED <<hub, domeT>>
        BY <2>5, <3>5 DEF CoNext, CoAt, AskClosed, AskParked, ReadsParked, CommandClose,
                          CloseReturns, ConfirmClosed, RoutesAlone, rig, hub, run
      <3> QED
        BY <2>5, <3>1, <3>2, <3>3, <3>4, <3>5 DEF RouteTasks
    <2>6. CASE Stops
      BY <2>1, <2>6 DEF Stops, PostStop, AfterStop, run
    <2>7. ~StartRun /\ ~Weather /\ ~Aborts /\ ~Resumes
      BY DEF StartRun, Weather, Aborts, Abort, Live, Resumes, OperatorResumes, RoutesAlone
    <2>8. ~RunTask
      BY DEF RunTask, RunStep, SafetyGate, ConfirmUnsafe, FrameDone, Acquire, Centred,
             UncentredUnpark, UncentredTrack, UncentredSlew, UncentredSend,
             UncentredArrive, HoldStop, HoldAsksAgain, HoldRead, HoldCooled,
             MaxPauseElapses, CloseStop, FencedPark, CloseParked, CloseUnknown,
             CloseAnswered, ReopenRead, ReopenCooled, Reopen, Reopened, ParkUnderLock,
             ParkReadBack, WindDownPark, WindDownParked, WindDownClose,
             WindDownClosed, WindDownEnds, CenterNext, CenterLock, CenterUnpark,
             CenterTrack, CenterSlew, CenterSend, CenterDone, CenterAgain,
             CenterArrive, CoNext, CoAt, AskClosed, AskParked, CommandClose,
             CloseReturns, ConfirmClosed
    <2>9. CASE UNCHANGED vars
      BY <2>1, <2>9 DEF vars, rig, hub, run
    <2> QED
      BY <2>2, <2>3, <2>4, <2>5, <2>6, <2>7, <2>8, <2>9 DEF Next
  <1> QED
    BY <1>1, <1>2

(* api/app.py, _LANE_SUPERSEDES and _lane_conflict: whatever the operator   *)
(* asks of the mount while a roof close is under way, and however often the *)
(* close is asked again, the roof never travels over an unparked mount.     *)
THEOREM RoutesNeverCrush ==
    ASSUME RoutesAlone
    PROVE  Spec => []NeverCrush
  <1>1. Spec => []TypeOK
    BY TypeCorrect
  <1>2. /\ Init => Lanes /\ LaneCloses
        /\ TypeOK /\ Lanes /\ LaneCloses /\ [Next]_vars => (Lanes /\ LaneCloses)'
    BY LanesInductive
  <1>3. LaneCloses => NeverCrush
    BY DEF LaneCloses, NeverCrush
  <1> QED
    BY <1>1, <1>2, <1>3, PTL DEF Spec
=============================================================================

---------------------------- MODULE Observatory ----------------------------
(***************************************************************************)
(* One observatory: the rig, the operator's routes and a sequence run, all  *)
(* on the one event loop of the server, interleaved at their awaits.        *)
(*                                                                          *)
(* stop  history: an operator's STOP has landed since the run began this    *)
(*       acquisition, or was last resumed                                   *)
(***************************************************************************)
EXTENDS RunSafety, MountRoutes

CONSTANT MayRun        \* the operator starts sequence runs

ASSUME ObservatoryAssumption == MayRun \in BOOLEAN

VARIABLE stop

vars == <<rig, co, hub, domeT, run, stop>>

Init ==
    /\ RigInit /\ CoInit /\ HubInit /\ RoutesInit /\ RunInit
    /\ stop = FALSE

(* A run is started under an open roof: neither start() nor any acquisition *)
(* looks at the roof, so this is the operator's part.                       *)
StartRun ==
    /\ MayRun /\ roof = "open"
    /\ Start
    /\ stop' = FALSE /\ UNCHANGED domeT

(* A step of the run's own task. Acquire reads the motion epoch afresh.     *)
RunTask ==
    /\ RunStep
    /\ stop' = IF pc = "acquire" THEN FALSE ELSE stop
    /\ UNCHANGED domeT

Resumes == OperatorResumes /\ stop' = FALSE /\ UNCHANGED domeT
Aborts == Abort /\ UNCHANGED <<stop, domeT>>
Weather == MayRun /\ SkyChanges /\ UNCHANGED <<stop, domeT>>
Stops == PostStop /\ stop' = TRUE /\ UNCHANGED run

ByHand ==
    /\ pc = "idle" /\ domeT = "none"
    /\ OpenedByHand
    /\ UNCHANGED <<co, hub, domeT, run, stop>>

Next ==
    \/ RigNext /\ UNCHANGED <<co, hub, domeT, run, stop>>
    \/ ByHand
    \/ Operator /\ UNCHANGED <<run, stop>>
    \/ RouteTasks /\ UNCHANGED <<run, stop>>
    \/ Stops
    \/ StartRun \/ RunTask \/ Resumes \/ Aborts \/ Weather

Spec == Init /\ [][Next]_vars

(* The hardware finishes what it began, the event loop runs what is ready,  *)
(* and a centring's attempts are bounded, so it does not slew for ever.     *)
Fairness ==
    /\ WF_vars((ParkArrives \/ SlewArrives \/ RoofArrives)
               /\ UNCHANGED <<co, hub, domeT, run, stop>>)
    /\ WF_vars(RunTask)
    /\ SF_vars(CenterDone("run") /\ UNCHANGED <<co, run, stop, domeT>>)

FairSpec == Spec /\ Fairness

----------------------------------------------------------------------------
(* Every variable of the observatory keeps its type; the two debounce       *)
(* counters never pass the thresholds they are compared with                *)
(* (engine._confirm_unsafe, engine._park_hold_pause).                       *)
TypeOK ==
    /\ RigTypeOK /\ CoTypeOK /\ HubTypeOK /\ RoutesTypeOK /\ RunTypeOK
    /\ stop \in BOOLEAN

(* roof.py, close_observatory: a roof that needs a parked tube never        *)
(* travels closed through an unparked mount, whatever failed, was aborted   *)
(* or moved between the parked query and the end of the travel.             *)
NeverCrush ==
    RequiresPark /\ roof = "closing" => mount = "parked"

(* The run sends the mount to a target. *)
RunSlews ==
    \/ pc # "ucArrive" /\ pc' = "ucArrive"
    \/ go["run"] # "arrive" /\ go'["run"] = "arrive"

(* engine._await_safe_and_reopen: as long as no device has failed, a run    *)
(* that closed the roof for the weather slews again only once the roof is   *)
(* open over the mount.                                                     *)
OpenSky == [][RunSlews /\ faults = 0 => roof = "open"]_vars

(* hub.bump_motion_epoch, engine._hold_for_operator: an operator's STOP     *)
(* that lands while the run is acquiring is not followed by a slew of the   *)
(* run's, at whichever await it lands, until the operator resumes it.       *)
StopHolds == [][RunSlews => ~stop]_vars

(* The one rule of #886/#888: no slew and no park, the run's or a route's,  *)
(* is sent while the mount's position is unknown, even when the position is *)
(* lost while the command waits for the motion lock.                        *)
AimedKnowing ==
    [][mount' # mount /\ mount' \in {"slewing", "parking"} => posKnown]_vars

Held == pc \in HoldPcs \cup ReopenPcs

(* engine._park_hold_pause, _await_safe_and_reopen: a run the weather holds *)
(* goes back to work only after resume_safe_consecutive safe readings with  *)
(* none that was not safe among them, those of the cooler wait included.    *)
ResumeDebounced ==
    [][Held /\ ~Held' /\ Live' /\ pc' \notin WindPcs => clean >= ResumeN]_vars

(* engine._wind_down_park_and_close: with at most one device failure,       *)
(* wherever it falls, a run that a safety verdict ended does not end with   *)
(* the mount tracking on unwatched.                                         *)
EndsStill ==
    [][Live /\ ~Live' /\ wd.shielded /\ faults' <= 1 => mount' # "tracking"]_vars

(* engine._on_unsafe: under a sky that stays unsafe, a run that is not      *)
(* ended comes to rest: the mount neither tracks nor slews any more,        *)
(* although commands to stop may be lost on the way.                        *)
UnsafeSettles ==
    <>[](sky # "safe" /\ Live) => <>[](mount \notin {"tracking", "slewing"})
=============================================================================

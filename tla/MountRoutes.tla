---------------------------- MODULE MountRoutes ----------------------------
(***************************************************************************)
(* The operator's side: the mount and roof routes of api/app.py, with the   *)
(* lanes of _spawn.  One task per lane: go["route"] is the "goto" lane's,   *)
(* domeT the "dome" lane's.  _LANE_SUPERSEDES: a dome close cancels the     *)
(* goto lane, and the goto lane is refused while the dome lane is live.     *)
(***************************************************************************)
EXTENDS CloseObservatory, HubMotion

CONSTANT Routes        \* the routes the operator may use

ASSUME RoutesAssumption ==
    Routes \subseteq {"goto", "center", "park", "unpark", "stop", "tracking",
                      "trust", "dome"}

VARIABLE domeT

DomeSteps == {"none", "wait", "parked", "closing"}

RoutesTypeOK == domeT \in DomeSteps
RoutesInit == domeT = "none"

DomeLive == domeT # "none"
GotoLive == go["route"] # "none"

(* _lane_conflict("goto"): the dome lane forbids it.                        *)
GotoLaneFree == ~DomeLive

----------------------------------------------------------------------------
(* POST /api/mount/goto, plain or centred: 409 while the lane is busy.      *)
PostGoto ==
    /\ GotoLaneFree /\ ~GotoLive /\ posKnown
    /\ \/ "goto" \in Routes /\ GoTo("route", "pEntered")
       \/ "center" \in Routes /\ GoTo("route", "entered")
    /\ ReadEpoch("route")
    /\ UNCHANGED <<rig, co, lock, domeT>>

(* POST /api/mount/park: refuse, bump, then replace whatever goto runs.     *)
PostPark ==
    /\ "park" \in Routes
    /\ GotoLaneFree /\ posKnown
    /\ Bump(FALSE)
    /\ GoTo("route", "parkWait")
    /\ lock' = LockAfterCancel("route")
    /\ CancelSlew(RouteInSlew)
    /\ UNCHANGED <<roof, posKnown, faults, co, domeT>>

(* Mutant: the position is asked by the route only, not under the lock. *)
MutParkLock ==
    /\ go["route"] = "parkWait"
    /\ lock = "free"
    /\ CmdPark /\ lock' = "route" /\ GoTo("route", "parkSent")
    /\ UNCHANGED <<roof, posKnown, co, fenced, halted, domeT>>

(* ... under the lock, the position asked again, then tel.park().           *)
ParkLock ==
    /\ go["route"] = "parkWait"
    /\ lock = "free"
    /\ IF posKnown
       THEN CmdPark /\ lock' = "route" /\ GoTo("route", "parkSent")
       ELSE GoTo("route", "none") /\ UNCHANGED <<mount, faults, lock>>
    /\ UNCHANGED <<roof, posKnown, co, fenced, halted, domeT>>

(* tel.park() returns: on arrival, or as its slew begins (Alpaca).          *)
ParkReturns ==
    /\ go["route"] = "parkSent"
    /\ GoTo("route", "none")
    /\ lock' = "free"
    /\ UNCHANGED <<rig, co, fenced, halted, domeT>>

(* Mutant: the unpark does not consult the lanes. *)
MutPostUnpark ==
    /\ "unpark" \in Routes
    /\ mount' = AfterUnpark
    /\ UNCHANGED <<roof, posKnown, faults, co, hub, domeT>>

(* POST /api/mount/unpark: the lane refusal and the command, with no await  *)
(* between them and no motion lock.                                         *)
PostUnpark ==
    /\ "unpark" \in Routes
    /\ GotoLaneFree
    /\ mount' = AfterUnpark
    /\ UNCHANGED <<roof, posKnown, faults, co, hub, domeT>>

(* POST /api/mount/stop: never refused. Bump, cancel the goto lane, stop.   *)
PostStop ==
    /\ "stop" \in Routes
    /\ Bump(TRUE)
    /\ GoTo("route", "none")
    /\ lock' = LockAfterCancel("route")
    /\ mount' = AfterStop
    /\ UNCHANGED <<roof, posKnown, faults, co, domeT>>

(* POST /api/mount/tracking: straight to the driver.                        *)
PostTracking ==
    /\ "tracking" \in Routes
    /\ mount' \in {AfterTrackOn, AfterTrackOff}
    /\ UNCHANGED <<roof, posKnown, faults, co, hub, domeT>>

(* POST /api/mount/trust-position: the operator vouches for the tube.       *)
PostTrust ==
    /\ "trust" \in Routes
    /\ ~posKnown
    /\ posKnown' = TRUE
    /\ UNCHANGED <<mount, roof, faults, co, hub, domeT>>

----------------------------------------------------------------------------
(* POST /api/dome/close: bump, cancel the goto lane and any earlier close,  *)
(* and spawn the close in the dome lane.                                    *)
PostDomeClose ==
    /\ "dome" \in Routes
    /\ Bump(FALSE)
    /\ GoTo("route", "none")
    /\ lock' = IF lock \in {"route", "dome"} THEN "free" ELSE lock
    /\ CoGo("route", "idle")
    /\ domeT' = "wait"
    /\ CancelSlew(RouteInSlew)
    /\ UNCHANGED <<roof, posKnown, faults>>

(* Its task, once it has the lock. Position unknown: stop tracking, and     *)
(* close only a roof that needs no parked tube. Otherwise park first.       *)
DomeLock ==
    /\ domeT = "wait"
    /\ lock = "free"
    /\ IF ~posKnown
       THEN /\ StopTracking
            /\ IF RequiresPark
               THEN domeT' = "none" /\ UNCHANGED <<lock, co>>
               ELSE domeT' = "closing" /\ lock' = "dome" /\ CoGo("route", "isClosed")
       ELSE IF RequiresPark
       THEN CmdPark /\ domeT' = "parked" /\ lock' = "dome" /\ UNCHANGED co
       ELSE /\ domeT' = "closing" /\ lock' = "dome" /\ CoGo("route", "isClosed")
            /\ UNCHANGED <<mount, faults>>
    /\ UNCHANGED <<roof, posKnown, fenced, halted, go>>

(* tel.park() returned, or raised and ended the task.                       *)
DomeParked ==
    /\ domeT = "parked"
    /\ \/ domeT' = "closing" /\ CoGo("route", "isClosed") /\ UNCHANGED <<faults, lock>>
       \/ Fault /\ domeT' = "none" /\ lock' = "free" /\ UNCHANGED co
    /\ UNCHANGED <<mount, roof, posKnown, fenced, halted, go>>

(* close_observatory answered: the lock and the lane are free again.        *)
DomeDone ==
    /\ domeT = "closing"
    /\ co["route"] \in {"yes", "no"}
    /\ CoGo("route", "idle")
    /\ domeT' = "none"
    /\ lock' = "free"
    /\ UNCHANGED <<rig, fenced, halted, go>>

----------------------------------------------------------------------------
(* Every route but the STOP, which the observatory records.                *)
Operator ==
    \/ PostGoto \/ PostPark \/ PostUnpark \/ PostTracking \/ PostTrust
    \/ PostDomeClose

RouteTasks ==
    \/ ParkLock \/ ParkReturns \/ DomeLock \/ DomeParked \/ DomeDone
    \/ (CenterNext("route") \/ PlainNext) /\ UNCHANGED <<co, domeT>>
    \/ CoNext("route") /\ UNCHANGED <<hub, domeT>>
=============================================================================

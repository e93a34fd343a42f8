-------------------------------- MODULE Rig --------------------------------
(***************************************************************************)
(* The observatory's hardware as the server sees it: one mount, one roof,   *)
(* the commands the drivers accept and what a read-back can answer.  The    *)
(* devices are outside src/; their contract is the one the code states      *)
(* (devices/base.py Telescope and Dome) and relies on.                      *)
(*                                                                          *)
(* mount    parked | still (unparked, not tracking) | tracking | slewing    *)
(*          (a goto on its way) | parking (a park on its way)               *)
(* roof     open | closing | closed | opening                               *)
(* posKnown FALSE while the driver cannot vouch for the mount's position    *)
(*          (the rig-level latch of #886/#888)                              *)
(* faults   device failures spent, at most MaxFaults                        *)
(***************************************************************************)
EXTENDS Naturals

CONSTANTS
    RequiresPark,      \* Dome.requires_park_before_close
    SyncRoof,          \* close_shutter/open_shutter return when the travel ends
    RoofMayBeSlow,     \* a travel may outlast its bound (180 s)
    ResetReadsParked,  \* after a reset the mount may read parked anywhere
    JnowMount,         \* an Alpaca mount that expects JNOW coordinates
    MaxFaults          \* bound: device failures per behaviour

ASSUME RigAssumption ==
    /\ {RequiresPark, SyncRoof, RoofMayBeSlow, ResetReadsParked, JnowMount}
         \subseteq BOOLEAN
    /\ MaxFaults \in Nat

VARIABLES mount, roof, posKnown, faults

rig == <<mount, roof, posKnown, faults>>

MountStates == {"parked", "still", "tracking", "slewing", "parking"}
RoofStates == {"open", "closing", "closed", "opening"}

RigTypeOK ==
    /\ mount \in MountStates
    /\ roof \in RoofStates
    /\ posKnown \in BOOLEAN
    /\ faults \in 0 .. MaxFaults

RigInit ==
    /\ mount = "parked"
    /\ roof = "open"
    /\ posKnown = TRUE
    /\ faults = 0

(* A device failure: spent from the budget. *)
Fault == faults < MaxFaults /\ faults' = faults + 1

----------------------------------------------------------------------------
(* Mount commands, as the state they leave. A parked mount refuses motion.  *)
AfterPark     == IF mount = "parked" THEN "parked" ELSE "parking"
AfterUnpark   == IF mount = "parked" THEN "still" ELSE mount
AfterTrackOn  == IF mount = "still" THEN "tracking" ELSE mount
AfterTrackOff == IF mount = "tracking" THEN "still" ELSE mount
AfterSlew     == IF mount = "parked" THEN mount ELSE "slewing"
AfterStop     == IF mount \in {"slewing", "parking"} THEN "still" ELSE mount

(* park(): it begins, or the driver accepts it and nothing moves (the AM5   *)
(* park lost inside a guide pulse, #311).                                   *)
CmdPark ==
    \/ mount' = AfterPark /\ UNCHANGED faults
    \/ mount # "parked" /\ Fault /\ UNCHANGED mount

(* set_tracking(False), every failure swallowed: taken, or lost.            *)
StopTracking ==
    \/ mount' = AfterTrackOff /\ UNCHANGED faults
    \/ mount = "tracking" /\ Fault /\ UNCHANGED mount

(* What is_parked may answer. *)
ReadsParked(answer) ==
    \/ answer = (mount = "parked")
    \/ ResetReadsParked /\ ~posKnown /\ answer

----------------------------------------------------------------------------
(* The hardware moves by itself. *)
ParkArrives ==
    /\ mount = "parking"
    /\ mount' = "parked"
    /\ UNCHANGED <<roof, posKnown, faults>>

SlewArrives ==
    /\ mount = "slewing"
    /\ mount' = "tracking"
    /\ UNCHANGED <<roof, posKnown, faults>>

RoofArrives ==
    /\ roof \in {"closing", "opening"}
    /\ roof' = IF roof = "closing" THEN "closed" ELSE "open"
    /\ UNCHANGED <<mount, posKnown, faults>>

(* A power cycle: the mount stops where it is and, on the reopened link,    *)
(* the driver latches the position unknown (the AM5's; Alpaca has no latch).*)
MountResets ==
    /\ posKnown /\ Fault
    /\ posKnown' = JnowMount
    /\ mount' = IF mount = "parked" THEN mount ELSE "still"
    /\ UNCHANGED roof

(* The roof is opened from its own panel: no route of the server opens it.  *)
OpenedByHand ==
    /\ roof = "closed"
    /\ roof' = "opening"
    /\ UNCHANGED <<mount, posKnown, faults>>

RigNext == ParkArrives \/ SlewArrives \/ RoofArrives \/ MountResets
=============================================================================

-------------------------- MODULE CloseObservatory --------------------------
(***************************************************************************)
(* sequence/roof.py: close_observatory, the one function that may command   *)
(* the roof closed.  Two callers can be inside it at once: the sequence     *)
(* run (its wind-down or its auto-reopen close) and POST /api/dome/close.   *)
(* co[p] is where caller p stands; every await is a step of its own, so     *)
(* what a query answered may be stale when it is acted on.  The telescope   *)
(* is present throughout, so the guard always asks it.                      *)
(***************************************************************************)
EXTENDS Rig

VARIABLE co

Closers == {"run", "route"}
CoSteps == {"idle", "isClosed", "isParked", "command", "travel", "confirm",
            "yes", "no"}

CoTypeOK == co \in [Closers -> CoSteps]
CoInit == co = [p \in Closers |-> "idle"]

CoAt(p, step) == co[p] = step
CoGo(p, step) == co' = [co EXCEPT ![p] = step]

(* 1. Already closed: nothing to do. A failed query falls through.          *)
AskClosed(p) ==
    /\ CoAt(p, "isClosed")
    /\ \/ roof = "closed" /\ CoGo(p, "yes") /\ UNCHANGED faults
       \/ roof # "closed" /\ UNCHANGED faults
          /\ CoGo(p, IF RequiresPark THEN "isParked" ELSE "command")
       \/ Fault /\ CoGo(p, IF RequiresPark THEN "isParked" ELSE "command")
    /\ UNCHANGED <<mount, roof, posKnown>>

(* Mutant: a parked query that fails is taken for parked. *)
MutAskParked(p) ==
    /\ CoAt(p, "isParked")
    /\ \/ ReadsParked(TRUE) /\ CoGo(p, "command") /\ UNCHANGED faults
       \/ ReadsParked(FALSE) /\ CoGo(p, "no") /\ UNCHANGED faults
       \/ Fault /\ CoGo(p, "command")
    /\ UNCHANGED <<mount, roof, posKnown>>

(* 2. The never-crush guard: any doubt is "not parked", and refuses.        *)
AskParked(p) ==
    /\ CoAt(p, "isParked")
    /\ \/ ReadsParked(TRUE) /\ CoGo(p, "command") /\ UNCHANGED faults
       \/ ReadsParked(FALSE) /\ CoGo(p, "no") /\ UNCHANGED faults
       \/ Fault /\ CoGo(p, "no")
    /\ UNCHANGED <<mount, roof, posKnown>>

(* 3. close_shutter: the roof starts to travel, or the command fails.       *)
CommandClose(p) ==
    /\ CoAt(p, "command")
    /\ \/ roof' = (IF roof = "closed" THEN "closed" ELSE "closing")
          /\ CoGo(p, "travel") /\ UNCHANGED faults
       \/ Fault /\ CoGo(p, "no") /\ UNCHANGED roof
    /\ UNCHANGED <<mount, posKnown>>

(* close_shutter returns: when the travel ends, or as soon as it is         *)
(* commanded (an Alpaca closeshutter PUT); or the 180 s bound passes first. *)
CloseReturns(p) ==
    /\ CoAt(p, "travel")
    /\ \/ (SyncRoof => roof = "closed") /\ CoGo(p, "confirm")
       \/ RoofMayBeSlow /\ roof # "closed" /\ CoGo(p, "no")
    /\ UNCHANGED rig

(* One read of shutter_state decides. *)
ConfirmClosed(p) ==
    /\ CoAt(p, "confirm")
    /\ \/ CoGo(p, IF roof = "closed" THEN "yes" ELSE "no") /\ UNCHANGED faults
       \/ Fault /\ CoGo(p, "no")
    /\ UNCHANGED <<mount, roof, posKnown>>

CoNext(p) ==
    AskClosed(p) \/ AskParked(p) \/ CommandClose(p) \/ CloseReturns(p)
    \/ ConfirmClosed(p)
=============================================================================

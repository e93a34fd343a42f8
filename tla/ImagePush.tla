------------------------------- MODULE ImagePush -------------------------------
(* The push direction of file sync: PushRunner (sync/runner.py), push_once,    *)
(* PushState and due (sync/push.py), and the directory it writes to            *)
(* (sync/destination.py).                                                      *)
EXTENDS ImageLibrary

CONSTANTS
  Limit,         \* limit_per_pass
  FailLoudAfter, \* FAIL_LOUD_AFTER
  MaxFaults      \* bound: failures, and losses of the destination

ASSUME ImagePushAssumption ==
  /\ Limit \in Nat \ {0} /\ FailLoudAfter \in Nat \ {0} /\ MaxFaults \in Nat

VARIABLES
  enabled,       \* build_destination finds a destination
  online,        \* it can be reached
  dest,          \* the bytes of each frame there, under its final name
  poke,          \* _pending_event: "none", "fresh", or "due" after debounce_s
  sweepDue,      \* sweep_interval_s since last_attempt_at
  asked,         \* who waits at the held _lock: "tick", "now"
  pass,          \* the pass that holds _lock: [at, by, left, copying, error, failed]
  failures,      \* consecutive_failures, up to FailLoudAfter
  alarmed,       \* _alarmed
  faults

push == <<enabled, online, dest, poke, sweepDue, asked, pass, failures, alarmed>>

NoPass == [at |-> "idle", by |-> "none", left |-> {}, copying |-> <<>>,
           error |-> FALSE, failed |-> FALSE]

PushInit ==
  /\ enabled \in BOOLEAN /\ (~setup.operator => enabled) /\ online = TRUE
  /\ dest = [f \in Frames |-> 0]
  /\ poke = "none" /\ sweepDue = TRUE
  /\ asked = {} /\ pass = NoPass
  /\ failures = 0 /\ alarmed = FALSE
  /\ faults = 0

Fault == faults < MaxFaults /\ faults' = faults + 1

-------------------------------------------------------------------------------
(* What the runner is told, and time *)

(* A frame's save returns: note_saved.  A WCS stamp says nothing. *)
SaveEnds(f) ==
  /\ WriteEnd(f)
  /\ poke' = IF file[f].bytes = 1 THEN "fresh" ELSE poke
  /\ UNCHANGED <<enabled, online, dest, sweepDue, asked, pass, failures, alarmed, faults>>

Debounce ==
  /\ poke = "fresh" /\ poke' = "due"
  /\ UNCHANGED <<library, enabled, online, dest, sweepDue, asked, pass, failures,
                 alarmed, faults>>

SweepElapses ==
  /\ ~sweepDue /\ sweepDue' = TRUE
  /\ UNCHANGED <<library, enabled, online, dest, poke, asked, pass, failures,
                 alarmed, faults>>

Configure ==
  /\ enabled' = ~enabled
  /\ UNCHANGED <<library, online, dest, poke, sweepDue, asked, pass, failures,
                 alarmed, faults>>

DestinationLost ==
  /\ online /\ online' = FALSE /\ Fault
  /\ UNCHANGED <<library, enabled, dest, poke, sweepDue, asked, pass, failures,
                 alarmed>>

DestinationBack ==
  /\ ~online /\ online' = TRUE
  /\ UNCHANGED <<library, enabled, dest, poke, sweepDue, asked, pass, failures,
                 alarmed, faults>>

-------------------------------------------------------------------------------
(* The runner's task *)

(* due: a poke whose debounce is over, or the sweep, whatever was poked. *)
Due == poke = "due" \/ sweepDue

(* Mutant: the poke is left for the end of the pass. *)
ClearsPoke_Late == pass.at # "idle"

(* _pass clears the poke before the work, when it gets the lock. *)
ClearsPoke == pass.at = "idle"

Pass(by) ==
  /\ pass' = [NoPass EXCEPT !.at = "source", !.by = by]
  /\ poke' = IF ClearsPoke THEN "none" ELSE poke

(* A pass is wanted: it starts, or waits for the one that holds the lock.      *)
Ask(by) ==
  /\ by \notin asked /\ pass.by # by
  /\ IF pass.at = "idle" THEN Pass(by) /\ UNCHANGED asked
                         ELSE asked' = asked \union {by} /\ UNCHANGED <<poke, pass>>
  /\ UNCHANGED <<library, enabled, online, dest, sweepDue, failures, alarmed, faults>>

Tick == enabled /\ Due /\ Ask("tick")

(* _tick, switched off: the poke is dropped. *)
TickOff ==
  /\ ~enabled /\ "tick" \notin asked /\ pass.by # "tick"
  /\ poke # "none" /\ poke' = "none"
  /\ UNCHANGED <<library, enabled, online, dest, sweepDue, asked, pass, failures, alarmed,
                 faults>>

PushNow == enabled /\ Ask("now")

(* The lock comes free for one that waited. *)
Turn(by) ==
  /\ by \in asked /\ pass.at = "idle"
  /\ asked' = asked \ {by}
  /\ Pass(by)
  /\ UNCHANGED <<library, enabled, online, dest, sweepDue, failures, alarmed, faults>>

-------------------------------------------------------------------------------
(* push_once, on its thread *)

PassManifest ==
  /\ pass.at = "source"
  /\ Manifest("push")
  /\ UNCHANGED <<push, faults>>

(* The scan raises: the pass reports it. *)
ScanFails ==
  /\ pass.at = "source" /\ view["push"].at = "idle" /\ Fault
  /\ pass' = [pass EXCEPT !.at = "record", !.error = TRUE]
  /\ UNCHANGED <<library, enabled, online, dest, poke, sweepDue, asked, failures,
                 alarmed>>

(* The oldest frames to transfer, at most Limit of them. *)
Oldest(S) ==
  {f \in S : Cardinality({g \in S : view["push"].facts[g] < view["push"].facts[f]}) < Limit}

(* dest.manifest() and diff; an unreachable destination is an error to report. *)
DestManifest ==
  /\ pass.at = "source" /\ Built("push")
  /\ pass' = IF online
             THEN [pass EXCEPT !.at = "put", !.left = Oldest(Transfers("push", dest))]
             ELSE [pass EXCEPT !.at = "record", !.error = TRUE]
  /\ UNCHANGED <<library, enabled, online, dest, poke, sweepDue, asked, failures,
                 alarmed, faults>>

(* put: the oldest frame left is copied beside its name, *)
PutStart(f) ==
  /\ pass.at = "put" /\ pass.copying = <<>> /\ f \in pass.left
  /\ \A g \in pass.left : view["push"].facts[f] <= view["push"].facts[g]
  /\ pass' = [pass EXCEPT !.copying = <<f, file[f].bytes>>]
  /\ UNCHANGED <<library, enabled, online, dest, poke, sweepDue, asked, failures,
                 alarmed, faults>>

(* and takes the name, *)
PutEnd ==
  /\ pass.copying # <<>> /\ online
  /\ LET f == pass.copying[1] IN
     /\ dest' = [dest EXCEPT ![f] = IF file[f].bytes = pass.copying[2] THEN file[f].bytes
                                                                      ELSE Mixed]
     /\ pass' = [pass EXCEPT !.copying = <<>>, !.left = @ \ {f}]
  /\ UNCHANGED <<library, enabled, online, poke, sweepDue, asked, failures,
                 alarmed, faults>>

(* or fails: the frame is counted, and what was copied of it removed. *)
PutFails ==
  /\ pass.copying # <<>>
  /\ IF online THEN Fault ELSE UNCHANGED faults
  /\ pass' = [pass EXCEPT !.copying = <<>>, !.left = @ \ {pass.copying[1]}, !.failed = TRUE]
  /\ UNCHANGED <<library, enabled, online, dest, poke, sweepDue, asked, failures,
                 alarmed>>

(* Mutant: a pass that found no destination to compare with sent all it had. *)
PassOk_PutsOnly == ~pass.failed

(* PushResult.ok *)
PassOk == ~pass.error /\ ~pass.failed

(* PushState.record and _announce: the alarm is a latch. *)
Record ==
  /\ pass.at = "record" \/ (pass.at = "put" /\ pass.left = {})
  /\ failures' = IF PassOk THEN 0
                 ELSE IF failures < FailLoudAfter THEN failures + 1 ELSE failures
  /\ alarmed' = (failures' >= FailLoudAfter)
  /\ sweepDue' = FALSE
  /\ poke' = IF ClearsPoke THEN "none" ELSE poke
  /\ pass' = NoPass
  /\ Forget("push")
  /\ UNCHANGED <<file, clock, cache, enabled, online, dest, asked, faults>>

PushStep ==
  \/ \E by \in {"tick", "now"} : Turn(by)
  \/ PassManifest \/ ScanFails \/ DestManifest
  \/ (\E f \in Frames : PutStart(f)) \/ PutEnd \/ PutFails
  \/ Record
================================================================================

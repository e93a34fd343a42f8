------------------------------- MODULE ImageSync -------------------------------
(* File sync: the rig's frames, pushed by the rig and pulled by an agent, the  *)
(* two sharing the manifest's hash cache.                                      *)
EXTENDS ImagePull

vars == <<setup, library, push, pull, faults>>

Init == LibraryInit /\ PushInit /\ PullInit

(* The writer starts on a frame, or a frame settles. *)
Files ==
  /\ \E f \in Frames : WriteStart(f) \/ Settle(f)
  /\ UNCHANGED <<push, pull, faults>>

(* The rig's process dies and is started again: everything in memory is gone,  *)
(* and a frame being written stays as it is.                                   *)
Crash ==
  /\ Fault
  /\ file' = [f \in Frames |-> [file[f] EXCEPT !.writing = FALSE]]
  /\ cache' = {}
  /\ poke' = "none" /\ sweepDue' = TRUE
  /\ asked' = {} /\ pass' = NoPass
  /\ failures' = 0 /\ alarmed' = FALSE
  /\ IF agent.at = "manifest" \/ (agent.at = "stream" /\ ~Whole)
     THEN agent' = Resting /\ view' = [p \in Sides |-> NoView]
     ELSE UNCHANGED agent /\ Forget("push")
  /\ UNCHANGED <<clock, enabled, online, dest, part, pulled>>

Saves ==
  /\ \E f \in Frames : SaveEnds(f)
  /\ UNCHANGED pull

Runner ==
  /\ \/ Debounce \/ SweepElapses \/ DestinationLost \/ DestinationBack
     \/ Tick \/ TickOff \/ PushStep
     \/ setup.operator /\ (Configure \/ PushNow)
  /\ UNCHANGED pull

Next ==
  /\ \/ Files \/ Saves \/ Crash
     \/ "push" \in setup.sides /\ Runner
     \/ "pull" \in setup.sides /\ (PullStep \/ Interrupted)
  /\ UNCHANGED setup

Spec == Init /\ [][Next]_vars

(* Time passes, a write that was started ends, and the runner's task, the      *)
(* pass's thread and the agent's loop go on.  Nothing is asked of the network, *)
(* the operator or the destination.                                            *)
Fairness ==
  /\ \A f \in Frames :
       /\ WF_vars(Settle(f) /\ UNCHANGED <<setup, push, pull, faults>>)
       /\ WF_vars(SaveEnds(f) /\ UNCHANGED <<setup, pull>>)
  /\ WF_vars("push" \in setup.sides /\ Debounce /\ UNCHANGED <<setup, pull>>)
  /\ WF_vars("push" \in setup.sides /\ SweepElapses /\ UNCHANGED <<setup, pull>>)
  /\ WF_vars("push" \in setup.sides /\ Tick /\ UNCHANGED <<setup, pull>>)
  /\ WF_vars("push" \in setup.sides /\ PushStep /\ UNCHANGED <<setup, pull>>)
  /\ WF_vars("pull" \in setup.sides /\ PullStep /\ UNCHANGED setup)

FairSpec == Spec /\ Fairness

--------------------------------------------------------------------------------
(* A digest filed under a frame's present mtime is the digest of its present   *)
(* bytes, whoever read them and whatever was written meanwhile: the cache      *)
(* never hides a rewrite from either direction (manifest.hash_file).           *)
CacheTrue ==
  \A c \in cache : c.mtime = file[c.frame].mtime => c.digest = file[c.frame].bytes

(* Half of a first save reaches neither destination under its final name,      *)
(* unless the rig died in that save and half is all there is (manifest.build); *)
(* and the agent puts no bytes there that the rig never held at one time,      *)
(* whatever was rewritten while it downloaded (sync_agent.download).           *)
NoTornCopy ==
  \A f \in Frames :
    /\ 1 \in {dest[f], pulled[f]} => file[f].bytes = 1 /\ ~file[f].writing
    /\ pulled[f] # Mixed

(* A frame saved after the scan of a tick's pass leaves the poke set at the    *)
(* pass's end, so that it need not wait for the sweep (PushRunner._pass).      *)
PokeKept ==
  [][/\ pass.by = "tick" /\ pass'.at = "idle" /\ Record
     /\ view["push"].at # "idle"
     /\ \E f \in Frames : file[f].bytes >= 2 /\ f \notin DOMAIN view["push"].facts
     => poke' # "none"]_vars

(* While it is switched on and reachable from some time on, the destination    *)
(* ends up holding every frame's present bytes: missed pokes, failed puts,     *)
(* stamps nobody announced, copies a stamp ran into, and restarts all heal     *)
(* (push.due's unconditional sweep, manifest.diff).                            *)
PushConverges ==
  "push" \in setup.sides /\ <>[](enabled /\ online) =>
    <>[](\A f \in Frames : dest[f] = file[f].bytes)

(* The agent ends up holding every frame's present bytes, through dropped      *)
(* connections, frames rewritten between manifest and download, resumed        *)
(* partial downloads, and restarts of the rig or of the agent                  *)
(* (sync_agent.download).                                                      *)
PullConverges ==
  "pull" \in setup.sides => <>[](\A f \in Frames : pulled[f] = file[f].bytes)

(* A destination that stays out of reach is reported loudly, and the report    *)
(* stands (PushState.record, PushRunner._announce).                            *)
LoudWhenStuck ==
  "push" \in setup.sides /\ <>[](enabled /\ ~online) => <>[]alarmed
================================================================================

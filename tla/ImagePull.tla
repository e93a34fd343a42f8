------------------------------- MODULE ImagePull -------------------------------
(* The pull direction of file sync: tools/sync_agent.py, polling the rig from  *)
(* the machine the frames are processed on.                                    *)
EXTENDS ImagePush

CONSTANT
  KilledWhole    \* the agent may die between a .part's last byte and its rename

ASSUME ImagePullAssumption == KilledWhole \in BOOLEAN

VARIABLES
  agent,    \* [at, left, frame, upto], at "idle", "manifest", "fetch" or "stream"
  part,     \* <name>.part: how long it is, and the bytes it was fetched from
  pulled    \* the bytes of each frame under its final name

pull == <<agent, part, pulled>>

NoPart == [len |-> 0, bytes |-> 0]
Resting == [at |-> "idle", left |-> {}, frame |-> <<>>, upto |-> 0]

PullInit ==
  /\ agent = Resting
  /\ part = [f \in Frames |-> NoPart]
  /\ pulled = [f \in Frames |-> 0]

(* one_pass: the manifest is asked for, *)
PollStart ==
  /\ agent.at = "idle"
  /\ agent' = [agent EXCEPT !.at = "manifest"]
  /\ UNCHANGED <<library, push, part, pulled, faults>>

(* built by the rig, *)
FetchManifest ==
  /\ agent.at = "manifest"
  /\ Manifest("pull")
  /\ UNCHANGED <<push, pull, faults>>

(* and compared with what is here. *)
OnePass ==
  /\ agent.at = "manifest" /\ Built("pull")
  /\ agent' = [agent EXCEPT !.at = "fetch", !.left = Transfers("pull", pulled)]
  /\ UNCHANGED <<library, push, part, pulled, faults>>

Fetched(f) == [agent EXCEPT !.at = "fetch", !.left = @ \ {f}, !.frame = <<>>, !.upto = 0]

(* download, oldest first: a .part is resumed with a Range, which the rig      *)
(* cannot satisfy once it starts at the end of the file.                       *)
Download(f) ==
  /\ agent.at = "fetch" /\ f \in agent.left
  /\ \A g \in agent.left : view["pull"].facts[f] <= view["pull"].facts[g]
  /\ agent' = IF part[f].len > 0 /\ part[f].len >= file[f].size
              THEN Fetched(f)
              ELSE [agent EXCEPT !.at = "stream", !.frame = <<f>>, !.upto = file[f].size]
  /\ UNCHANGED <<library, push, part, pulled, faults>>

(* A block is appended. *)
Block ==
  /\ agent.at = "stream"
  /\ LET f == agent.frame[1] IN
     /\ part[f].len < agent.upto
     /\ part' = [part EXCEPT ![f] = [len |-> @.len + 1,
          bytes |-> IF @.len = 0 \/ @.bytes = file[f].bytes THEN file[f].bytes ELSE Mixed]]
  /\ UNCHANGED <<library, push, agent, pulled, faults>>

(* Mutant: a .part that does not verify stays, to be resumed. *)
Rejected_Kept(f) == part[f]

(* A .part that does not verify is removed. *)
Rejected(f) == NoPart

Verifies(f) == part[f].bytes # Mixed /\ part[f].bytes = view["pull"].entries[f]

(* The last block is there: verified, and renamed or rejected. *)
Commit ==
  /\ agent.at = "stream"
  /\ LET f == agent.frame[1] IN
     /\ part[f].len = agent.upto
     /\ IF Verifies(f)
        THEN /\ pulled' = [pulled EXCEPT ![f] = part[f].bytes]
             /\ part' = [part EXCEPT ![f] = NoPart]
        ELSE /\ part' = [part EXCEPT ![f] = Rejected(f)]
             /\ UNCHANGED pulled
     /\ agent' = Fetched(f)
  /\ UNCHANGED <<library, push, faults>>

(* The response ends early without an error: what came cannot verify.          *)
ShortRead ==
  /\ agent.at = "stream" /\ Fault
  /\ LET f == agent.frame[1] IN
     /\ part[f].len < agent.upto
     /\ part' = [part EXCEPT ![f] = Rejected(f)]
     /\ agent' = Fetched(f)
  /\ UNCHANGED <<library, push, pulled>>

PollEnds ==
  /\ agent.at = "fetch" /\ agent.left = {}
  /\ agent' = Resting
  /\ Forget("pull")
  /\ UNCHANGED <<file, clock, cache, push, part, pulled, faults>>

Whole == agent.at = "stream" /\ part[agent.frame[1]].len = agent.upto

(* An error leaves the pass, or the agent is killed and started again: the     *)
(* .part stays.                                                                *)
Interrupted ==
  /\ agent.at # "idle" /\ Fault
  /\ Whole => KilledWhole
  /\ agent' = Resting
  /\ Forget("pull")
  /\ UNCHANGED <<file, clock, cache, push, part, pulled>>

PullStep ==
  \/ PollStart \/ FetchManifest \/ OnePass
  \/ \E f \in Frames : Download(f)
  \/ Block \/ Commit \/ ShortRead \/ PollEnds
================================================================================

-------------------------------- MODULE ResumeArm --------------------------------
(* sequence/resume_arm.py, tick: once a minute, the armed session is started   *)
(* when its window is open, nothing runs and the ladder finds the rig fit.     *)
EXTENDS RecoveryLadder

CONSTANT
  GiveUpAfter   \* RESUME_GIVE_UP_AFTER, 3 in the code

ASSUME ResumeArmAssumption == GiveUpAfter \in Nat \ {0}

VARIABLES
  backoff,     \* _retry_at is ahead
  stowed,      \* _stowed_for
  stowing,     \* the wind-down of _give_up_and_stow is awaited
  connected    \* the camera and the telescope are connected

service == <<backoff, stowed, stowing, connected>>

ArmInit ==
  /\ arm = NoLadder
  /\ backoff = FALSE /\ stowed = NoSession /\ stowing = FALSE /\ connected = TRUE

(* The tick's own stretch: nothing in it awaits, so what it asks still holds   *)
(* when the ladder goes up.                                                    *)
Ticks(s) == LoopFree /\ ~arm.on /\ ~stowing /\ ~Running /\ s \in ArmedSessions

(* Nothing armed, or not dark: the retry is forgotten. *)
TickRests ==
  /\ LoopFree /\ ~arm.on /\ ~stowing /\ ~Running
  /\ ArmedSessions = {} \/ ~dark
  /\ backoff' = FALSE
  /\ UNCHANGED <<store, engine, ladder, stowed, stowing, connected>>

AnotherNight(s) == s \in SingleNight /\ disk[s].last \notin {0, night}

(* _disarm_single_night *)
TickSingleNight(s) ==
  /\ Ticks(s) /\ dark /\ AnotherNight(s)
  /\ Unlocked
  /\ disk' = WriteDisarm(disk, s)
  /\ UNCHANGED <<worker, night, dark, engine, ladder, service>>

GivesUp(s) == disk[s].crashes >= GiveUpAfter

(* _give_up_and_stow, once for a session: the copy this tick read is disarmed, *)
TickGivesUp(s) ==
  /\ Ticks(s) /\ dark /\ ~AnotherNight(s) /\ GivesUp(s)
  /\ stowed # s
  /\ stowed' = s
  /\ section' = [kind |-> "give up", s |-> s, seen |-> <<>>,
                 file |-> [disk[s] EXCEPT !.auto = FALSE], by |-> "auto"]
  /\ UNCHANGED <<store, run, aborting, route, mount, known, ladder, backoff, stowing, connected>>

(* and saved, and the rig is put away. *)
GiveUpSave ==
  /\ section.kind = "give up" /\ Unlocked
  /\ disk' = [disk EXCEPT ![section.s] = section.file]
  /\ section' = NoSection /\ stowing' = TRUE
  /\ UNCHANGED <<worker, night, dark, run, aborting, route, mount, known, ladder,
                 backoff, stowed, connected>>

StowEnds ==
  /\ LoopFree /\ stowing /\ stowing' = FALSE
  /\ mount' \in {"parked", mount}
  /\ UNCHANGED <<store, run, section, aborting, route, known, ladder, backoff, stowed, connected>>

Willing(s) == Ticks(s) /\ dark /\ ~AnotherNight(s) /\ ~GivesUp(s) /\ ~backoff

(* The plan's own gates, the weather's veto, a pending restart: a ten-minute   *)
(* hold before anything moves.                                                 *)
TickHeld(s) ==
  /\ Willing(s) /\ Faulty
  /\ backoff' = TRUE
  /\ UNCHANGED <<store, engine, arm, stowed, stowing, connected>>

(* The ladder goes up, and the flag the start routes read with it. *)
TickRecovers(s) ==
  /\ Willing(s) /\ connected
  /\ arm' = [NoLadder EXCEPT !.on = TRUE, !.s = s, !.step = "safety"]
  /\ UNCHANGED <<store, engine, events, service>>

(* _still_startable: asked of the session as it is now. *)
StillStartable(s) == ~Running /\ IsArmed(s)

(* The ladder is down. Stopped: stood down. Refused: held, and retried. Else   *)
(* the session is read again and started under the lock, or stood down, or the *)
(* start itself is refused.                                                    *)
StoodDown ==
  /\ arm.stop \/ (arm.result \in {"none", "fit"} /\ Unlocked /\ ~StillStartable(arm.s))
  /\ Fine
  /\ UNCHANGED <<store, engine, backoff>>

Held ==
  /\ ~arm.stop
  /\ \/ arm.result \in {"refused", "not parked", "halted"} /\ Fine
     \/ /\ arm.result \in {"none", "fit"} /\ Unlocked /\ StillStartable(arm.s)
        /\ IF connected THEN Faulty ELSE Fine
  /\ backoff' = TRUE
  /\ UNCHANGED <<store, engine>>

Resumed ==
  /\ ~arm.stop /\ arm.result \in {"none", "fit"} /\ StillStartable(arm.s)
  /\ connected
  /\ StartLocked(arm.s, "auto")
  /\ backoff' = FALSE /\ Fine

LadderDown ==
  /\ At("returned")
  /\ arm' = NoLadder
  /\ StoodDown \/ Held \/ Resumed
  /\ UNCHANGED <<stowed, stowing, connected>>

(* Mutant: only dawn ends a hold. *)
BackoffEnds_Dawn ==
  /\ ~dark /\ backoff /\ backoff' = FALSE
  /\ UNCHANGED <<store, engine, ladder, stowed, stowing, connected>>

(* The ten minutes of a hold are over. *)
BackoffEnds ==
  /\ backoff /\ backoff' = FALSE
  /\ UNCHANGED <<store, engine, ladder, stowed, stowing, connected>>
================================================================================

------------------------------ MODULE SessionStore ------------------------------
(* sequence/session.py: the session files, what is read from them and how they *)
(* are written. A file is written whole; _write_lock keeps a write whole, and  *)
(* write_locked keeps a read and the write that follows it together.           *)
EXTENDS Naturals, FiniteSets

CONSTANTS
  Sessions,      \* the sessions of the rig
  NoSession,     \* no session
  Quota,         \* the frames a session's plan asks for
  SingleNight,   \* the sessions whose plan does not resume across nights
  MaxNights      \* bound: the nights of a behaviour

ASSUME SessionStoreAssumption ==
  /\ NoSession \notin Sessions
  /\ Quota \in Nat \ {0} /\ MaxNights \in Nat \ {0}
  /\ SingleNight \subseteq Sessions

VARIABLES
  disk,     \* the file of each session
  worker,   \* the PATCH on its worker thread, holding _write_lock: [op, s]
  night,    \* which night it is
  dark      \* the window of the armed session is open

store == <<disk, worker, night, dark>>

Missing == [status |-> "none", auto |-> FALSE, frames |-> 0, crashes |-> 0,
            behind |-> NoSession, last |-> 0]
Idle == [op |-> "none", s |-> NoSession]

StoreInit ==
  /\ \E armed \in Sessions \cup {NoSession} :
       disk = [s \in Sessions |->
                 [Missing EXCEPT !.status = "dormant", !.auto = (s = armed)]]
  /\ worker = Idle
  /\ night = 1 /\ dark = TRUE

Unlocked == worker = Idle

(* is_armed: dormant, with auto_resume on. *)
IsArmed(s) == disk[s].status = "dormant" /\ disk[s].auto

(* armed: the most recently written of them, any of them here. *)
ArmedSessions == {s \in Sessions : IsArmed(s)}

Owed(f) == Quota - f.frames

(* Mutant: a second session may stay armed. *)
ArmExclusively_Also(d, s) == [d EXCEPT ![s].auto = TRUE]

(* _arm_exclusively: the singleton. *)
ArmExclusively(d, s) == [t \in Sessions |-> [d[t] EXCEPT !.auto = (t = s)]]

(* _write_disarm: locked, on a fresh read; nothing left to disarm is no error. *)
WriteDisarm(d, s) ==
  IF d[s].status = "none" THEN d ELSE [d EXCEPT ![s].auto = FALSE]

(* boot_sweep: what the last process left active is dormant, and a crash.      *)
BootSweep(d) ==
  [s \in Sessions |-> IF d[s].status = "active"
                      THEN [d[s] EXCEPT !.status = "dormant", !.crashes = @ + 1]
                      ELSE d[s]]

(* window_open: the window closes at dawn and opens with the next night.       *)
WindowCloses ==
  /\ dark /\ dark' = FALSE
  /\ UNCHANGED <<disk, worker, night>>

WindowOpens ==
  /\ ~dark /\ dark' = TRUE
  /\ night < MaxNights /\ night' = night + 1
  /\ UNCHANGED <<disk, worker>>
================================================================================

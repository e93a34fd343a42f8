------------------------------- MODULE InstallRoot -------------------------------
(***************************************************************************)
(* What the supervisor and the server share: the files under the install   *)
(* root (supervisor/protocol.py Layout, update/protocol.py InstallLayout), *)
(* the one virtual environment all releases run in, and the operating      *)
(* system's table of server processes with the listening port.             *)
(*                                                                         *)
(* A version is a natural number (the order is semantic-version order).    *)
(* A virtual environment is named by the dependency set it holds, or is    *)
(* Mixed while, or after, a pip run that did not complete.                 *)
(***************************************************************************)
EXTENDS Naturals, FiniteSets

CONSTANTS
  Versions,        \* releases that can exist, as natural numbers
  Initial,         \* the version installed by hand, trusted on first start
  Broken,          \* builds that never answer /healthz
  DepSets, Deps,   \* dependency sets, and the one each version ships with
  Procs,           \* process slots
  None, Mixed,
  MaxOsErrors,     \* bound: failed OS calls and failed pip runs
  MaxPowerLosses,  \* bound: power losses
  MaxCrashes       \* bound: server crashes without a cause, cancelled applies

ASSUME VersionsAssumption ==
  /\ Versions \subseteq Nat
  /\ Initial \in Versions
  /\ Broken \subseteq Versions
  /\ Initial \notin Broken
ASSUME DepsAssumption == Deps \in [Versions -> DepSets]
ASSUME NoneAssumption ==
  /\ None \notin Versions /\ None \notin DepSets /\ None \notin Procs
  /\ Mixed \notin DepSets /\ Mixed # None
ASSUME BoundsAssumption ==
  MaxOsErrors \in Nat /\ MaxPowerLosses \in Nat /\ MaxCrashes \in Nat

VARIABLES
  current, lastGood,   \* the two version pointers
  pending,             \* pending-update.json: the version asked for, or None
  result,              \* update-result.json, or None
  failed,              \* markers under state/failed/
  releases,            \* staged release directories
  freeze,              \* rollback-freeze.txt: the venv it describes, or None
  venv,                \* the shared virtual environment
  pip,                 \* the version a server's pip run is installing, or None
  pst, pver, code,     \* per process: status, version it runs, exit code
  port,                \* the process listening, or None
  child,               \* the process the supervisor holds a handle on, or None
  osErrs, losses, crashes

disk  == <<current, lastGood, pending, result, failed, releases, freeze,
           venv, pip>>
procs == <<pst, pver, code, port, child>>
faults == <<osErrs, losses, crashes>>

Results  == [ok : BOOLEAN, version : Versions]
Statuses == {"free", "booting", "up", "exited"}
Codes    == {"stop", "apply", "crash"}

RootTypeOK ==
  /\ current \in Versions
  /\ lastGood \in Versions \cup {None}
  /\ pending \in Versions \cup {None}
  /\ result \in Results \cup {None}
  /\ failed \in SUBSET Versions
  /\ releases \in SUBSET Versions
  /\ freeze \in DepSets \cup {Mixed, None}
  /\ venv \in DepSets \cup {Mixed}
  /\ pip \in Versions \cup {None}
  /\ pst \in [Procs -> Statuses]
  /\ pver \in [Procs -> Versions]
  /\ code \in [Procs -> Codes]
  /\ port \in Procs \cup {None}
  /\ child \in Procs \cup {None}
  /\ osErrs \in 0..MaxOsErrors
  /\ losses \in 0..MaxPowerLosses
  /\ crashes \in 0..MaxCrashes

(* A fresh install: one release staged, `current` seeded, nothing running. *)
RootInit ==
  /\ current = Initial
  /\ lastGood = None
  /\ pending = None
  /\ result = None
  /\ failed = {}
  /\ releases = {Initial}
  /\ freeze = None
  /\ venv = Deps[Initial]
  /\ pip = None
  /\ pst = [p \in Procs |-> "free"]
  /\ pver = [p \in Procs |-> Initial]
  /\ code = [p \in Procs |-> "stop"]
  /\ port = None
  /\ child = None
  /\ osErrs = 0
  /\ losses = 0
  /\ crashes = 0

Alive(p) == pst[p] \in {"booting", "up"}

(* The OS reports an exit: a child stays to be waited for, a process nobody *)
(* holds a handle on just disappears. The port is released either way.      *)
Exit(p, c) ==
  /\ pst' = [pst EXCEPT ![p] = IF p = child THEN "exited" ELSE "free"]
  /\ code' = [code EXCEPT ![p] = c]
  /\ port' = IF port = p THEN None ELSE port
  /\ UNCHANGED <<pver, child>>

(* A step that may fail with an OSError the code contains. *)
OsErrorLeft == osErrs < MaxOsErrors
=================================================================================

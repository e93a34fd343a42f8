---------------------------- MODULE SelfUpdateProofs ----------------------------
(***************************************************************************)
(* What the self-update promises for every set of versions and processes:  *)
(*  - with no failing OS call (MaxOsErrors = 0), whatever the number of    *)
(*    power losses and crashes: Inv;                                       *)
(*  - with no power loss, whatever the number of failing OS calls and      *)
(*    crashes: HealthInv, that nothing unproved runs off probation;        *)
(*  - with neither: NotFailed, that no failed version is started again;    *)
(*  - with one failing OS call alone: UsableInv.                           *)
(* Under more faults at once the promises are broken, see README.md.       *)
(***************************************************************************)
EXTENDS SelfUpdate, TLAPS

WithChild == {"probe", "commit_good", "commit_result", "commit_freeze", "wait"}
OnProbation == {"probe", "commit_good", "commit_result", "commit_freeze",
                "rb_mark", "rb_result", "rb_restore", "rb_restoring", "rb_current"}

(* The supervisor holds the handle of the only server, at the points where  *)
(* it waits for it, and of none elsewhere; who listens has come up.         *)
ChildInv ==
  /\ spc \in WithChild => child # None /\ pst[child] # "free" /\ pver[child] = target
  /\ spc \notin WithChild => child = None
  /\ \A p \in Procs : pst[p] # "free" => p = child
  /\ port # None => pst[port] = "up" /\ pver[port] \notin Broken

(* What the supervisor remembers agrees with the files it writes.           *)
MemoryInv ==
  /\ spc # "down" => target = current /\ good = lastGood
  /\ lastGood = None => spc = "down" /\ current = Initial /\ failed = {}
  /\ lastGood # None => lastGood <= current
  /\ spc \in OnProbation => probing
  /\ spc \in {"wait", "apply"} => ~probing
  /\ spc = "rb_restoring" => freeze # None
  /\ spc \in {"launch", "probe", "commit_good"} /\ probing => target \notin failed
  /\ spc \in {"launch", "probe", "commit_good", "rb_mark"} /\ probing => target > good
  /\ spc = "commit_good" => target \notin Broken

(* What is staged or asked for is newer than what `current` names.          *)
RequestInv ==
  /\ port # None /\ job # "idle" => offer > current
  /\ pending # None => pending > current
  /\ spc = "apply" => pending = None /\ (nv # None => nv > current)

StagedInv ==
  /\ CurrentStaged
  /\ lastGood # None => lastGood \in releases

Core ==
  /\ ChildInv
  /\ MemoryInv
  /\ RequestInv
  /\ StagedInv
  /\ RollbackTargetHealthy
  /\ LastGoodNotFailed

Inv == TypeOK /\ Core

(* The type invariant holds whatever fails: it does not need MaxOsErrors = 0. *)
TypeInv == TypeOK /\ (spc = "rb_restoring" => freeze # None)

(* The initial state has the right types. *)
LEMMA TypeInit == Init => TypeInv
<1> SUFFICES ASSUME Init PROVE TypeInv
  OBVIOUS
<1>1. RootTypeOK
  BY VersionsAssumption, DepsAssumption, BoundsAssumption
  DEF Init, RootInit, RootTypeOK, Statuses, Codes
<1>2. SupTypeOK
  BY VersionsAssumption DEF Init, SupInit, SupTypeOK, SupPCs
<1>3. SvcTypeOK
  BY VersionsAssumption DEF Init, SvcInit, SvcTypeOK, Jobs
<1> QED
  BY <1>1, <1>2, <1>3 DEF Init, SupInit, TypeInv, TypeOK

(* Every step keeps the type invariant. *)
LEMMA TypeStep == TypeInv /\ [Next]_vars => TypeInv'
<1> SUFFICES ASSUME TypeInv, [Next]_vars PROVE TypeInv'
  OBVIOUS
<1> USE VersionsAssumption, DepsAssumption, NoneAssumption, BoundsAssumption
    DEF TypeInv, TypeOK, RootTypeOK, SupTypeOK, SvcTypeOK, SupPCs, Jobs, Statuses,
        Codes, Results, disk, procs, faults, sup, svc, OsErrorLeft
<1>1. CASE UNCHANGED vars
  BY <1>1 DEF vars
<1>2. CASE PowerLoss
  BY <1>2 DEF PowerLoss
<1>3. ASSUME SupNext, UNCHANGED svc PROVE TypeInv'
  <2>1. CASE Start
    <3>1. RootTypeOK' BY <1>3, <2>1 DEF Start
    <3>2. SupTypeOK' BY <1>3, <2>1 DEF Start
    <3>3. SvcTypeOK' BY <1>3, <2>1 DEF Start
    <3>4. spc' # "rb_restoring" BY <1>3, <2>1 DEF Start
    <3> QED BY <3>1, <3>2, <3>3, <3>4
  <2>2. CASE StartMisread
    <3>1. RootTypeOK' BY <1>3, <2>2 DEF StartMisread
    <3>2. SupTypeOK' BY <1>3, <2>2 DEF StartMisread
    <3>3. SvcTypeOK' BY <1>3, <2>2 DEF StartMisread
    <3>4. spc' # "rb_restoring" BY <1>3, <2>2 DEF StartMisread
    <3> QED BY <3>1, <3>2, <3>3, <3>4
  <2>3. CASE Launch BY <1>3, <2>3 DEF Launch
  <2>4. CASE ProbeHealthy BY <1>3, <2>4 DEF ProbeHealthy
  <2>5. CASE ProbeUnhealthy
    <3>1. RootTypeOK' BY <1>3, <2>5 DEF ProbeUnhealthy
    <3>2. SupTypeOK' BY <1>3, <2>5 DEF ProbeUnhealthy
    <3>3. SvcTypeOK' BY <1>3, <2>5 DEF ProbeUnhealthy
    <3>4. spc' # "rb_restoring" BY <1>3, <2>5 DEF ProbeUnhealthy
    <3> QED BY <3>1, <3>2, <3>3, <3>4
  <2>6. CASE CommitLastGood BY <1>3, <2>6 DEF CommitLastGood
  <2>7. CASE CommitResult BY <1>3, <2>7 DEF CommitResult
  <2>8. CASE CommitFreeze
    <3>1. RootTypeOK' BY <1>3, <2>8 DEF CommitFreeze, ClearFreeze
    <3>2. SupTypeOK' BY <1>3, <2>8 DEF CommitFreeze, ClearFreeze
    <3>3. SvcTypeOK' BY <1>3, <2>8 DEF CommitFreeze, ClearFreeze
    <3>4. spc' # "rb_restoring" BY <1>3, <2>8 DEF CommitFreeze, ClearFreeze
    <3> QED BY <3>1, <3>2, <3>3, <3>4
  <2>9. CASE RollbackMark BY <1>3, <2>9 DEF RollbackMark
  <2>10. CASE RollbackResult BY <1>3, <2>10 DEF RollbackResult
  <2>11. CASE RestoreBegin BY <1>3, <2>11 DEF RestoreBegin
  <2>12. CASE RestoreEnd BY <1>3, <2>12 DEF RestoreEnd, ClearFreeze
  <2>13. CASE RestoreFails BY <1>3, <2>13 DEF RestoreFails
  <2>14. CASE RollbackCurrent
    <3>1. RootTypeOK' BY <1>3, <2>14 DEF RollbackCurrent
    <3>2. SupTypeOK' BY <1>3, <2>14 DEF RollbackCurrent
    <3>3. SvcTypeOK' BY <1>3, <2>14 DEF RollbackCurrent
    <3>4. spc' # "rb_restoring" BY <1>3, <2>14 DEF RollbackCurrent
    <3> QED BY <3>1, <3>2, <3>3, <3>4
  <2>15. CASE ChildExits BY <1>3, <2>15 DEF ChildExits
  <2>16. CASE ApplyPending BY <1>3, <2>16 DEF ApplyPending, Applicable
  <2>17. CASE RejectPending
    <3>a. CASE nv = None BY <1>3, <2>17, <3>a DEF RejectPending
    <3>b. CASE nv # None
      <4>1. result' = [ok |-> FALSE, version |-> nv] BY <2>17, <3>b DEF RejectPending
      <4>2. result' \in Results BY <3>b, <4>1
      <4>3. /\ freeze' \in DepSets \cup {Mixed, None}
            /\ osErrs' \in 0..MaxOsErrors
        BY <2>17, <3>b DEF RejectPending, ClearFreeze
      <4> QED BY <1>3, <2>17, <4>2, <4>3 DEF RejectPending
    <3> QED BY <3>a, <3>b
  <2>18. CASE ContainError BY <1>3, <2>18 DEF ContainError
  <2> QED
    BY <1>3, <2>1, <2>2, <2>3, <2>4, <2>5, <2>6, <2>7, <2>8, <2>9, <2>10, <2>11,
       <2>12, <2>13, <2>14, <2>15, <2>16, <2>17, <2>18 DEF SupNext
<1>4. ASSUME SvcNext, UNCHANGED sup PROVE TypeInv'
  <2>1. ASSUME NEW p \in Procs, BootUp(p) PROVE TypeInv' BY <1>4, <2>1 DEF BootUp
  <2>2. ASSUME NEW p \in Procs, BootFail(p) PROVE TypeInv'
    BY <1>4, <2>2 DEF BootFail, Exit
  <2>3. ASSUME NEW p \in Procs, Crash(p) PROVE TypeInv' BY <1>4, <2>3 DEF Crash, Exit
  <2>4. CASE OperatorStop
    <3>1. RootTypeOK' BY <1>4, <2>4 DEF OperatorStop, Exit
    <3>2. SupTypeOK' BY <1>4, <2>4 DEF OperatorStop, Exit
    <3>3. SvcTypeOK' BY <1>4, <2>4 DEF OperatorStop, Exit
    <3>4. UNCHANGED <<spc, freeze>> BY <1>4, <2>4 DEF OperatorStop, Exit
    <3> QED BY <3>1, <3>2, <3>3, <3>4
  <2>5. CASE WatchResult
    <3>1. RootTypeOK' BY <1>4, <2>5 DEF WatchResult
    <3>2. SupTypeOK' BY <1>4, <2>5 DEF WatchResult
    <3>3. SvcTypeOK' BY <1>4, <2>5 DEF WatchResult
    <3>4. UNCHANGED <<spc, freeze>> BY <1>4, <2>5 DEF WatchResult
    <3> QED BY <3>1, <3>2, <3>3, <3>4
  <2>6. CASE WatchExpires
    <3>1. RootTypeOK' BY <1>4, <2>6 DEF WatchExpires
    <3>2. SupTypeOK' BY <1>4, <2>6 DEF WatchExpires
    <3>3. SvcTypeOK' BY <1>4, <2>6 DEF WatchExpires
    <3>4. UNCHANGED <<spc, freeze>> BY <1>4, <2>6 DEF WatchExpires
    <3> QED BY <3>1, <3>2, <3>3, <3>4
  <2>7. CASE Publish BY <1>4, <2>7 DEF Publish
  <2>8. CASE UseRig BY <1>4, <2>8 DEF UseRig
  <2>9. CASE Apply BY <1>4, <2>9 DEF Apply
  <2>10. CASE CancelApply BY <1>4, <2>10 DEF CancelApply, pipeline
  <2>11. CASE StageBegin BY <1>4, <2>11 DEF StageBegin, pipeline
  <2>12. CASE StageEnd BY <1>4, <2>12 DEF StageEnd, pipeline
  <2>13. CASE WritePending BY <1>4, <2>13 DEF WritePending, pipeline
  <2>14. CASE Snapshot BY <1>4, <2>14 DEF Snapshot, pipeline
  <2>15. CASE ReconcileBegin BY <1>4, <2>15 DEF ReconcileBegin, pipeline
  <2>16. CASE PipDone BY <1>4, <2>16 DEF PipDone
  <2>17. CASE PipFails BY <1>4, <2>17 DEF PipFails
  <2>18. CASE RequestApplyExit BY <1>4, <2>18 DEF RequestApplyExit, pipeline
  <2>19. CASE ExitApply
    <3>1. RootTypeOK' BY <1>4, <2>19 DEF ExitApply, Exit
    <3>2. SupTypeOK' BY <1>4, <2>19 DEF ExitApply, Exit
    <3>3. SvcTypeOK' BY <1>4, <2>19 DEF ExitApply, Exit
    <3>4. UNCHANGED <<spc, freeze>> BY <1>4, <2>19 DEF ExitApply, Exit
    <3> QED BY <3>1, <3>2, <3>3, <3>4
  <2>20. CASE AbortApply BY <1>4, <2>20 DEF AbortApply, pipeline
  <2> QED
    BY <1>4, <2>1, <2>2, <2>3, <2>4, <2>5, <2>6, <2>7, <2>8, <2>9, <2>10, <2>11,
       <2>12, <2>13, <2>14, <2>15, <2>16, <2>17, <2>18, <2>19, <2>20
    DEF SvcNext, Pipeline
<1> QED
  BY <1>1, <1>2, <1>3, <1>4 DEF Next

(* Every variable of the supervisor, of the server and of the files keeps its *)
(* type, whatever fails and whenever.                                         *)
THEOREM TypeCorrect == Spec => []TypeOK
<1>1. TypeInv => TypeOK BY DEF TypeInv
<1> QED
  BY <1>1, TypeInit, TypeStep, PTL DEF Spec

(* The invariant holds initially. *)
LEMMA InvInit == Init => Inv
<1> SUFFICES ASSUME Init PROVE Inv
  OBVIOUS
<1> USE VersionsAssumption DEF Init, RootInit, SupInit, SvcInit
<1>1. TypeOK BY TypeInit DEF TypeInv
<1>2. ChildInv BY DEF ChildInv, WithChild
<1>3. MemoryInv BY DEF MemoryInv, OnProbation
<1>4. RequestInv BY DEF RequestInv
<1>5. StagedInv BY DEF StagedInv, CurrentStaged
<1>6. RollbackTargetHealthy /\ LastGoodNotFailed
  BY DEF RollbackTargetHealthy, LastGoodNotFailed
<1> QED
  BY <1>1, <1>2, <1>3, <1>4, <1>5, <1>6 DEF Inv, Core

(* Without failing OS calls, every step keeps it. *)
LEMMA InvStep ==
  ASSUME MaxOsErrors = 0
  PROVE  Inv /\ [Next]_vars => Inv'
<1> SUFFICES ASSUME Inv, [Next]_vars PROVE Core'
  BY TypeStep DEF Inv, Core, MemoryInv, TypeInv
<1> USE VersionsAssumption, DepsAssumption, NoneAssumption
    DEF Inv, Core, TypeOK, RootTypeOK, SupTypeOK, SvcTypeOK, SupPCs, Jobs, Statuses,
        Codes, disk, procs, faults, sup, svc, ChildInv, WithChild, OnProbation,
        MemoryInv, RequestInv, StagedInv, CurrentStaged, RollbackTargetHealthy,
        LastGoodNotFailed
<1>0. ~OsErrorLeft
  BY DEF OsErrorLeft
<1>1. CASE UNCHANGED vars
  BY <1>1 DEF vars
<1>2. CASE PowerLoss
  BY <1>2 DEF PowerLoss
<1>3. ASSUME SupNext, UNCHANGED svc PROVE Core'
  <2>1. CASE Start BY <1>0, <1>3, <2>1 DEF Start
  <2>2. CASE StartMisread BY <1>0, <2>2 DEF StartMisread
  <2>3. CASE Launch BY <1>0, <1>3, <2>3 DEF Launch
  <2>4. CASE ProbeHealthy BY <1>0, <1>3, <2>4 DEF ProbeHealthy, Health, Alive
  <2>5. CASE ProbeUnhealthy BY <1>0, <1>3, <2>5 DEF ProbeUnhealthy
  <2>6. CASE CommitLastGood BY <1>0, <1>3, <2>6 DEF CommitLastGood
  <2>7. CASE CommitResult BY <1>0, <1>3, <2>7 DEF CommitResult
  <2>8. CASE CommitFreeze BY <1>0, <1>3, <2>8 DEF CommitFreeze, ClearFreeze
  <2>9. CASE RollbackMark BY <1>0, <1>3, <2>9 DEF RollbackMark
  <2>10. CASE RollbackResult BY <1>0, <1>3, <2>10 DEF RollbackResult
  <2>11. CASE RestoreBegin BY <1>0, <1>3, <2>11 DEF RestoreBegin
  <2>12. CASE RestoreEnd BY <1>0, <1>3, <2>12 DEF RestoreEnd, ClearFreeze
  <2>13. CASE RestoreFails BY <1>0, <2>13 DEF RestoreFails
  <2>14. CASE RollbackCurrent BY <1>0, <1>3, <2>14 DEF RollbackCurrent
  <2>15. CASE ChildExits BY <1>0, <1>3, <2>15 DEF ChildExits
  <2>16. CASE ApplyPending BY <1>0, <1>3, <2>16 DEF ApplyPending, Applicable
  <2>17. CASE RejectPending BY <1>0, <1>3, <2>17 DEF RejectPending, ClearFreeze
  <2>18. CASE ContainError BY <1>0, <2>18 DEF ContainError
  <2> QED
    BY <1>3, <2>1, <2>2, <2>3, <2>4, <2>5, <2>6, <2>7, <2>8, <2>9, <2>10,
       <2>11, <2>12, <2>13, <2>14, <2>15, <2>16, <2>17, <2>18 DEF SupNext
<1>4. ASSUME SvcNext, UNCHANGED sup PROVE Core'
  <2>1. ASSUME NEW p \in Procs, BootUp(p) PROVE Core'
    BY <1>0, <1>4, <2>1 DEF BootUp
  <2>2. ASSUME NEW p \in Procs, BootFail(p) PROVE Core'
    BY <1>0, <1>4, <2>2 DEF BootFail, Exit
  <2>3. ASSUME NEW p \in Procs, Crash(p) PROVE Core'
    BY <1>0, <1>4, <2>3 DEF Crash, Exit, Alive
  <2>4. CASE OperatorStop BY <1>0, <1>4, <2>4 DEF OperatorStop, Exit, Serving
  <2>5. CASE WatchResult BY <1>0, <1>4, <2>5 DEF WatchResult
  <2>6. CASE WatchExpires BY <1>0, <1>4, <2>6 DEF WatchExpires
  <2>7. CASE Publish BY <1>0, <1>4, <2>7 DEF Publish
  <2>8. CASE UseRig BY <1>0, <1>4, <2>8 DEF UseRig
  <2>9. CASE Apply BY <1>0, <1>4, <2>9 DEF Apply, Newer, Serving
  <2>10. CASE CancelApply BY <1>0, <1>4, <2>10 DEF CancelApply, pipeline, Serving
  <2>11. CASE StageBegin BY <1>0, <1>4, <2>11 DEF StageBegin, pipeline, Serving
  <2>12. CASE StageEnd BY <1>0, <1>4, <2>12 DEF StageEnd, pipeline, Serving
  <2>13. CASE WritePending BY <1>0, <1>4, <2>13 DEF WritePending, pipeline, Serving
  <2>14. CASE Snapshot BY <1>0, <1>4, <2>14 DEF Snapshot, pipeline, Serving
  <2>15. CASE ReconcileBegin
    BY <1>0, <1>4, <2>15 DEF ReconcileBegin, pipeline, Serving
  <2>16. CASE PipDone BY <1>0, <1>4, <2>16 DEF PipDone
  <2>17. CASE PipFails BY <1>0, <2>17 DEF PipFails
  <2>18. CASE RequestApplyExit
    BY <1>0, <1>4, <2>18 DEF RequestApplyExit, pipeline, Serving
  <2>19. CASE ExitApply BY <1>0, <1>4, <2>19 DEF ExitApply, Exit
  <2>20. CASE AbortApply BY <1>0, <1>4, <2>20 DEF AbortApply, pipeline, Serving
  <2> QED
    BY <1>4, <2>1, <2>2, <2>3, <2>4, <2>5, <2>6, <2>7, <2>8, <2>9, <2>10,
       <2>11, <2>12, <2>13, <2>14, <2>15, <2>16, <2>17, <2>18, <2>19, <2>20
       DEF SvcNext, Pipeline
<1> QED
  BY <1>1, <1>2, <1>3, <1>4 DEF Next

(* The invariant the four theorems below read their property from. *)
LEMMA Invariance ==
  ASSUME MaxOsErrors = 0
  PROVE  Spec => []Inv
<1>1. Inv /\ [Next]_vars => Inv'
  BY InvStep
<1> QED
  BY <1>1, InvInit, PTL DEF Spec

(* run_forever never takes, as the version to roll back to, a build that     *)
(* cannot come up, however often the power fails and whatever is released.   *)
THEOREM RollbackTargetCorrect ==
  ASSUME MaxOsErrors = 0
  PROVE  Spec => []RollbackTargetHealthy
<1>1. Inv => RollbackTargetHealthy
  BY DEF Inv, Core
<1> QED
  BY <1>1, Invariance, PTL

(* The file `last-good` never names a version marked under failed/.          *)
THEOREM LastGoodCorrect ==
  ASSUME MaxOsErrors = 0
  PROVE  Spec => []LastGoodNotFailed
<1>1. Inv => LastGoodNotFailed
  BY DEF Inv, Core
<1> QED
  BY <1>1, Invariance, PTL

(* No server runs without the supervisor holding its handle.                 *)
THEOREM SupervisedCorrect ==
  ASSUME MaxOsErrors = 0
  PROVE  Spec => []Supervised
<1>1. Inv => Supervised
  BY DEF Inv, Core, ChildInv, Supervised, Alive
<1> QED
  BY <1>1, Invariance, PTL

(* stage_release never removes the tree `current` names.                     *)
THEOREM CurrentStagedCorrect ==
  ASSUME MaxOsErrors = 0
  PROVE  Spec => []CurrentStaged
<1>1. Inv => CurrentStaged
  BY DEF Inv, Core, StagedInv
<1> QED
  BY <1>1, Invariance, PTL

---------------------------------------------------------------------------------
(* With failing OS calls and crashes, as many as there may be, and no power  *)
(* loss: what the supervisor remembers is what it wrote, and a version it    *)
(* has not proved healthy is on probation.                                   *)
HealthInv ==
  /\ port # None => pst[port] = "up" /\ pver[port] \notin Broken
  /\ spc # "down" => target = current /\ good = lastGood
  /\ spc = "down" => current = Initial /\ lastGood = None
  /\ spc \in {"commit_good", "commit_result", "commit_freeze"} => target \notin Broken
  /\ ~probing => target \notin Broken
  /\ spc \in {"wait", "apply", "stopped", "down"} => ~probing
  /\ RollbackTargetHealthy

HealthTyped == TypeInv /\ HealthInv

(* It holds initially. *)
LEMMA HealthInit == Init => HealthTyped
<1> SUFFICES ASSUME Init PROVE HealthInv
  BY TypeInit DEF HealthTyped
<1> QED
  BY VersionsAssumption
  DEF Init, RootInit, SupInit, SvcInit, HealthInv, RollbackTargetHealthy

(* Without a power loss every step keeps it, the contained errors included.  *)
LEMMA HealthStep ==
  ASSUME MaxPowerLosses = 0
  PROVE  HealthTyped /\ [Next]_vars => HealthTyped'
<1> SUFFICES ASSUME HealthTyped, [Next]_vars PROVE HealthInv'
  BY TypeStep DEF HealthTyped
<1> USE VersionsAssumption, NoneAssumption
    DEF HealthTyped, TypeInv, TypeOK, RootTypeOK, SupTypeOK, SvcTypeOK, SupPCs, Jobs,
        Statuses, Codes, disk, procs, faults, sup, svc, HealthInv,
        RollbackTargetHealthy
<1>1. CASE UNCHANGED vars
  BY <1>1 DEF vars
<1>2. ~PowerLoss
  BY DEF PowerLoss
<1>3. ASSUME SupNext, UNCHANGED svc PROVE HealthInv'
  <2>1. CASE Start BY <1>3, <2>1 DEF Start
  <2>2. CASE StartMisread BY <1>3, <2>2 DEF StartMisread
  <2>3. CASE Launch BY <1>3, <2>3 DEF Launch
  <2>4. CASE ProbeHealthy BY <1>3, <2>4 DEF ProbeHealthy, Health, Alive
  <2>5. CASE ProbeUnhealthy BY <1>3, <2>5 DEF ProbeUnhealthy
  <2>6. CASE CommitLastGood BY <1>3, <2>6 DEF CommitLastGood
  <2>7. CASE CommitResult BY <1>3, <2>7 DEF CommitResult
  <2>8. CASE CommitFreeze BY <1>3, <2>8 DEF CommitFreeze, ClearFreeze
  <2>9. CASE RollbackMark BY <1>3, <2>9 DEF RollbackMark
  <2>10. CASE RollbackResult BY <1>3, <2>10 DEF RollbackResult
  <2>11. CASE RestoreBegin BY <1>3, <2>11 DEF RestoreBegin
  <2>12. CASE RestoreEnd BY <1>3, <2>12 DEF RestoreEnd, ClearFreeze
  <2>13. CASE RestoreFails BY <1>3, <2>13 DEF RestoreFails
  <2>14. CASE RollbackCurrent BY <1>3, <2>14 DEF RollbackCurrent
  <2>15. CASE ChildExits BY <1>3, <2>15 DEF ChildExits
  <2>16. CASE ApplyPending BY <1>3, <2>16 DEF ApplyPending, Applicable
  <2>17. CASE RejectPending BY <1>3, <2>17 DEF RejectPending, ClearFreeze
  <2>18. CASE ContainError BY <1>3, <2>18 DEF ContainError
  <2> QED
    BY <1>3, <2>1, <2>2, <2>3, <2>4, <2>5, <2>6, <2>7, <2>8, <2>9, <2>10,
       <2>11, <2>12, <2>13, <2>14, <2>15, <2>16, <2>17, <2>18
    DEF SupNext
<1>4. ASSUME SvcNext, UNCHANGED sup PROVE HealthInv'
  <2>1. ASSUME NEW p \in Procs, BootUp(p) PROVE HealthInv'
    BY <1>4, <2>1 DEF BootUp
  <2>2. ASSUME NEW p \in Procs, BootFail(p) PROVE HealthInv'
    BY <1>4, <2>2 DEF BootFail, Exit
  <2>3. ASSUME NEW p \in Procs, Crash(p) PROVE HealthInv'
    BY <1>4, <2>3 DEF Crash, Exit, Alive
  <2>4. CASE OperatorStop BY <1>4, <2>4 DEF OperatorStop, Exit, Serving
  <2>5. CASE WatchResult BY <1>4, <2>5 DEF WatchResult
  <2>6. CASE WatchExpires BY <1>4, <2>6 DEF WatchExpires
  <2>7. CASE Publish BY <1>4, <2>7 DEF Publish
  <2>8. CASE UseRig BY <1>4, <2>8 DEF UseRig
  <2>9. CASE Apply BY <1>4, <2>9 DEF Apply, Newer, Serving
  <2>10. CASE CancelApply BY <1>4, <2>10 DEF CancelApply, pipeline, Serving
  <2>11. CASE StageBegin BY <1>4, <2>11 DEF StageBegin, pipeline, Serving
  <2>12. CASE StageEnd BY <1>4, <2>12 DEF StageEnd, pipeline, Serving
  <2>13. CASE WritePending BY <1>4, <2>13 DEF WritePending, pipeline, Serving
  <2>14. CASE Snapshot BY <1>4, <2>14 DEF Snapshot, pipeline, Serving
  <2>15. CASE ReconcileBegin BY <1>4, <2>15 DEF ReconcileBegin, pipeline, Serving
  <2>16. CASE PipDone BY <1>4, <2>16 DEF PipDone
  <2>17. CASE PipFails BY <1>4, <2>17 DEF PipFails
  <2>18. CASE RequestApplyExit BY <1>4, <2>18 DEF RequestApplyExit, pipeline, Serving
  <2>19. CASE ExitApply BY <1>4, <2>19 DEF ExitApply, Exit
  <2>20. CASE AbortApply BY <1>4, <2>20 DEF AbortApply, pipeline, Serving
  <2> QED
    BY <1>4, <2>1, <2>2, <2>3, <2>4, <2>5, <2>6, <2>7, <2>8, <2>9, <2>10,
       <2>11, <2>12, <2>13, <2>14, <2>15, <2>16, <2>17, <2>18, <2>19, <2>20
    DEF SvcNext, Pipeline
<1> QED
  BY <1>1, <1>2, <1>3, <1>4 DEF Next

(* The invariant of the two theorems that follow. *)
LEMMA HealthInvariance ==
  ASSUME MaxPowerLosses = 0
  PROVE  Spec => []HealthTyped
<1>1. HealthTyped /\ [Next]_vars => HealthTyped'
  BY HealthStep
<1> QED
  BY <1>1, HealthInit, PTL DEF Spec

(* However many OS calls fail in the middle of an iteration, the version to  *)
(* roll back to, on disk and in memory, is one that comes up.                *)
THEOREM RollbackTargetSurvivesErrors ==
  ASSUME MaxPowerLosses = 0
  PROVE  Spec => []RollbackTargetHealthy
<1>1. HealthTyped => RollbackTargetHealthy
  BY DEF HealthTyped, HealthInv
<1> QED
  BY <1>1, HealthInvariance, PTL

(* ... and a release that cannot come up is only ever started on probation:  *)
(* an error contained at the end of an iteration (supervisor.py:230) keeps   *)
(* the probation for the next one.                                           *)
THEOREM BrokenOnlyProbed ==
  ASSUME MaxPowerLosses = 0
  PROVE  Spec => BrokenOnlyOnProbation
<1>1. HealthTyped => [Launch /\ target \in Broken => probing]_vars
  BY DEF HealthTyped, HealthInv
<1> QED
  BY <1>1, HealthInvariance, PTL DEF Spec, BrokenOnlyOnProbation

---------------------------------------------------------------------------------
(* Outside a rollback the version the supervisor works with is not marked.   *)
Unmarked == {"launch", "probe", "commit_good", "commit_result", "commit_freeze",
             "wait", "apply", "stopped"}
NotFailed == spc \in Unmarked => target \notin failed

(* Without failing OS calls and power losses every step keeps it.            *)
LEMMA NotFailedStep ==
  ASSUME MaxOsErrors = 0, MaxPowerLosses = 0
  PROVE  Inv /\ HealthTyped /\ NotFailed /\ [Next]_vars => NotFailed'
<1> SUFFICES ASSUME Inv, HealthTyped, NotFailed, [Next]_vars PROVE NotFailed'
  OBVIOUS
<1> USE VersionsAssumption, NoneAssumption
    DEF Inv, Core, LastGoodNotFailed, MemoryInv, HealthTyped, HealthInv, TypeOK,
        RootTypeOK, SupTypeOK, SupPCs, disk, sup, svc, NotFailed, Unmarked
<1>0. ~OsErrorLeft
  BY DEF OsErrorLeft
<1>1. CASE UNCHANGED vars
  BY <1>1 DEF vars
<1>2. ~PowerLoss
  BY DEF PowerLoss
<1>3. ASSUME SupNext, UNCHANGED svc PROVE NotFailed'
  <2>1. CASE Start BY <1>0, <1>3, <2>1 DEF Start
  <2>2. CASE StartMisread BY <1>0, <1>3, <2>2 DEF StartMisread
  <2>3. CASE Launch BY <1>0, <1>3, <2>3 DEF Launch
  <2>4. CASE ProbeHealthy BY <1>0, <1>3, <2>4 DEF ProbeHealthy, Health, Alive
  <2>5. CASE ProbeUnhealthy BY <1>0, <1>3, <2>5 DEF ProbeUnhealthy
  <2>6. CASE CommitLastGood BY <1>0, <1>3, <2>6 DEF CommitLastGood
  <2>7. CASE CommitResult BY <1>0, <1>3, <2>7 DEF CommitResult
  <2>8. CASE CommitFreeze BY <1>0, <1>3, <2>8 DEF CommitFreeze, ClearFreeze
  <2>9. CASE RollbackMark BY <1>0, <1>3, <2>9 DEF RollbackMark
  <2>10. CASE RollbackResult BY <1>0, <1>3, <2>10 DEF RollbackResult
  <2>11. CASE RestoreBegin BY <1>0, <1>3, <2>11 DEF RestoreBegin
  <2>12. CASE RestoreEnd BY <1>0, <1>3, <2>12 DEF RestoreEnd, ClearFreeze
  <2>13. CASE RestoreFails BY <1>0, <1>3, <2>13 DEF RestoreFails
  <2>14. CASE RollbackCurrent BY <1>0, <1>3, <2>14 DEF RollbackCurrent
  <2>15. CASE ChildExits BY <1>0, <1>3, <2>15 DEF ChildExits
  <2>16. CASE ApplyPending BY <1>0, <1>3, <2>16 DEF ApplyPending, Applicable
  <2>17. CASE RejectPending BY <1>0, <1>3, <2>17 DEF RejectPending, ClearFreeze
  <2>18. CASE ContainError BY <1>0, <1>3, <2>18 DEF ContainError
  <2> QED
    BY <1>3, <2>1, <2>2, <2>3, <2>4, <2>5, <2>6, <2>7, <2>8, <2>9, <2>10,
       <2>11, <2>12, <2>13, <2>14, <2>15, <2>16, <2>17, <2>18
    DEF SupNext
<1>4. ASSUME SvcNext, UNCHANGED sup PROVE NotFailed'
  <2>1. ASSUME NEW p \in Procs, BootUp(p) PROVE NotFailed'
    BY <1>0, <1>4, <2>1 DEF BootUp
  <2>2. ASSUME NEW p \in Procs, BootFail(p) PROVE NotFailed'
    BY <1>0, <1>4, <2>2 DEF BootFail, Exit
  <2>3. ASSUME NEW p \in Procs, Crash(p) PROVE NotFailed'
    BY <1>0, <1>4, <2>3 DEF Crash, Exit, Alive
  <2>4. CASE OperatorStop BY <1>0, <1>4, <2>4 DEF OperatorStop, Exit, Serving
  <2>5. CASE WatchResult BY <1>0, <1>4, <2>5 DEF WatchResult
  <2>6. CASE WatchExpires BY <1>0, <1>4, <2>6 DEF WatchExpires
  <2>7. CASE Publish BY <1>0, <1>4, <2>7 DEF Publish
  <2>8. CASE UseRig BY <1>0, <1>4, <2>8 DEF UseRig
  <2>9. CASE Apply BY <1>0, <1>4, <2>9 DEF Apply, Newer, Serving
  <2>10. CASE CancelApply BY <1>0, <1>4, <2>10 DEF CancelApply, pipeline, Serving
  <2>11. CASE StageBegin BY <1>0, <1>4, <2>11 DEF StageBegin, pipeline, Serving
  <2>12. CASE StageEnd BY <1>0, <1>4, <2>12 DEF StageEnd, pipeline, Serving
  <2>13. CASE WritePending BY <1>0, <1>4, <2>13 DEF WritePending, pipeline, Serving
  <2>14. CASE Snapshot BY <1>0, <1>4, <2>14 DEF Snapshot, pipeline, Serving
  <2>15. CASE ReconcileBegin BY <1>0, <1>4, <2>15 DEF ReconcileBegin, pipeline, Serving
  <2>16. CASE PipDone BY <1>0, <1>4, <2>16 DEF PipDone
  <2>17. CASE PipFails BY <1>0, <1>4, <2>17 DEF PipFails
  <2>18. CASE RequestApplyExit
    BY <1>0, <1>4, <2>18 DEF RequestApplyExit, pipeline, Serving
  <2>19. CASE ExitApply BY <1>0, <1>4, <2>19 DEF ExitApply, Exit
  <2>20. CASE AbortApply BY <1>0, <1>4, <2>20 DEF AbortApply, pipeline, Serving
  <2> QED
    BY <1>4, <2>1, <2>2, <2>3, <2>4, <2>5, <2>6, <2>7, <2>8, <2>9, <2>10,
       <2>11, <2>12, <2>13, <2>14, <2>15, <2>16, <2>17, <2>18, <2>19, <2>20
    DEF SvcNext, Pipeline
<1> QED
  BY <1>1, <1>2, <1>3, <1>4 DEF Next

(* A process starts in Launch and nowhere else. *)
LEMMA OnlyLaunchStarts ==
  ASSUME TypeInv, Next, NEW p \in Procs, pst[p] = "free", pst'[p] = "booting"
  PROVE  Launch
<1> USE NoneAssumption
    DEF TypeInv, TypeOK, RootTypeOK, Statuses, procs
<1>1. CASE SupNext
  BY <1>1
  DEF SupNext, Start, StartMisread, ProbeHealthy, ProbeUnhealthy, CommitLastGood,
      CommitResult, CommitFreeze, RollbackMark, RollbackResult, RestoreBegin,
      RestoreEnd, RestoreFails, RollbackCurrent, ChildExits, ApplyPending,
      RejectPending, ContainError
<1>2. CASE SvcNext
  BY <1>2
  DEF SvcNext, BootUp, BootFail, Crash, Exit, OperatorStop, WatchResult,
      WatchExpires, Publish, UseRig, Apply, CancelApply, Pipeline, StageBegin,
      StageEnd, WritePending, Snapshot, ReconcileBegin, PipDone, PipFails,
      RequestApplyExit, ExitApply, AbortApply
<1>3. CASE PowerLoss
  BY <1>3 DEF PowerLoss
<1> QED
  BY <1>1, <1>2, <1>3 DEF Next

(* "never retried" (protocol.py:19), for any number of crashes: a version    *)
(* marked failed is never started again, in whatever order releases are      *)
(* re-offered, staged, applied, stopped and crash.                           *)
THEOREM FailedNeverLaunchedAgain ==
  ASSUME MaxOsErrors = 0, MaxPowerLosses = 0
  PROVE  Spec => FailedNeverLaunched
<1>1. Init => NotFailed
  BY DEF Init, RootInit, NotFailed
<1>2. Inv /\ HealthTyped /\ NotFailed /\ [Next]_vars => NotFailed'
  BY NotFailedStep
<1>3. ASSUME Inv, NotFailed, Next, NEW p \in Procs,
             pst[p] = "free", pst'[p] = "booting"
      PROVE  pver'[p] \notin failed
  <2>1. Launch
    BY <1>3, OnlyLaunchStarts DEF Inv, Core, MemoryInv, TypeInv
  <2>2. pver'[p] = target
    BY <1>3, <2>1 DEF Launch, Inv, TypeOK, RootTypeOK, Statuses
  <2> QED
    BY <1>3, <2>1, <2>2 DEF Launch, NotFailed, Unmarked
<1>4. Inv /\ NotFailed /\ [Next]_vars =>
        [\A p \in Procs : pst[p] = "free" /\ pst'[p] = "booting"
                            => pver'[p] \notin failed]_vars
  BY <1>3
<1> QED
  BY <1>1, <1>2, <1>4, Invariance, HealthInvariance, PTL DEF Spec, FailedNeverLaunched

---------------------------------------------------------------------------------
(* One failing OS call, anywhere, and neither a power loss nor a crash. The  *)
(* failing call can leave a server without a handle, in the port, beside the *)
(* one the supervisor holds; or `current` behind `last-good`.                *)
OneChild == \A p \in Procs : pst[p] # "free" => p = child
ProcJ ==
  /\ spc \in WithChild => child # None /\ pst[child] # "free" /\ pver[child] = target
  /\ spc \notin WithChild => child = None
  /\ spc = "down" => port = None
  /\ port # None => pver[port] >= current
  /\ \A p \in Procs : pst[p] = "up" => port = p
  /\ \A p \in Procs : pst[p] # "free" => p = child \/ p = port
  /\ osErrs = 0 => OneChild
  /\ osErrs = 0 /\ spc \in {"commit_good", "commit_result"} => pst[child] # "booting"
  /\ spc \in OnProbation => probing

(* What is asked for, from the button to the supervisor that reads it, is    *)
(* newer than what runs and no older than what a rollback goes to.           *)
Leaving == child # None /\ pst[child] = "exited" /\ code[child] = "apply"
AskJ ==
  /\ port # None /\ job # "idle" =>
       offer > pver[port] /\ (lastGood # None => offer >= lastGood) /\ offer <= latest
  /\ port # None /\ job \in {"pending", "frozen", "reconciling", "exiting"} =>
       pending = offer
  /\ Leaving => /\ port = None
                /\ pending # None /\ pending > current /\ pending >= good
                /\ pending <= latest
  /\ spc = "apply" => /\ port = None
                      /\ nv # None /\ nv > current /\ nv >= good /\ nv <= latest

(* The trees: the one a rollback goes to may be away only while the server   *)
(* stages it anew, and then the supervisor waits for that server.            *)
StagedJ ==
  /\ current \in releases /\ Initial \in releases
  /\ Initial <= current /\ current <= latest
  /\ lastGood # None => Initial <= lastGood /\ lastGood <= latest
  /\ lastGood # None =>
       \/ lastGood \in releases
       \/ /\ lastGood > current
          /\ spc = "wait" /\ port = child /\ port # None
          /\ job = "staging" /\ offer = lastGood
  /\ lastGood # None /\ lastGood > current => ~probing /\ OneChild /\ osErrs = 1

UsableInv == HealthTyped /\ ProcJ /\ AskJ /\ StagedJ

(* It holds initially. *)
LEMMA UsableInit == Init => UsableInv
<1> SUFFICES ASSUME Init PROVE ProcJ /\ AskJ /\ StagedJ
  BY HealthInit DEF UsableInv
<1> USE VersionsAssumption, NoneAssumption DEF Init, RootInit, SupInit, SvcInit
<1>1. ProcJ BY DEF ProcJ, WithChild, OnProbation, OneChild
<1>2. AskJ BY DEF AskJ, Leaving
<1>3. StagedJ BY DEF StagedJ, OneChild
<1> QED
  BY <1>1, <1>2, <1>3

(* Every step keeps it. *)
LEMMA UsableStep ==
  ASSUME MaxOsErrors <= 1, MaxPowerLosses = 0, MaxCrashes = 0
  PROVE  UsableInv /\ [Next]_vars => UsableInv'
<1> SUFFICES ASSUME UsableInv, [Next]_vars PROVE ProcJ' /\ AskJ' /\ StagedJ'
  BY HealthStep DEF UsableInv
<1> USE VersionsAssumption, NoneAssumption, BoundsAssumption
    DEF UsableInv, HealthTyped, TypeInv, TypeOK, RootTypeOK, SupTypeOK, SvcTypeOK,
        SupPCs, Jobs, Statuses, Codes, disk, procs, faults, sup, svc, HealthInv,
        RollbackTargetHealthy, WithChild, OnProbation, OneChild, ProcJ, Leaving,
        AskJ, StagedJ, OsErrorLeft
<1>1. CASE UNCHANGED vars
  BY <1>1 DEF vars
<1>2. ~PowerLoss
  BY DEF PowerLoss
<1>3. ASSUME SupNext, UNCHANGED svc PROVE ProcJ' /\ AskJ' /\ StagedJ'
  <2>1. CASE Start
    <3>1. ProcJ' BY <1>3, <2>1 DEF Start
    <3>2. AskJ' BY <1>3, <2>1 DEF Start
    <3>3. StagedJ' BY <1>3, <2>1 DEF Start
    <3> QED BY <3>1, <3>2, <3>3
  <2>2. CASE StartMisread BY <1>3, <2>2 DEF StartMisread
  <2>3. CASE Launch BY <1>3, <2>3 DEF Launch
  <2>4. CASE ProbeHealthy BY <1>3, <2>4 DEF ProbeHealthy, Health, Alive
  <2>5. CASE ProbeUnhealthy BY <1>3, <2>5 DEF ProbeUnhealthy
  <2>6. CASE CommitLastGood
    <3>1. ProcJ' BY <1>3, <2>6 DEF CommitLastGood
    <3>a. port # None /\ job # "idle" => offer >= target
      <4>1. target = current /\ current \in Nat /\ offer \in Nat
        BY <2>6 DEF CommitLastGood
      <4>2. port # None => pver[port] \in Nat /\ pver[port] >= current
        OBVIOUS
      <4> QED
        BY <4>1, <4>2
    <3>b. Leaving => pending \in Nat /\ pending >= target
      BY <2>6 DEF CommitLastGood
    <3>2. AskJ' BY <1>3, <2>6, <3>a, <3>b DEF CommitLastGood
    <3>3. StagedJ' BY <1>3, <2>6 DEF CommitLastGood
    <3> QED BY <3>1, <3>2, <3>3
  <2>7. CASE CommitResult BY <1>3, <2>7 DEF CommitResult
  <2>8. CASE CommitFreeze BY <1>3, <2>8 DEF CommitFreeze, ClearFreeze
  <2>9. CASE RollbackMark BY <1>3, <2>9 DEF RollbackMark
  <2>10. CASE RollbackResult BY <1>3, <2>10 DEF RollbackResult
  <2>11. CASE RestoreBegin BY <1>3, <2>11 DEF RestoreBegin
  <2>12. CASE RestoreEnd BY <1>3, <2>12 DEF RestoreEnd, ClearFreeze
  <2>13. CASE RestoreFails BY <1>3, <2>13 DEF RestoreFails
  <2>14. CASE RollbackCurrent
    <3>a. /\ good = lastGood /\ good \in Nat /\ current \in Nat
          /\ ~(good > current)
      BY <2>14 DEF RollbackCurrent
    <3>b. port # None => pver[port] \in Nat /\ pver[port] >= current
      OBVIOUS
    <3>c. port # None => pver[port] >= good
      BY ONLY <3>a, <3>b
    <3>1. ProcJ' BY <1>3, <2>14, <3>c DEF RollbackCurrent
    <3>2. AskJ' BY <1>3, <2>14 DEF RollbackCurrent
    <3>3. StagedJ' BY <1>3, <2>14 DEF RollbackCurrent
    <3> QED BY <3>1, <3>2, <3>3
  <2>15. CASE ChildExits BY <1>3, <2>15 DEF ChildExits
  <2>16. CASE ApplyPending BY <1>3, <2>16 DEF ApplyPending, Applicable
  <2>17. CASE RejectPending BY <1>3, <2>17 DEF RejectPending, ClearFreeze
  <2>18. CASE ContainError BY <1>3, <2>18 DEF ContainError
  <2> QED
    BY <1>3, <2>1, <2>2, <2>3, <2>4, <2>5, <2>6, <2>7, <2>8, <2>9, <2>10,
       <2>11, <2>12, <2>13, <2>14, <2>15, <2>16, <2>17, <2>18
    DEF SupNext
<1>4. ASSUME SvcNext, UNCHANGED sup PROVE ProcJ' /\ AskJ' /\ StagedJ'
  <2>1. ASSUME NEW p \in Procs, BootUp(p) PROVE ProcJ' /\ AskJ' /\ StagedJ'
    BY <1>4, <2>1 DEF BootUp
  <2>2. ASSUME NEW p \in Procs, BootFail(p) PROVE ProcJ' /\ AskJ' /\ StagedJ'
    BY <1>4, <2>2 DEF BootFail, Exit
  <2>3. ASSUME NEW p \in Procs, Crash(p) PROVE ProcJ' /\ AskJ' /\ StagedJ'
    BY <1>4, <2>3 DEF Crash, Exit, Alive
  <2>4. CASE OperatorStop BY <1>4, <2>4 DEF OperatorStop, Exit, Serving
  <2>5. CASE WatchResult BY <1>4, <2>5 DEF WatchResult
  <2>6. CASE WatchExpires BY <1>4, <2>6 DEF WatchExpires
  <2>7. CASE Publish BY <1>4, <2>7 DEF Publish
  <2>8. CASE UseRig BY <1>4, <2>8 DEF UseRig
  <2>9. CASE Apply BY <1>4, <2>9 DEF Apply, Newer, Serving
  <2>10. CASE CancelApply BY <1>4, <2>10 DEF CancelApply, pipeline, Serving
  <2>11. CASE StageBegin
    <3>1. ProcJ' BY <1>4, <2>11 DEF StageBegin, pipeline, Serving
    <3>2. AskJ' BY <1>4, <2>11 DEF StageBegin, pipeline, Serving
    <3>a. offer > current /\ offer > Initial
      <4>1. Initial \in Nat /\ current \in Nat /\ offer \in Nat /\ pver[port] \in Nat
        BY <2>11 DEF StageBegin, Serving
      <4>2. offer > pver[port] /\ pver[port] >= current /\ Initial <= current
        BY <2>11 DEF StageBegin, Serving
      <4> QED
        BY <4>1, <4>2
    <3>b. current \in releases' /\ Initial \in releases'
      BY <2>11, <3>a DEF StageBegin
    <3>c. lastGood = offer => spc = "wait" /\ port = child
      BY <2>11, <3>a DEF StageBegin, Serving
    <3>3. StagedJ'
      BY <1>4, <2>11, <3>a, <3>b, <3>c DEF StageBegin, pipeline, Serving
    <3> QED BY <3>1, <3>2, <3>3
  <2>12. CASE StageEnd BY <1>4, <2>12 DEF StageEnd, pipeline, Serving
  <2>13. CASE WritePending BY <1>4, <2>13 DEF WritePending, pipeline, Serving
  <2>14. CASE Snapshot BY <1>4, <2>14 DEF Snapshot, pipeline, Serving
  <2>15. CASE ReconcileBegin BY <1>4, <2>15 DEF ReconcileBegin, pipeline, Serving
  <2>16. CASE PipDone BY <1>4, <2>16 DEF PipDone
  <2>17. CASE PipFails BY <1>4, <2>17 DEF PipFails
  <2>18. CASE RequestApplyExit BY <1>4, <2>18 DEF RequestApplyExit, pipeline, Serving
  <2>19. CASE ExitApply BY <1>4, <2>19 DEF ExitApply, Exit
  <2>20. CASE AbortApply BY <1>4, <2>20 DEF AbortApply, pipeline, Serving
  <2> QED
    BY <1>4, <2>1, <2>2, <2>3, <2>4, <2>5, <2>6, <2>7, <2>8, <2>9, <2>10,
       <2>11, <2>12, <2>13, <2>14, <2>15, <2>16, <2>17, <2>18, <2>19, <2>20
    DEF SvcNext, Pipeline
<1> QED
  BY <1>1, <1>2, <1>3, <1>4 DEF Next

(* With one OS call failing in the middle of any iteration, the versions the *)
(* install root names stay usable: the one to roll back to comes up, and the *)
(* tree of the one to start is there.                                        *)
THEOREM ReleasesStayUsable ==
  ASSUME MaxOsErrors <= 1, MaxPowerLosses = 0, MaxCrashes = 0
  PROVE  Spec => []ReleasesUsable
<1>1. UsableInv /\ [Next]_vars => UsableInv'
  BY UsableStep
<1>2. UsableInv => ReleasesUsable
  BY DEF UsableInv, HealthTyped, HealthInv, StagedJ, ReleasesUsable, CurrentStaged
<1> QED
  BY <1>1, <1>2, UsableInit, PTL DEF Spec
=================================================================================

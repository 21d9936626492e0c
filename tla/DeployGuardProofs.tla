------------------------- MODULE DeployGuardProofs --------------------------
(***************************************************************************)
(* The guard keeps its promise for any systems, good or bad, any number of *)
(* generations and whatever goes wrong: Watched, and the refinement of     *)
(* Deadman.  Both need that a timer does not wait while a rollback is      *)
(* under way, which is what arming stops the service for.                  *)
(***************************************************************************)
EXTENDS DeployGuard, TLAPS, SequenceTheorems

OneOfBoth == rb \in {"rollback", "switch"} => ~timer

IInv == TypeOK /\ Watched /\ OneOfBoth

\* nix-env --set leaves the profile on a generation that is there.
LEMMA SetType ==
    ASSUME TypeOK, NEW s \in Systems, nix_env_set(s)
    PROVE  gens' \in Seq(Systems) /\ profile' \in 1..Len(gens')
<1>1. Len(gens) \in Nat /\ Len(gens) >= 1
    BY SMT DEF TypeOK
<1>2. CASE gens[Len(gens)] = s
    BY <1>1, <1>2 DEF TypeOK, nix_env_set
<1>3. CASE gens[Len(gens)] # s
    <2>1. gens' = Append(gens, s) /\ Len(gens') = Len(gens) + 1
        BY <1>3 DEF TypeOK, nix_env_set
    <2>2. gens' \in Seq(Systems)
        BY <2>1 DEF TypeOK
    <2> QED
        BY <1>1, <2>1, <2>2 DEF nix_env_set
<1> QED
    BY <1>2, <1>3

LEMMA ArmableBoolean == Armable \subseteq BOOLEAN
    BY DEF Armable

LEMMA InitInv == Init => IInv
<1> SUFFICES ASSUME Init PROVE IInv
    OBVIOUS
<1>1. First \in Systems
    BY ConstantsAssumption
<1>2. gens \in Seq(Systems) /\ Len(gens) = 1
    BY <1>1 DEF Init
<1>3. profile \in 1..Len(gens)
    BY <1>2 DEF Init
<1>4. timer \in BOOLEAN /\ Watched /\ OneOfBoth
    BY Zenon DEF Init, Watched, OneOfBoth
<1> QED
    BY <1>1, <1>2, <1>3, <1>4, Zenon DEF Init, IInv, TypeOK

LEMMA StepInv == ASSUME IInv, Next PROVE IInv'
<1> USE DEF IInv
<1>1. ASSUME NEW s \in Systems, Begin(s) PROVE IInv'
    BY <1>1 DEF Begin, TypeOK, Watched, OneOfBoth, device
<1>2. ASSUME NEW s \in Systems, RebuildSwitch(s) PROVE IInv'
    <2>1. gens' \in Seq(Systems) /\ profile' \in 1..Len(gens')
        BY <1>2, SetType DEF RebuildSwitch
    <2> QED
        BY <1>2, <2>1 DEF RebuildSwitch, TypeOK, Watched, OneOfBoth
<1>3. ASSUME NEW ok \in Armable, HostArm(ok) PROVE IInv'
    <2>1. ok \in BOOLEAN
        BY ArmableBoolean
    <2> QED
        BY <1>3, <2>1 DEF HostArm, arm, TypeOK, Watched, OneOfBoth
<1>4. CASE HostArmNoAnswer
    BY <1>4 DEF HostArmNoAnswer, TypeOK, Watched, OneOfBoth, device
<1>5. ASSUME NEW set \in BOOLEAN, NEW run \in BOOLEAN, HostSwitch(set, run) PROVE IInv'
    <2>1. toplevel \in Systems
        BY DEF TypeOK
    <2>2. gens' \in Seq(Systems) /\ profile' \in 1..Len(gens')
        <3>1. CASE set
            BY <1>5, <2>1, <3>1, SetType DEF HostSwitch
        <3>2. CASE ~set
            BY <1>5, <3>2 DEF HostSwitch, TypeOK
        <3> QED
            BY <3>1, <3>2
    <2> QED
        BY <1>5, <2>2 DEF HostSwitch, TypeOK, Watched, OneOfBoth
<1>6. CASE HostSees
    BY <1>6 DEF HostSees, TypeOK, Watched, OneOfBoth, device
<1>7. CASE HostConfirm
    BY <1>7 DEF HostConfirm, confirm, TypeOK, Watched, OneOfBoth, device
<1>8. CASE HostGivesUp
    BY <1>8 DEF HostGivesUp, TypeOK, Watched, OneOfBoth, device
<1>9. CASE HostQuits
    BY <1>9 DEF HostQuits, TypeOK, Watched, OneOfBoth, device
<1>10. CASE OperatorConfirm
    BY <1>10 DEF OperatorConfirm, confirm, TypeOK, Watched, OneOfBoth
<1>11. ASSUME NEW ok \in Armable, Activate(ok) PROVE IInv'
    <2>1. ok \in BOOLEAN
        BY ArmableBoolean
    <2> QED
        BY <1>11, <2>1 DEF Activate, arm, TypeOK, Watched, OneOfBoth
<1>12. CASE Restarted
    BY <1>12 DEF Restarted, TypeOK, Watched, OneOfBoth
<1>13. CASE SwitchDies
    BY <1>13 DEF SwitchDies, TypeOK, Watched, OneOfBoth
<1>14. CASE Elapse
    BY <1>14 DEF Elapse, TypeOK, Watched, OneOfBoth
<1>15. CASE Rollback
    BY <1>15 DEF Rollback, CanRollback, nix_env_rollback, TypeOK, Watched, OneOfBoth
<1>16. CASE RollbackSwitch
    BY <1>16 DEF RollbackSwitch, TypeOK, Watched, OneOfBoth
<1>17. CASE RolledBack
    BY <1>17 DEF RolledBack, TypeOK, Watched, OneOfBoth
<1>18. CASE Reboot
    <2>1. current' \in Systems
        BY <1>18 DEF Reboot, TypeOK
    <2>2. timer' \in BOOLEAN /\ Watched' /\ OneOfBoth'
        BY <1>18, Zenon DEF Reboot, Watched, OneOfBoth
    <2> QED
        BY <1>18, <2>1, <2>2, Zenon DEF Reboot, TypeOK
<1> QED
    BY <1>1, <1>2, <1>3, <1>4, <1>5, <1>6, <1>7, <1>8, <1>9, <1>10, <1>11, <1>12,
       <1>13, <1>14, <1>15, <1>16, <1>17, <1>18 DEF Next, SwitchStep, RollbackStep

LEMMA StutterInv == ASSUME IInv, UNCHANGED vars PROVE IInv'
    BY DEF IInv, TypeOK, Watched, OneOfBoth, vars

\* The timer and the rollback exclude each other, and no new system is without
\* one of them.
THEOREM Invariance == Spec => []IInv
    BY InitInv, StepInv, StutterInv, PTL DEF Spec

\* Whatever the order of deploys, confirmations, elapsing timers, failures and
\* reboots, a new system is guarded until it is confirmed or rolled back.
THEOREM NewSystemsWatched == Spec => []Watched
<1>1. IInv => Watched
    BY DEF IInv
<1> QED
    BY <1>1, Invariance, PTL

LEMMA InitMaps == Init => Guard!DInit
    BY ConstantsAssumption DEF Init, Guard!DInit, watch

LEMMA StepMaps == ASSUME IInv, Next PROVE [Guard!DNext]_(Guard!dvars)
<1> USE DEF Guard!dvars, watch
<1>0. IInv'
    BY StepInv
<1>1. ASSUME NEW s \in Systems, Begin(s) PROVE UNCHANGED Guard!dvars
    BY <1>1 DEF Begin, device
<1>2. ASSUME NEW s \in Systems, RebuildSwitch(s) PROVE UNCHANGED Guard!dvars
    BY <1>2 DEF RebuildSwitch
<1>3. ASSUME NEW ok \in Armable, HostArm(ok) PROVE Guard!Arm \/ Guard!Lose
    <2>1. ok \in BOOLEAN /\ current \in Systems
        BY ArmableBoolean DEF IInv, TypeOK
    <2> QED
        BY <1>3, <2>1 DEF HostArm, arm, Guard!Arm, Guard!Lose
<1>4. CASE HostArmNoAnswer
    BY <1>4 DEF HostArmNoAnswer, device
<1>5. ASSUME NEW set \in BOOLEAN, NEW run \in BOOLEAN, HostSwitch(set, run)
      PROVE UNCHANGED Guard!dvars
    BY <1>5 DEF HostSwitch
<1>6. CASE HostSees
    BY <1>6 DEF HostSees, device
<1>7. CASE HostConfirm
    BY <1>7 DEF HostConfirm, confirm, device, IInv, TypeOK, OneOfBoth, Guard!DNext, Guard!Keep
<1>8. CASE HostGivesUp
    BY <1>8 DEF HostGivesUp, device
<1>9. CASE HostQuits
    BY <1>9 DEF HostQuits, device
<1>10. CASE OperatorConfirm
    BY <1>10 DEF OperatorConfirm, confirm, IInv, TypeOK, OneOfBoth, Guard!DNext, Guard!Keep
<1>11. ASSUME NEW ok \in Armable, Activate(ok) PROVE Guard!Deploy \/ Guard!Lose
    <2>1. ok \in BOOLEAN /\ swsys \in Systems
        BY ArmableBoolean DEF IInv, TypeOK
    <2> QED
        BY <1>11, <2>1 DEF Activate, arm, Guard!Deploy, Guard!Lose
<1>12. CASE Restarted
    BY <1>12 DEF Restarted
<1>13. CASE SwitchDies
    BY <1>13 DEF SwitchDies
<1>14. CASE Elapse
    BY <1>14 DEF Elapse, Guard!DNext, Guard!Elapse
<1>15. CASE Rollback
    BY <1>15 DEF Rollback, IInv, TypeOK, OneOfBoth, Guard!DNext, Guard!Undo
<1>16. CASE RollbackSwitch
    BY <1>0, <1>16 DEF RollbackSwitch, IInv, TypeOK, OneOfBoth, Guard!DNext, Guard!Undo
<1>17. CASE RolledBack
    BY <1>17 DEF RolledBack
<1>18. CASE Reboot
    BY <1>0, <1>18 DEF Reboot, IInv, TypeOK, Guard!DNext, Guard!Boot
<1> QED
    BY <1>1, <1>2, <1>3, <1>4, <1>5, <1>6, <1>7, <1>8, <1>9, <1>10, <1>11, <1>12,
       <1>13, <1>14, <1>15, <1>16, <1>17, <1>18
    DEF Next, SwitchStep, RollbackStep, Guard!DNext

\* The guard implements Deadman, for every value of the constants.
THEOREM GuardIsDeadman == Spec => IsDeadman
<1>1. ASSUME IInv, [Next]_vars PROVE [Guard!DNext]_(Guard!dvars)
    <2>1. CASE Next
        BY <1>1, <2>1, StepMaps
    <2>2. CASE UNCHANGED vars
        BY <2>2 DEF vars, watch, Guard!dvars
    <2> QED
        BY <1>1, <2>1, <2>2
<1> QED
    BY <1>1, InitMaps, Invariance, PTL DEF Spec, IsDeadman, Guard!DSpec
=============================================================================

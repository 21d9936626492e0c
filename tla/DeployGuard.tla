---------------------------- MODULE DeployGuard -----------------------------
(***************************************************************************)
(* modules/deploy-guard.nix and tools/switch.sh: the host arms a timer on  *)
(* the device, sets the system profile, switches to it and confirms once   *)
(* the device answers as the new system; a timer that elapses first rolls  *)
(* the profile back and switches to what it finds there.  nixos-rebuild,   *)
(* which knows of no guard, is armed for by the activation script.         *)
(*                                                                         *)
(* External, as the scripts use them: systemd's transient units, nix-env's *)
(* numbered generations, and switch-to-configuration, which activates the  *)
(* system (/run/current-system) and then restarts its units; the device    *)
(* does not answer while they restart, and two switches do not overlap.    *)
(***************************************************************************)
EXTENDS Integers, Sequences

CONSTANTS
    Systems,    \* the systems that are built
    Good,       \* those that keep the device reachable
    First,      \* the system that was flashed
    MaxGens,    \* bound on the generations of the profile
    Events      \* what happens besides deploys that run through

ASSUME ConstantsAssumption ==
    /\ Good \subseteq Systems /\ First \in Good
    /\ MaxGens \in Nat \ {0}
    /\ Events \subseteq {"rebuild", "arm", "set", "die", "quit", "reboot"}

VARIABLES
    gens,       \* gens[i]: the system of generation i of the profile
    profile,    \* the generation the profile points to
    current,    \* /run/current-system
    timer,      \* deploy-guard.timer is waiting
    rb,         \* deploy-guard.service: "none" or the step it is at
    sw,         \* the unit nixos-switch: "none" or the step it is at
    swsys,      \* the system it switches to
    host,       \* the step of switch.sh; "idle" when it does not run
    toplevel,   \* the system it deploys
    verdict     \* (history) how the running system came to be, see Deadman

device == <<gens, profile, current, timer, rb, sw, swsys, verdict>>
vars == <<gens, profile, current, timer, rb, sw, swsys, host, toplevel, verdict>>

Init ==
    /\ gens = <<First>> /\ profile = 1 /\ current = First
    /\ timer = FALSE /\ rb = "none" /\ sw = "none" /\ swsys = First
    /\ host = "idle" /\ toplevel = First /\ verdict = "kept"

\* The device answers ssh.
Answers == current \in Good /\ sw # "restart" /\ rb # "restart"

-----------------------------------------------------------------------------
\* nix-env --set: a new generation after the newest, unless that is the same.
nix_env_set(s) ==
    /\ gens' = IF gens[Len(gens)] = s THEN gens ELSE Append(gens, s)
    /\ profile' = Len(gens')

\* nix-env --rollback goes to the generation numbered below, and fails when
\* there is none.
CanRollback == profile > 1
nix_env_rollback == profile' = profile - 1

\* deploy-guard-arm: stop the timer and the rollback, then start the timer,
\* which may be refused.
Armable == {TRUE} \cup (IF "arm" \in Events THEN {FALSE} ELSE {})
arm(ok) == timer' = ok /\ rb' = "none"

\* deploy-guard confirm: the timer is stopped, a rollback that runs is not.
confirm ==
    /\ timer' = FALSE /\ rb' = rb
    /\ verdict' = IF timer THEN "kept" ELSE verdict
    /\ UNCHANGED <<gens, profile, current, sw, swsys>>

-----------------------------------------------------------------------------
(***************************************************************************)
(* switch.sh                                                               *)
(***************************************************************************)

\* Build, ask what runs, refuse to switch to that, and copy the closure.  (A
\* systemd that differs ends the script here as well, unless forced.)
Begin(s) ==
    /\ host = "idle" /\ Answers /\ current # s /\ Len(gens) < MaxGens
    /\ host' = "copied" /\ toplevel' = s
    /\ UNCHANGED device

\* ssh deploy-guard arm; the script ends where ssh or the arm fails.
HostArm(ok) ==
    /\ host = "copied" /\ Answers
    /\ arm(ok)
    /\ verdict' = IF ok THEN verdict ELSE "unguarded"
    /\ host' = IF ok THEN "armed" ELSE "idle"
    /\ UNCHANGED <<gens, profile, current, sw, swsys, toplevel>>
HostArmNoAnswer ==
    /\ host = "copied" /\ ~Answers
    /\ host' = "idle"
    /\ UNCHANGED <<device, toplevel>>

\* nix-env --set && systemd-run nixos-switch: either may fail, the second one
\* also because the unit is there already.  Then the wait, in any case.
HostSwitch(set, run) ==
    /\ host = "armed" /\ host' = "waiting"
    /\ set => Answers /\ Len(gens) < MaxGens
    /\ run => set /\ sw = "none"
    /\ ~run => (sw # "none" \/ ~Answers \/ "set" \in Events)
    /\ IF set THEN nix_env_set(toplevel) ELSE UNCHANGED <<gens, profile>>
    /\ sw' = IF run THEN "activate" ELSE sw
    /\ swsys' = IF run THEN toplevel ELSE swsys
    /\ UNCHANGED <<current, timer, rb, toplevel, verdict>>

\* One look of the wait: the device answers as the new system.
HostSees ==
    /\ host = "waiting" /\ sw # "activate" /\ Answers /\ current = toplevel
    /\ host' = "confirming"
    /\ UNCHANGED <<device, toplevel>>

HostConfirm ==
    /\ host = "confirming" /\ host' = "idle"
    /\ IF Answers THEN confirm ELSE UNCHANGED device
    /\ UNCHANGED toplevel

\* WAIT seconds are over.
HostGivesUp ==
    /\ host = "waiting" /\ sw # "activate"
    /\ host' = "idle"
    /\ UNCHANGED <<device, toplevel>>

\* The script is interrupted.
HostQuits ==
    /\ "quit" \in Events /\ host # "idle"
    /\ host' = "idle"
    /\ UNCHANGED <<device, toplevel>>

\* nixos-rebuild switch --target-host: the same two commands, no guard.
RebuildSwitch(s) ==
    /\ "rebuild" \in Events /\ Len(gens) < MaxGens
    /\ host = "idle" /\ Answers /\ sw = "none"
    /\ nix_env_set(s)
    /\ sw' = "activate" /\ swsys' = s
    /\ UNCHANGED <<current, timer, rb, host, toplevel, verdict>>

\* The operator looks at the device and confirms by hand.
OperatorConfirm ==
    /\ host = "idle" /\ Answers /\ confirm
    /\ UNCHANGED <<host, toplevel>>

-----------------------------------------------------------------------------
(***************************************************************************)
(* The device                                                              *)
(***************************************************************************)

\* nixos-switch runs the activation script: it arms, goes on if it cannot, and
\* makes the system the running one.
Activate_unarmed(ok) ==
    /\ sw = "activate" /\ rb # "restart"
    /\ sw' = "restart" /\ current' = swsys
    /\ UNCHANGED <<timer, rb>>
    /\ verdict' = IF ok THEN "new" ELSE "unguarded"
    /\ UNCHANGED <<gens, profile, swsys, host, toplevel>>
Activate(ok) ==
    /\ sw = "activate" /\ rb # "restart"
    /\ sw' = "restart" /\ current' = swsys
    /\ arm(ok)
    /\ verdict' = IF ok THEN "new" ELSE "unguarded"
    /\ UNCHANGED <<gens, profile, swsys, host, toplevel>>

\* The units have been restarted.
Restarted ==
    /\ sw = "restart" /\ sw' = "none"
    /\ UNCHANGED <<gens, profile, current, timer, rb, swsys, host, toplevel, verdict>>

\* The switch dies before it reaches the activation script.
SwitchDies ==
    /\ "die" \in Events /\ sw = "activate" /\ sw' = "none"
    /\ UNCHANGED <<gens, profile, current, timer, rb, swsys, host, toplevel, verdict>>

\* The timer elapses.  timeoutSec is chosen longer than a switch, and far
\* longer than the moment between the two commands of the host.
Elapse ==
    /\ timer /\ sw = "none" /\ host # "armed"
    /\ timer' = FALSE /\ rb' = "rollback"
    /\ UNCHANGED <<gens, profile, current, sw, swsys, host, toplevel, verdict>>

\* deploy-guard-rollback: nix-env; under set -e the script ends if it fails.
Rollback_profile_only ==
    /\ rb = "rollback" /\ rb' = "none"
    /\ IF CanRollback THEN nix_env_rollback ELSE UNCHANGED profile
    /\ verdict' = "undone"
    /\ UNCHANGED <<gens, current, timer, sw, swsys, host, toplevel>>
Rollback ==
    /\ rb = "rollback"
    /\ IF CanRollback
       THEN rb' = "switch" /\ nix_env_rollback /\ UNCHANGED verdict
       ELSE rb' = "none" /\ UNCHANGED profile /\ verdict' = "undone"
    /\ UNCHANGED <<gens, current, timer, sw, swsys, host, toplevel>>

\* Its switch: DEPLOY_GUARD_SKIP keeps the activation script from arming.
RollbackSwitch_rearmed ==
    /\ rb = "switch" /\ sw # "restart"
    /\ current' = gens[profile] /\ verdict' = "undone"
    /\ arm(TRUE)
    /\ UNCHANGED <<gens, profile, sw, swsys, host, toplevel>>
RollbackSwitch ==
    /\ rb = "switch" /\ sw # "restart"
    /\ rb' = "restart" /\ timer' = timer
    /\ current' = gens[profile] /\ verdict' = "undone"
    /\ UNCHANGED <<gens, profile, sw, swsys, host, toplevel>>
RolledBack ==
    /\ rb = "restart" /\ rb' = "none"
    /\ UNCHANGED <<gens, profile, current, timer, sw, swsys, host, toplevel, verdict>>

\* A reboot: transient units are gone, and at boot there is no systemd to arm
\* a timer with when the activation script runs.
Reboot ==
    /\ "reboot" \in Events
    /\ current' = gens[profile] /\ timer' = FALSE
    /\ rb' = "none" /\ sw' = "none" /\ verdict' = "booted"
    /\ UNCHANGED <<gens, profile, swsys, host, toplevel>>

SwitchStep   == (\E ok \in Armable : Activate(ok)) \/ Restarted
RollbackStep == Rollback \/ RollbackSwitch \/ RolledBack

Next ==
    \/ \E s \in Systems : Begin(s) \/ RebuildSwitch(s)
    \/ \E ok \in Armable : HostArm(ok)
    \/ HostArmNoAnswer
    \/ \E set, run \in BOOLEAN : HostSwitch(set, run)
    \/ HostSees \/ HostConfirm \/ HostGivesUp \/ HostQuits \/ OperatorConfirm
    \/ SwitchStep \/ SwitchDies \/ Elapse \/ RollbackStep \/ Reboot

Spec == Init /\ [][Next]_vars

\* systemd runs its timers and units; the script comes to its end.
FairSpec ==
    /\ Spec
    /\ WF_vars(SwitchStep) /\ WF_vars(RollbackStep) /\ WF_vars(Elapse)
    /\ WF_vars(HostGivesUp) /\ WF_vars(\E set, run \in BOOLEAN : HostSwitch(set, run))

-----------------------------------------------------------------------------
TypeOK ==
    /\ gens \in Seq(Systems) /\ profile \in 1..Len(gens)
    /\ current \in Systems /\ swsys \in Systems /\ toplevel \in Systems
    /\ timer \in BOOLEAN
    /\ rb \in {"none", "rollback", "switch", "restart"}
    /\ sw \in {"none", "activate", "restart"}
    /\ host \in {"idle", "copied", "armed", "waiting", "confirming"}
    /\ verdict \in {"kept", "new", "undone", "unguarded", "booted"}

\* The abstract watch: an undo that has replaced the system is over.
watch ==
    IF timer THEN "armed"
    ELSE IF rb \in {"rollback", "switch"} THEN "undoing" ELSE "off"

Guard == INSTANCE Deadman WITH running <- current

\* The scripts, the timer and the switches, in whatever order the host, the
\* operator, nixos-rebuild, the elapsing timer and a reboot interleave, do
\* what Deadman promises.
IsDeadman == Guard!DSpec

\* No new system runs unguarded: one that was neither confirmed nor rolled
\* back has its timer waiting or its rollback under way, unless the operator
\* was told that it could not be armed.
Watched == verdict = "new" => timer \/ rb \in {"rollback", "switch"}

\* A device that a switch made unreachable, and whose profile has a good
\* generation right below, answers again by itself.
Recovers ==
    (/\ timer /\ sw = "none" /\ current \notin Good
     /\ CanRollback /\ gens[profile - 1] \in Good)
        ~> (Answers \/ verdict = "booted")

\* An unreachable device is rolled back to one that answers: what the guard
\* is for.
ComesBack == ~Answers ~> Answers
=============================================================================

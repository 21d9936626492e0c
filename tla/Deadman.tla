------------------------------ MODULE Deadman -------------------------------
(***************************************************************************)
(* What the deploy guard promises, whatever profiles, units and scripts    *)
(* carry it out: the running system is replaced only together with an      *)
(* armed watch, or by the undo of an unkept replacement, or by a boot.  A  *)
(* watch ends by being kept, by its undo or with the device; once the undo *)
(* has begun, keeping comes too late; an undo is not watched itself.       *)
(***************************************************************************)
CONSTANT Systems

VARIABLES
    running,    \* the running system
    watch,      \* "off", "armed", or "undoing" once the time is over
    verdict     \* "kept", "new", "undone", "unguarded" or "booted"

dvars == <<running, watch, verdict>>

DInit == running \in Systems /\ watch = "off" /\ verdict = "kept"

\* Time starts, or starts again, for the running system; an undo is called off.
Arm == watch' = "armed" /\ UNCHANGED <<running, verdict>>

\* The running system is replaced, and has to be kept in time.
Deploy == running' \in Systems /\ watch' = "armed" /\ verdict' = "new"

\* A guard that could not be armed is known to be lost.
Lose == running' \in Systems /\ watch' = "off" /\ verdict' = "unguarded"

Keep == watch = "armed" /\ watch' = "off" /\ verdict' = "kept" /\ UNCHANGED running

\* Keeping what is not watched, or not any more.
KeepUnwatched == watch # "armed" /\ UNCHANGED dvars

Elapse == watch = "armed" /\ watch' = "undoing" /\ UNCHANGED <<running, verdict>>

\* The undo replaces the running system, or finds nothing to go back to.
Undo == watch = "undoing" /\ running' \in Systems /\ watch' = "off" /\ verdict' = "undone"

Boot == running' \in Systems /\ watch' = "off" /\ verdict' = "booted"

DNext == Arm \/ Deploy \/ Lose \/ Keep \/ KeepUnwatched \/ Elapse \/ Undo \/ Boot

DSpec == DInit /\ [][DNext]_dvars
=============================================================================

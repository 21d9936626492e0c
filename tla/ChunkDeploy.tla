---------------------------- MODULE ChunkDeploy -----------------------------
(***************************************************************************)
(* Writing a root filesystem to the phone in chunks: deploy.sh over adb,   *)
(* deploy-ssh.sh over ssh, with latch.sh and unlatch.sh, against a device  *)
(* that resets, a transport that truncates or goes silent, and a host that *)
(* is interrupted.                                                         *)
(*                                                                         *)
(* The flash is, chunk by chunk, what the image or the old system has      *)
(* there.  The ext4 magic lies at the start of chunk 0 and is kept apart:  *)
(* it decides what the next boot does.  dd on the device is the only user  *)
(* of the partition, so that its close writes the chunk back before the    *)
(* next command reads it.                                                  *)
(***************************************************************************)
EXTENDS Integers

CONSTANTS
    N,          \* the last chunk of the image; chunk 0 holds the superblock
    Same,       \* the chunks the old system and the image have in common
    MaxTries,   \* tries per chunk
    MaxFaults   \* bound on resets, interruptions, transport faults, refusals
                \* and starts on a device that is not parked

ASSUME ConstantsAssumption ==
    /\ N \in Nat /\ Same \subseteq 0..N
    /\ MaxTries \in Nat \ {0} /\ MaxFaults \in Nat

Chunks == 0..N

VARIABLES
    body,      \* body[c]: the chunk is of the "old" system, the "new" one, or "part"
    magic,     \* the ext4 magic is in place
    dev,       \* "off", "window" (stage-1, root not mounted yet), "stage1" (parked), "stage2"
    pc,        \* the step of the script; "idle", "done" and "failed" when none runs
    ssh,       \* the script that runs is deploy-ssh.sh, not deploy.sh
    chunk,     \* the chunk being written
    try,
    faults     \* faults so far

VARIABLE       \* history
    blind      \* "mounts": the run passed its check on a root that is mounted;
               \* "zero": the last magic_zero was lost over a magic in place

script == <<pc, ssh, chunk, try>>
vars   == <<body, magic, dev, script, faults, blind>>

OldSystem == [c \in Chunks |-> IF c \in Same THEN "new" ELSE "old"]

Init ==
    /\ body = OldSystem /\ magic = TRUE
    /\ dev = "stage2"
    /\ pc = "idle" /\ ssh = FALSE /\ chunk = 0 /\ try = 1
    /\ faults = 0 /\ blind = {}

-----------------------------------------------------------------------------
Ended   == pc \in {"idle", "done", "failed"}
Answers == dev # "off"

Fault == faults < MaxFaults /\ faults' = faults + 1

\* What the device hashes to for a chunk is what the image has.
Matches(c) == body[c] = "new" /\ (c = 0 => magic)

\* dd has written all of the chunk.
WriteWhole ==
    /\ body' = [body EXCEPT ![chunk] = "new"]
    /\ magic' = (magic \/ chunk = 0)

\* dd has written a prefix of the chunk, which may or may not reach as far as
\* the magic; over a chunk that is right already it changes nothing else.
WritePrefix ==
    /\ body' = [body EXCEPT ![chunk] = IF @ = "new" THEN "new" ELSE "part"]
    /\ magic' \in IF chunk = 0 THEN {magic, TRUE} ELSE {magic}

WriteNothing == UNCHANGED <<body, magic>>

-----------------------------------------------------------------------------
(***************************************************************************)
(* The script.                                                             *)
(***************************************************************************)

\* require_device: somebody runs one of the commands against a device that
\* answers; one who has not parked it first makes a mistake.
Start ==
    /\ Ended /\ Answers
    /\ pc' = "guard" /\ ssh' \in BOOLEAN
    /\ IF dev = "stage1" THEN UNCHANGED faults ELSE Fault
    /\ UNCHANGED <<body, magic, dev, chunk, try, blind>>

\* The run goes on to magic_zero, whatever the device is doing.
Pass ==
    /\ pc' = "zero"
    /\ blind' = (blind \cap {"zero"}) \cup (IF dev = "stage2" THEN {"mounts"} ELSE {})

\* require_unmounted_root and require_power.  A mounted root ends the script,
\* and so do a partition whose number cannot be read and a battery that has to
\* be charged first; the device is as it was found.  A list of mounts that does
\* not come back is an empty one and passes: dsh swallows the death of adb, and
\* deploy-ssh.sh the status of ssh.
Guard_needs_magic ==
    /\ pc = "guard"
    /\ \/ dev \in {"window", "stage1"} /\ magic /\ Pass /\ UNCHANGED faults
       \/ ~(dev \in {"window", "stage1"} /\ magic) /\ pc' = "idle" /\ UNCHANGED <<faults, blind>>
       \/ Fault /\ pc' = "idle" /\ UNCHANGED blind
       \/ Fault /\ Pass
    /\ UNCHANGED <<body, magic, dev, ssh, chunk, try>>
Guard_without_mounts ==
    /\ pc = "guard"
    /\ \/ Answers /\ pc' = "zero" /\ UNCHANGED <<faults, blind>>
       \/ ~Answers /\ pc' = "idle" /\ UNCHANGED <<faults, blind>>
       \/ Fault /\ pc' = "idle" /\ UNCHANGED blind
    /\ UNCHANGED <<body, magic, dev, ssh, chunk, try>>
Guard ==
    /\ pc = "guard"
    /\ \/ dev \in {"window", "stage1"} /\ Pass /\ UNCHANGED faults
       \/ dev \notin {"window", "stage1"} /\ pc' = "idle" /\ UNCHANGED <<faults, blind>>
       \/ Fault /\ pc' = "idle" /\ UNCHANGED blind
       \/ Fault /\ Pass
    /\ UNCHANGED <<body, magic, dev, ssh, chunk, try>>

\* The order of the chunks: 1, 2, ..., N, and 0 last.
FirstChunk_zero == 0
FirstChunk == IF N = 0 THEN 0 ELSE 1
AfterChunk(c) == IF c < N THEN c + 1 ELSE 0

\* magic_zero.  A device that does not answer ends the script (set -e).  The
\* write is not looked at: over adb a device that dies in it is not reported,
\* and the status of dd is that of the sync after it, so that the script goes
\* on without it as well.
MagicZero ==
    /\ pc = "zero"
    /\ \/ /\ Answers /\ magic' = FALSE /\ blind' = blind \ {"zero"}
          /\ UNCHANGED faults
       \/ /\ Answers /\ Fault /\ UNCHANGED magic
          /\ blind' = blind \cup (IF magic THEN {"zero"} ELSE {})
       \/ ~Answers /\ UNCHANGED <<magic, blind, faults>>
    /\ IF Answers
       THEN pc' = "hash" /\ chunk' = FirstChunk /\ try' = 1
       ELSE pc' = "idle" /\ UNCHANGED <<chunk, try>>
    /\ UNCHANGED <<body, dev, ssh>>

\* The chunk is done: the next one, or the sync after chunk 0.
NextChunk ==
    /\ IF chunk = 0
       THEN pc' = "sync" /\ UNCHANGED chunk
       ELSE pc' = "hash" /\ chunk' = AfterChunk(chunk)
    /\ try' = 1

Retry ==
    /\ IF try < MaxTries
       THEN pc' = "write" /\ try' = try + 1
       ELSE pc' = "failed" /\ UNCHANGED try
    /\ UNCHANGED chunk

\* wait_device of the adb script gives up on a device that stays away.
DeviceGone ==
    /\ ~ssh /\ ~Answers /\ pc \in {"hash", "write", "verify"}
    /\ pc' = "failed"
    /\ UNCHANGED <<body, magic, dev, ssh, chunk, try, faults, blind>>

\* The hash before the first try; one that is empty or differs means a write.
HashFirst ==
    /\ pc = "hash" /\ (Answers \/ ssh)
    /\ \/ /\ Answers /\ Matches(chunk)
          /\ NextChunk /\ UNCHANGED faults
       \/ /\ ~Answers \/ ~Matches(chunk)
          /\ pc' = "write" /\ UNCHANGED <<chunk, try, faults>>
       \/ Fault /\ pc' = "write" /\ UNCHANGED <<chunk, try>>
    /\ UNCHANGED <<body, magic, dev, ssh, blind>>

\* The write.  adb truncates the stream and says nothing; ssh reports that it
\* failed, and the script tries again without a look at the device.
Write ==
    /\ pc = "write"
    /\ \/ /\ Answers /\ WriteWhole
          /\ pc' = "verify" /\ UNCHANGED <<chunk, try, faults>>
       \/ /\ Answers /\ ~ssh /\ Fault /\ WritePrefix
          /\ pc' = "verify" /\ UNCHANGED <<chunk, try>>
       \/ /\ Answers /\ ssh /\ Fault /\ WritePrefix
          /\ Retry
       \/ /\ ~Answers /\ ssh /\ WriteNothing
          /\ Retry /\ UNCHANGED faults
    /\ UNCHANGED <<dev, ssh, blind>>

\* The hash after a write: nothing came back, it matches, or it differs.
Verify_empty_ok ==
    /\ pc = "verify" /\ (Answers \/ ssh)
    /\ \/ Answers /\ Matches(chunk) /\ NextChunk /\ UNCHANGED faults
       \/ Answers /\ ~Matches(chunk) /\ Retry /\ UNCHANGED faults
       \/ ~Answers /\ NextChunk /\ UNCHANGED faults
       \/ Answers /\ Fault /\ NextChunk
    /\ UNCHANGED <<body, magic, dev, ssh, blind>>
Verify ==
    /\ pc = "verify" /\ (Answers \/ ssh)
    /\ \/ Answers /\ Matches(chunk) /\ NextChunk /\ UNCHANGED faults
       \/ (~Answers \/ ~Matches(chunk)) /\ Retry /\ UNCHANGED faults
       \/ Answers /\ Fault /\ Retry
    /\ UNCHANGED <<body, magic, dev, ssh, blind>>

\* The sync is allowed to fail.
Sync ==
    /\ pc = "sync" /\ pc' = "done"
    /\ UNCHANGED <<body, magic, dev, ssh, chunk, try, faults, blind>>

\* The host is interrupted, in the middle of a write at worst.
Interrupt ==
    /\ ~Ended /\ Fault
    /\ IF pc = "write" /\ Answers THEN WritePrefix ELSE WriteNothing
    /\ pc' = "idle"
    /\ UNCHANGED <<dev, ssh, chunk, try, blind>>

-----------------------------------------------------------------------------
(***************************************************************************)
(* The device and its operator.                                            *)
(***************************************************************************)

\* A crash or an empty battery.
Reset ==
    /\ Answers /\ Fault /\ dev' = "off"
    /\ UNCHANGED <<body, magic, script, blind>>

\* The same in the middle of a write, which ends: adb goes on to the hash, ssh
\* to the next try.
ResetInWrite ==
    /\ pc = "write" /\ Answers /\ Fault /\ dev' = "off"
    /\ WritePrefix
    /\ \/ ssh /\ Retry
       \/ ~ssh /\ pc' = "verify" /\ UNCHANGED <<chunk, try>>
    /\ UNCHANGED <<ssh, blind>>

Boot ==
    /\ dev = "off" /\ dev' = "window"
    /\ UNCHANGED <<body, magic, script, faults, blind>>

\* stage-1 mounts the root filesystem if it finds the magic, and parks in its
\* shell if it does not.  A boot takes longer than the one command between the
\* check of the mounts and magic_zero.
Mount ==
    /\ dev = "window" /\ pc # "zero"
    /\ dev' = IF magic THEN "stage2" ELSE "stage1"
    /\ UNCHANGED <<body, magic, script, faults, blind>>

Whole    == body = OldSystem \/ \A c \in Chunks : body[c] = "new"
Deployed == magic /\ \A c \in Chunks : body[c] = "new"

\* latch.sh, to park the device for a deploy.
Latch ==
    /\ Ended /\ Answers /\ magic /\ ~Deployed
    /\ magic' = FALSE /\ blind' = blind \ {"zero"}
    /\ UNCHANGED <<body, dev, script, faults>>

\* unlatch.sh, by an operator who does not run it over a deploy that is
\* incomplete: the tools tell him to run the deploy again instead.
Unlatch ==
    /\ Ended /\ Answers /\ ~magic /\ Whole /\ Fault
    /\ magic' = TRUE
    /\ UNCHANGED <<body, dev, script, blind>>

\* The operator power-cycles a latched device that still runs stage-2.
PowerCycle ==
    /\ Ended /\ dev = "stage2" /\ ~magic
    /\ dev' = "off"
    /\ UNCHANGED <<body, magic, script, faults, blind>>

ScriptStep ==
    Guard \/ MagicZero \/ DeviceGone \/ HashFirst \/ Write \/ Verify \/ Sync

Next ==
    \/ Start \/ ScriptStep \/ Interrupt
    \/ Reset \/ ResetInWrite \/ Boot \/ Mount \/ Latch \/ Unlatch \/ PowerCycle

Spec == Init /\ [][Next]_vars

\* A script that runs goes on and a device that is off is switched on again;
\* the operator parks the device and runs the command until it is done.
FairSpec ==
    /\ Spec
    /\ WF_vars(ScriptStep) /\ WF_vars(Boot) /\ WF_vars(Mount)
    /\ WF_vars(Start) /\ WF_vars(Latch) /\ WF_vars(PowerCycle)

-----------------------------------------------------------------------------
(***************************************************************************)
(* Properties.                                                             *)
(***************************************************************************)

TypeOK ==
    /\ body \in [Chunks -> {"old", "part", "new"}] /\ magic \in BOOLEAN
    /\ dev \in {"off", "window", "stage1", "stage2"}
    /\ pc \in {"idle", "done", "failed", "guard", "zero", "hash", "write", "verify", "sync"}
    /\ ssh \in BOOLEAN /\ chunk \in Chunks /\ try \in 1..MaxTries /\ faults \in 0..MaxFaults
    /\ blind \subseteq {"mounts", "zero"}

\* "writing that chunk first would hand stage-1 a valid superblock describing
\* a half-written filesystem": whenever the magic is in place, and with it a
\* boot possible, the flash holds the old system untouched or every trailing
\* chunk of the image.  This is not so after a magic_zero that was lost, because
\* nothing verifies it.
NeverHalf ==
    magic => body = OldSystem \/ \A c \in Chunks \ {0} : body[c] = "new"

\* What holds of it, through any number of interruptions and runs: only a
\* run whose magic_zero was lost leaves the magic over half of each system,
\* until a later magic_zero is not lost.
MagicHeld == "zero" \notin blind => NeverHalf

\* The root partition is only rewritten under a system that has it mounted
\* when that system booted from chunk 0 of this very run, although devices that
\* run are deployed to by mistake and reset in the middle of a run.  The
\* exceptions are a run whose list of mounts or whose magic_zero was lost.
TrailingUnmounted ==
    dev = "stage2" /\ pc = "write" /\ blind = {} => chunk = 0

\* "WRITE COMPLETE" is only said of a flash that holds the whole image.
CompleteIsWhole == [][pc' = "done" /\ pc # "done" => Deployed]_vars

\* "this command can simply be run again": once the faults stop, the whole
\* image gets onto the flash, whatever the interrupted runs left behind.
Resumes == []<>Deployed

Writing == pc \in {"hash", "write", "verify", "sync"}

-----------------------------------------------------------------------------
(***************************************************************************)
(* The inductive invariant the proofs use.                                 *)
(***************************************************************************)

\* The chunks before the present one are in place; the magic is not, until it
\* is the turn of chunk 0, and no root is mounted until then either, but for
\* what the script did not see.
InOrder ==
    /\ Writing =>
        /\ \A c \in Chunks \ {0} : c < chunk \/ chunk = 0 => body[c] = "new"
        /\ magic /\ "zero" \notin blind => chunk = 0
        /\ dev = "stage2" /\ blind = {} => chunk = 0
    /\ pc = "zero" /\ "mounts" \notin blind => dev # "stage2"
    /\ pc = "sync" => Deployed

IInv == TypeOK /\ MagicHeld /\ InOrder
=============================================================================

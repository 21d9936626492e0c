----------------------------- MODULE WmtLoader ------------------------------
(***************************************************************************)
(* wmt-loader.c and its systemd unit: the ioctls that run the driver inits *)
(* of the combo chip once per boot, the child that powers the chip on, and *)
(* the service that names the firmware patches while that power-on blocks  *)
(* in the kernel.  The process may fail at any call, be killed and started *)
(* again; what the kernel has latched outlives it.                         *)
(*                                                                         *)
(* The kernel is external.  It is what the comments of wmt-loader.c and    *)
(* default.nix say of it: the init runs once, needs the clean-up before it *)
(* and returns success ever after; the patch table is allocated once; a    *)
(* request nobody answers times out after 6 s, which a running loader      *)
(* never needs.                                                            *)
(***************************************************************************)
EXTENDS Integers, Sequences, SequencesExt, FiniteSets

CONSTANTS
    Names,        \* names of firmware files, in the order of strcmp
    Dirs,         \* the contents firmware_dir can have, see `dir'
    MaxPatchNum,  \* MAX_PATCH_NUM
    MaxFaults,    \* bound on failing calls and failing power-ons
    MaxKills      \* bound on kills and restarts from outside

ASSUME ConstantsAssumption ==
    /\ Names \subseteq Nat \ {0} /\ IsFiniteSet(Names)
    /\ Dirs \subseteq [ram : SUBSET Names, patch : SUBSET Names, short : SUBSET Names]
    /\ MaxPatchNum \in Nat \ {0} /\ MaxFaults \in Nat /\ MaxKills \in Nat

Searches == {"srh_rom_patch", "srh_patch"}
Ack      == "ack"       \* update_patch_version, open_stp or close_stp
Unknown  == "unknown"   \* a command handle_command() does not know
None     == "none"
Commands == Searches \cup {Ack, Unknown}

VARIABLE dir      \* firmware_dir: the files with _ram_ and with _patch_ in their
                  \* names, and those among them too short to hold a header

VARIABLES      \* the kernel, until the next boot
    cleaned,      \* the boot-time SDIO driver is gone
    init_before,  \* the driver inits have been run
    good,         \* and succeeded: the chip can be powered on
    stpwmt,       \* /dev/stpwmt exists
    patch_num,    \* size of the patch table; 0 while it is not allocated
    table,        \* table[s]: the file with download_seq s; 0 for none
    rom,          \* the ROM patches named so far
    power,        \* "off", "busy" (in the power-on write) or "on"
    asked,        \* the commands this power-on has asked
    posted,       \* the command /dev/stpwmt has for its reader
    wait          \* "no", "yes" (for an answer), or the answer: "ok", "fail"

VARIABLES      \* the process
    pc, announced,
    cmd, list, k, \* the command, the files found for it, the next of them
    reply,
    child         \* "none", "start", "write", "ok", "failed"; "gone" once reaped

VARIABLES faults, kills

latched == <<cleaned, init_before, good, stpwmt>>
patches == <<patch_num, table, rom>>
core    == <<power, asked, posted, wait>>
loader  == <<announced, cmd, list, k, reply>>
vars    == <<dir, latched, patches, core, pc, loader, child, faults, kills>>

Init ==
    /\ dir \in Dirs
    /\ cleaned = FALSE /\ init_before = FALSE /\ good = FALSE /\ stpwmt = FALSE
    /\ patch_num = 0 /\ table = [s \in 1..MaxPatchNum |-> 0] /\ rom = {}
    /\ power = "off" /\ asked = {} /\ posted = None /\ wait = "no"
    /\ pc = "detect" /\ announced = FALSE
    /\ cmd = None /\ list = <<>> /\ k = 1 /\ reply = "ok"
    /\ child = "none"
    /\ faults = 0 /\ kills = 0

\* A call that fails.
Fault == faults < MaxFaults /\ faults' = faults + 1

-----------------------------------------------------------------------------
(***************************************************************************)
(* detect() and the start of main().  "retry" is exit status 1, which      *)
(* systemd answers with a restart; "stopped" is exit status 2.             *)
(***************************************************************************)

\* open, GET_SOC_CHIP_ID and SET_CHIP_ID.
Detect ==
    /\ pc = "detect"
    /\ \/ pc' = "cleanup" /\ UNCHANGED faults
       \/ Fault /\ pc' = "retry"
    /\ UNCHANGED <<dir, latched, patches, core, loader, child, kills>>

Cleanup ==
    /\ pc = "cleanup"
    /\ \/ cleaned' = TRUE /\ pc' = "init" /\ UNCHANGED faults
       \/ Fault /\ pc' = "retry" /\ UNCHANGED cleaned
    /\ UNCHANGED <<dir, init_before, good, stpwmt, patches, core, loader, child, kills>>

\* do_connectivity_driver_init() in the kernel, with its result.
driver_init(ok) ==
    /\ init_before' = TRUE
    /\ \/ init_before /\ ok /\ UNCHANGED <<good, stpwmt, faults>>
       \/ ~init_before /\ cleaned /\ ok /\ good' = TRUE /\ stpwmt' = TRUE /\ UNCHANGED faults
       \/ /\ ~init_before /\ ~ok /\ stpwmt' \in BOOLEAN /\ UNCHANGED good
          /\ IF cleaned THEN Fault ELSE UNCHANGED faults

ModuleInit_retries ==
    /\ pc = "init"
    /\ \E ok \in BOOLEAN : driver_init(ok) /\ pc' = IF ok THEN "stpwmt" ELSE "retry"
    /\ UNCHANGED <<dir, cleaned, patches, core, loader, child, kills>>

ModuleInit ==
    /\ pc = "init"
    /\ \E ok \in BOOLEAN : driver_init(ok) /\ pc' = IF ok THEN "stpwmt" ELSE "stopped"
    /\ UNCHANGED <<dir, cleaned, patches, core, loader, child, kills>>

\* The node is waited for and opened, and the transport set.
OpenStpwmt ==
    /\ pc = "stpwmt"
    /\ \/ stpwmt /\ pc' = "fork" /\ UNCHANGED faults
       \/ ~stpwmt /\ pc' = "stopped" /\ UNCHANGED faults
       \/ Fault /\ pc' = "stopped"
    /\ UNCHANGED <<dir, latched, patches, core, loader, child, kills>>

Fork_in_line ==
    /\ pc = "fork" /\ child \in {"none", "ok", "failed"}
    /\ \/ child = "none" /\ child' = "start" /\ UNCHANGED pc
       \/ child # "none" /\ pc' = "poll" /\ UNCHANGED child
    /\ UNCHANGED <<dir, latched, patches, core, loader, faults, kills>>

Fork ==
    /\ pc = "fork"
    /\ \/ pc' = "poll" /\ child' = "start" /\ UNCHANGED faults
       \/ Fault /\ pc' = "stopped" /\ UNCHANGED child
    /\ UNCHANGED <<dir, latched, patches, core, loader, kills>>

-----------------------------------------------------------------------------
(***************************************************************************)
(* The service.                                                            *)
(***************************************************************************)

Files(c) == IF c = "srh_rom_patch" THEN dir.ram ELSE dir.patch

\* qsort() with by_name.
qsort(order) ==
    CHOOSE l \in SetToSeqs(ToSet(order)) : \A i, j \in DOMAIN l : i < j => l[i] < l[j]

\* What collect() returns for the directory read in this order; empty stands
\* for every result its callers refuse.
collect_truncates(order) ==
    qsort(SubSeq(order, 1, IF Len(order) < MaxPatchNum THEN Len(order) ELSE MaxPatchNum))

collect(order) == IF Len(order) > MaxPatchNum THEN <<>> ELSE qsort(order)

\* poll() finds a command; handle_command() finds what it is about.
ReadCommand ==
    /\ pc = "poll" /\ posted # None
    /\ cmd' = posted /\ posted' = None
    /\ k' = 1
    /\ \/ /\ posted \in Searches
          /\ \E order \in SetToSeqs(Files(posted)) : list' = collect(order)
          /\ reply' = IF list' = <<>> THEN "fail" ELSE "ok"
          /\ pc' = IF list' = <<>> THEN "reply"
                   ELSE IF posted = "srh_patch" THEN "num" ELSE "name"
       \/ posted = Ack /\ reply' = "ok" /\ pc' = "reply" /\ list' = <<>>
       \/ posted = Unknown /\ reply' = "fail" /\ pc' = "reply" /\ list' = <<>>
    /\ UNCHANGED <<dir, latched, patches, power, asked, wait, announced, child, faults, kills>>

Refuse == reply' = "fail" /\ pc' = "reply"

\* SET_PATCH_NUM, which the kernel accepts once.
SetPatchNum_again ==
    /\ pc = "num"
    /\ \/ patch_num = 0 /\ patch_num' = Len(list) /\ pc' = "name" /\ UNCHANGED reply
       \/ patch_num # 0 /\ Refuse /\ UNCHANGED patch_num
    /\ UNCHANGED <<dir, latched, table, rom, core, announced, cmd, list, k, child, faults, kills>>

SetPatchNum ==
    /\ pc = "num"
    /\ \/ announced /\ pc' = "name" /\ UNCHANGED <<patch_num, announced, reply, faults>>
       \/ /\ ~announced /\ patch_num = 0
          /\ patch_num' = Len(list) /\ announced' = TRUE /\ pc' = "name"
          /\ UNCHANGED <<reply, faults>>
       \/ ~announced /\ patch_num # 0 /\ Refuse /\ UNCHANGED <<patch_num, announced, faults>>
       \/ ~announced /\ Fault /\ Refuse /\ UNCHANGED <<patch_num, announced>>
    /\ UNCHANGED <<dir, latched, table, rom, core, cmd, list, k, child, kills>>

\* One turn of the loops of handle_rom_patch() and handle_patch().
NamePatch ==
    /\ pc = "name"
    /\ \/ /\ list[k] \notin dir.short
          /\ IF cmd = "srh_patch"
             THEN table' = [table EXCEPT ![k] = list[k]] /\ UNCHANGED rom
             ELSE rom' = rom \cup {list[k]} /\ UNCHANGED table
          /\ k' = k + 1 /\ pc' = IF k = Len(list) THEN "reply" ELSE "name"
          /\ UNCHANGED <<reply, faults>>
       \/ list[k] \in dir.short /\ Refuse /\ UNCHANGED <<table, rom, k, faults>>
       \/ Fault /\ Refuse /\ UNCHANGED <<table, rom, k>>
    /\ UNCHANGED <<dir, latched, patch_num, core, announced, cmd, list, child, kills>>

\* The answer is written; when that fails it is only logged.
Reply ==
    /\ pc = "reply" /\ pc' = "reap"
    /\ \/ wait' = reply /\ UNCHANGED faults
       \/ Fault /\ UNCHANGED wait
    /\ cmd' = None /\ list' = <<>> /\ k' = 1 /\ reply' = "ok"
    /\ UNCHANGED <<dir, latched, patches, power, asked, posted, announced, child, kills>>

ChildEnded == child \in {"ok", "failed"}

\* waitpid(), after a command or when poll() times out.
Reap ==
    /\ pc = "reap" \/ (pc = "poll" /\ posted = None /\ ChildEnded)
    /\ pc' = "poll" /\ child' = IF ChildEnded THEN "gone" ELSE child
    /\ UNCHANGED <<dir, latched, patches, core, loader, faults, kills>>

Running == {"detect", "cleanup", "init", "stpwmt", "fork"}
Serving == {"poll", "num", "name", "reply", "reap"}

\* The unit's other processes are killed with it; one inside the write only
\* goes when the write returns.
ChildKilled == child' = IF child = "write" THEN "write" ELSE "none"

\* poll() itself fails.
PollFails ==
    /\ pc = "poll" /\ Fault /\ pc' = "stopped" /\ ChildKilled
    /\ UNCHANGED <<dir, latched, patches, core, loader, kills>>

-----------------------------------------------------------------------------
(***************************************************************************)
(* power_on() in the child, and the same write by anybody else.            *)
(***************************************************************************)

\* The write enters the kernel; a chip that is on needs nothing more.
BeginWrite ==
    /\ power' = IF power = "on" THEN "on" ELSE "busy"
    /\ asked' = {} /\ UNCHANGED <<posted, wait>>

power_on ==
    /\ child = "start"
    /\ \/ good /\ power # "busy" /\ child' = (IF power = "on" THEN "ok" ELSE "write")
          /\ BeginWrite /\ UNCHANGED faults
       \/ ~good /\ child' = "failed" /\ UNCHANGED <<core, faults>>
       \/ Fault /\ child' = "failed" /\ UNCHANGED core
    /\ UNCHANGED <<dir, latched, patches, pc, loader, kills>>

PowerOnAgain ==
    /\ good /\ power = "off" /\ child \notin {"start", "write"}
    /\ BeginWrite
    /\ UNCHANGED <<dir, latched, patches, pc, loader, child, faults, kills>>

-----------------------------------------------------------------------------
(***************************************************************************)
(* The kernel during the write.                                            *)
(***************************************************************************)

Ask(c) ==
    /\ power = "busy" /\ wait = "no" /\ c \notin asked
    /\ IF c = Unknown THEN Fault ELSE UNCHANGED faults
    /\ asked' = asked \cup {c} /\ posted' = c /\ wait' = "yes"
    /\ UNCHANGED <<dir, latched, patches, power, pc, loader, child, kills>>

Heard ==
    /\ wait = "ok" /\ wait' = "no"
    /\ UNCHANGED <<dir, latched, patches, power, asked, posted, pc, loader, child, faults, kills>>

\* The write returns to whoever made it; nobody reads the result of a killed child.
EndWrite(result) ==
    /\ power' = (IF result = "ok" THEN "on" ELSE "off")
    /\ wait' = "no" /\ posted' = None /\ asked' = {}
    /\ child' = (IF child # "write" THEN child
                 ELSE IF pc \in Running \cup Serving THEN result ELSE "none")
    /\ UNCHANGED <<dir, latched, patches, pc, loader, kills>>

PowerUp == power = "busy" /\ wait = "no" /\ Searches \subseteq asked /\ EndWrite("ok") /\ UNCHANGED faults

\* A refused command, an unanswered one, or the chip itself.
Refused == wait = "fail" /\ EndWrite("failed") /\ UNCHANGED faults
TimedOut ==
    /\ wait = "yes" /\ (pc \notin Serving \/ (posted = None /\ cmd = None))
    /\ EndWrite("failed") /\ UNCHANGED faults
ChipFails == power = "busy" /\ wait = "no" /\ Fault /\ EndWrite("failed")

-----------------------------------------------------------------------------
(***************************************************************************)
(* systemd.                                                                *)
(***************************************************************************)

\* A signal, a restart of the unit, or a switch to a system with other
\* firmware; DO_MODULE_INIT is not cut short by it.
Kill ==
    /\ pc \in Running \cup Serving /\ kills < MaxKills
    /\ kills' = kills + 1 /\ pc' = "retry" /\ ChildKilled
    /\ \/ UNCHANGED <<init_before, good, stpwmt, faults>>
       \/ pc = "init" /\ \E ok \in BOOLEAN : driver_init(ok)
    /\ cmd' = None /\ list' = <<>> /\ k' = 1 /\ reply' = "ok"
    /\ UNCHANGED <<dir, cleaned, patches, core, announced>>

\* Restart = on-failure, once nothing of the old process is left.
Restart ==
    /\ pc = "retry" /\ child # "write"
    /\ pc' = "detect" /\ announced' = FALSE
    /\ UNCHANGED <<dir, latched, patches, core, cmd, list, k, reply, child, faults, kills>>

-----------------------------------------------------------------------------
Loader ==
    \/ Detect \/ Cleanup \/ ModuleInit \/ OpenStpwmt \/ Fork
    \/ ReadCommand \/ SetPatchNum \/ NamePatch \/ Reply \/ Reap

Kernel == (\E c \in Commands : Ask(c)) \/ Heard \/ PowerUp \/ Refused \/ TimedOut

Next == Loader \/ PollFails \/ power_on \/ PowerOnAgain \/ Kernel \/ ChipFails \/ Kill \/ Restart

Spec == Init /\ [][Next]_vars

\* Processes are scheduled, the kernel's waits end, systemd restarts what it
\* should, and somebody keeps asking for Wi-Fi.
FairSpec ==
    /\ Spec
    /\ WF_vars(Loader) /\ WF_vars(power_on) /\ WF_vars(Kernel)
    /\ WF_vars(Restart) /\ WF_vars(PowerOnAgain)

-----------------------------------------------------------------------------
(***************************************************************************)
(* Properties.                                                             *)
(***************************************************************************)

Readable(files) == files # {} /\ Cardinality(files) <= MaxPatchNum /\ files \cap dir.short = {}
FilesFine == Readable(dir.ram) /\ Readable(dir.patch)

\* The chip is only on when the kernel has been told of every ROM patch and
\* has the other patches in its table, all of them and in the order of their
\* names, whatever order the directory was read in, whichever searches failed
\* half-way before and however often the loader was restarted
\* (wmt-loader.c collect, handle_rom_patch, handle_patch).
PatchesTold ==
    power = "on" =>
        /\ rom = dir.ram
        /\ patch_num = Cardinality(dir.patch)
        /\ {table[s] : s \in 1..patch_num} = dir.patch
        /\ \A s, t \in 1..patch_num : s < t => table[s] < table[t]

\* Unless something killed the loader, the unit only serves a chip whose init
\* succeeded: no exit status leads systemd into a second, silently successful
\* DO_MODULE_INIT (wmt-loader.c EXIT_RETRYABLE and EXIT_LATCHED).
ActiveIsInitialised == pc \in Serving /\ kills = 0 => good

\* The loader's own power-on never fails for want of its own answer: with
\* fine files and no failing call it does not fail (the fork in main).
NoSelfStall == child = "failed" /\ good /\ FilesFine => faults + kills > 0

\* A loader that serves an initialised chip stays up for the power-on after a
\* failed one, and answers its searches again: Wi-Fi comes up in the end
\* (wmt-loader.c handle_patch's announced, and the reaping in main).
WlanUp ==
    (pc \in Serving /\ good /\ FilesFine) ~> (power = "on" \/ kills > 0 \/ pc = "stopped")
=============================================================================

----------------------------- MODULE BringupLog -----------------------------
(***************************************************************************)
(* modules/bringup-log and tools/read-log.sh: stage 2 copies the kernel's  *)
(* ring buffer to two raw slots of the flash in turn, payload before       *)
(* header; the power is cut at any moment, and the reader, in stage 1,     *)
(* takes the slot whose header has the greater seq.                        *)
(*                                                                         *)
(* A line of the log fills a block.  dd returns after an fsync; a power    *)
(* cut during it leaves any part of its blocks written, and a block whole  *)
(* or not at all.  Writes do not fail otherwise.                           *)
(***************************************************************************)
EXTENDS Integers, Sequences

CONSTANTS
    Ring,       \* lines the kernel's ring buffer holds
    MaxLines,   \* bound on the lines logged in a boot
    MaxSeq,     \* iterations
    MaxBoots    \* bound on the boots

ASSUME LogAssumption ==
    /\ Ring \in Nat \ {0} /\ MaxLines \in Nat
    /\ MaxSeq \in Nat /\ MaxBoots \in Nat

Slots == {"A", "B"}
NoHeader == [seq |-> 0, bytes |-> 0]    \* zeros, or whatever was there before
NoBlock == <<0, 0>>

VARIABLES
    header,     \* header[s]: block 0 of slot s
    payload,    \* payload[s][k]: the boot and the line in block k
    boot,       \* boots so far
    lines,      \* lines the kernel has logged in this boot
    writer,     \* the step of the writer; "off" without power
    seq,        \* of the writer
    tmp,        \* /run/bringup-log.payload
    published,  \* (history) the last snapshot with a header, <<>> if cleared
    cleared     \* (history) the last boot has invalidated both headers

flash == <<header, payload>>
log == <<header, payload, boot, lines, writer, seq, tmp, published, cleared>>

LogInit ==
    /\ header = [s \in Slots |-> NoHeader]
    /\ payload = [s \in Slots |-> [k \in 1..Ring |-> NoBlock]]
    /\ boot = 0 /\ lines = 0 /\ writer = "off" /\ seq = 0 /\ tmp = <<>>
    /\ published = <<>> /\ cleared = FALSE

\* Power on, up to boot.postBootCommands.
PowerOn ==
    /\ writer = "off" /\ boot < MaxBoots
    /\ boot' = boot + 1 /\ lines' = 0 /\ writer' = "clearA" /\ seq' = 0 /\ tmp' = <<>>
    /\ cleared' = FALSE
    /\ UNCHANGED <<flash, published>>

\* The kernel logs a line.
Printk ==
    /\ writer # "off" /\ lines < MaxLines
    /\ lines' = lines + 1
    /\ UNCHANGED <<flash, boot, writer, seq, tmp, published, cleared>>

\* The headers are invalidated, slot A first.
ClearA ==
    /\ writer = "clearA" /\ writer' = "clearB"
    /\ header' = [header EXCEPT !["A"] = NoHeader]
    /\ published' = <<>>
    /\ UNCHANGED <<payload, boot, lines, seq, tmp, cleared>>
ClearB_skipped ==
    /\ writer = "clearB" /\ writer' = "dmesg"
    /\ cleared' = TRUE
    /\ UNCHANGED <<header, payload, boot, lines, seq, tmp, published>>
ClearB ==
    /\ writer = "clearB" /\ writer' = "dmesg"
    /\ header' = [header EXCEPT !["B"] = NoHeader]
    /\ cleared' = TRUE
    /\ UNCHANGED <<payload, boot, lines, seq, tmp, published>>

\* dmesg: what the ring buffer holds, oldest line first.
Window ==
    LET lost == IF lines > Ring THEN lines - Ring ELSE 0
    IN [k \in 1..(lines - lost) |-> <<boot, lost + k>>]
Dmesg ==
    /\ writer = "dmesg" /\ seq < MaxSeq
    /\ seq' = seq + 1 /\ tmp' = Window /\ writer' = "payload"
    /\ UNCHANGED <<flash, boot, lines, published, cleared>>

Slot_one == "A"
Slot == IF seq % 2 = 1 THEN "A" ELSE "B"

\* The slot's payload once the blocks in K of tmp are on the flash.
Written(K) ==
    [payload EXCEPT ![Slot] = [k \in 1..Ring |-> IF k \in K THEN tmp[k] ELSE @[k]]]

WritePayload ==
    /\ writer = "payload" /\ writer' = "header"
    /\ payload' = Written(1..Len(tmp))
    /\ UNCHANGED <<header, boot, lines, seq, tmp, published, cleared>>

\* The header, and the sleep.
WriteHeader ==
    /\ writer = "header" /\ writer' = "dmesg"
    /\ header' = [header EXCEPT ![Slot] = [seq |-> seq, bytes |-> Len(tmp)]]
    /\ published' = tmp
    /\ UNCHANGED <<payload, boot, lines, seq, tmp, cleared>>

\* The power is cut, during the payload's dd with any of its blocks written.
PowerCut(K) ==
    /\ writer # "off" /\ writer' = "off"
    /\ payload' = Written(K)
    /\ K = {} \/ writer = "payload"
    /\ UNCHANGED <<header, boot, lines, seq, tmp, published, cleared>>

LogNext ==
    \/ PowerOn \/ Printk \/ ClearA \/ ClearB \/ Dmesg \/ WritePayload \/ WriteHeader
    \/ \E K \in SUBSET (1..Len(tmp)) : PowerCut(K)

LogSpec == LogInit /\ [][LogNext]_log

-----------------------------------------------------------------------------
\* read-log.sh: the slot with the greatest seq, of slots with a header.
Valid(s) == header[s].seq > 0
Best == IF header["B"].seq > header["A"].seq THEN "B" ELSE "A"
Read == [k \in 1..header[Best].bytes |-> payload[Best][k]]

-----------------------------------------------------------------------------
\* Whenever the power was cut, also in the middle of a payload that goes over
\* an older one whose header is still there, the reader gets the last snapshot
\* that had its header written, line by line, and nothing of another one.
LastSnapshotRead == writer = "off" /\ published # <<>> => Read = published

\* Once a boot has invalidated the headers nothing of an earlier boot is read:
\* without a snapshot of its own there is no readable slot.
NothingOlder ==
    writer = "off" /\ cleared =>
        \A s \in Slots : Valid(s) /\ s = Best =>
            \A k \in 1..header[s].bytes : payload[s][k][1] = boot
=============================================================================

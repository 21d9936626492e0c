----------------------------- MODULE FlashProofs ----------------------------
(***************************************************************************)
(* What is on the flash when the power goes: of a system that is being     *)
(* deployed, for every number of chunks, every overlap of the two systems  *)
(* and every number of tries and faults (ChunkDeploy); and of the log of a *)
(* boot, for every size of the kernel's buffer and every number of         *)
(* snapshots and boots (BringupLog).                                       *)
(***************************************************************************)
EXTENDS ChunkDeploy, BringupLog, TLAPS

-----------------------------------------------------------------------------
(***************************************************************************)
(* The chunked deploy.                                                     *)
(***************************************************************************)

\* The old system has every chunk.
LEMMA OldSystemType == OldSystem \in [Chunks -> {"old", "part", "new"}]
  BY DEF OldSystem

LEMMA InitInv == Init => IInv
<1> SUFFICES ASSUME Init PROVE IInv
  OBVIOUS
<1>1. TypeOK
  <2>1. body \in [Chunks -> {"old", "part", "new"}]
    BY OldSystemType DEF Init
  <2>2. magic \in BOOLEAN /\ ssh \in BOOLEAN
    BY Zenon DEF Init
  <2>3. chunk \in Chunks /\ try \in 1..MaxTries /\ faults \in 0..MaxFaults
    BY ConstantsAssumption DEF Init, Chunks
  <2> QED
    BY <2>1, <2>2, <2>3 DEF Init, TypeOK
<1>2. MagicHeld /\ InOrder
  BY DEF Init, MagicHeld, NeverHalf, InOrder, Writing
<1> QED
  BY <1>1, <1>2 DEF IInv

\* What a write may change: only its own chunk, never for the worse, and the
\* magic only if that chunk is chunk 0.
Kept ==
    /\ body' \in [Chunks -> {"old", "part", "new"}] /\ magic' \in BOOLEAN
    /\ \A c \in Chunks : body[c] = "new" => body'[c] = "new"
    /\ chunk # 0 => magic' = magic

LEMMA PrefixKeeps ==
  ASSUME TypeOK, WritePrefix PROVE Kept
<1>1. magic' \in BOOLEAN /\ (chunk # 0 => magic' = magic)
  BY Zenon DEF TypeOK, WritePrefix
<1>2. /\ body' \in [Chunks -> {"old", "part", "new"}]
      /\ \A c \in Chunks : body[c] = "new" => body'[c] = "new"
  BY DEF TypeOK, WritePrefix
<1> QED
  BY <1>1, <1>2 DEF Kept

LEMMA WholeKeeps ==
  ASSUME TypeOK, WriteWhole PROVE Kept
<1>1. magic' \in BOOLEAN /\ (chunk # 0 => magic' = magic)
  BY Zenon DEF TypeOK, WriteWhole
<1>2. /\ body' \in [Chunks -> {"old", "part", "new"}]
      /\ \A c \in Chunks : body[c] = "new" => body'[c] = "new"
  BY DEF TypeOK, WriteWhole
<1> QED
  BY <1>1, <1>2 DEF Kept

LEMMA NothingKeeps ==
  ASSUME TypeOK, WriteNothing PROVE Kept
  BY DEF TypeOK, WriteNothing, Kept

\* While a chunk is being written, whatever the write comes to, the magic is
\* in place only over trailing chunks that are all written.
LEMMA WriteHeld ==
  ASSUME IInv, pc = "write", Kept, blind' = blind
  PROVE  /\ MagicHeld'
         /\ \A c \in Chunks \ {0} : c < chunk \/ chunk = 0 => body'[c] = "new"
         /\ magic' /\ "zero" \notin blind => chunk = 0
  BY DEF IInv, TypeOK, InOrder, Writing, MagicHeld, NeverHalf, Kept

\* Giving up on a try, or going on with the next one.
LEMMA RetryType ==
  ASSUME TypeOK, Retry
  PROVE  /\ pc' \in {"write", "failed"} /\ chunk' = chunk
         /\ try' \in 1..MaxTries
  BY ConstantsAssumption DEF TypeOK, Retry

LEMMA StepInv == IInv /\ [Next]_vars => IInv'
<1> SUFFICES ASSUME IInv, [Next]_vars PROVE IInv'
  OBVIOUS
<1> USE ConstantsAssumption DEF IInv, TypeOK, MagicHeld, NeverHalf, InOrder, Writing, Chunks, Deployed
<1>1. CASE Start
  BY <1>1 DEF Start, Ended, Fault
<1>2. CASE Guard
  <2>1. faults' \in 0..MaxFaults /\ pc' \in {"idle", "zero"}
    BY <1>2 DEF Guard, Pass, Fault
  <2>2. /\ blind' \subseteq {"mounts", "zero"}
        /\ "zero" \in blind => "zero" \in blind' \/ blind' = blind
    BY <1>2, Zenon DEF Guard, Pass
  <2>3. pc' = "zero" /\ dev = "stage2" => "mounts" \in blind'
    BY <1>2 DEF Guard, Pass
  <2> QED
    BY <1>2, <2>1, <2>2, <2>3 DEF Guard
<1>3. CASE MagicZero
  <2>1. blind' \subseteq {"mounts", "zero"} /\ magic' \in BOOLEAN
    BY <1>3, Zenon DEF MagicZero
  <2>2. faults' \in 0..MaxFaults
    BY <1>3 DEF MagicZero, Fault
  <2>3. CASE Answers
    <3>1. chunk' \in Chunks /\ \A c \in Chunks \ {0} : ~(c < chunk' \/ chunk' = 0)
      BY <1>3, <2>3 DEF MagicZero, FirstChunk
    <3>2. TypeOK'
      BY <1>3, <2>1, <2>2, <2>3, <3>1 DEF MagicZero
    <3>3. \/ ~magic' /\ blind' = blind \ {"zero"}
          \/ magic' = magic /\ blind' = blind \cup (IF magic THEN {"zero"} ELSE {})
      BY <1>3, <2>3 DEF MagicZero
    <3>4. MagicHeld'
      BY <1>3, <3>3 DEF MagicZero
    <3>5. InOrder'
      BY <1>3, <2>3, <3>1, <3>3 DEF MagicZero
    <3> QED
      BY <3>2, <3>4, <3>5
  <2>4. CASE ~Answers
    BY <1>3, <2>1, <2>2, <2>4 DEF MagicZero
  <2> QED
    BY <2>3, <2>4
<1>4. CASE DeviceGone
  BY <1>4 DEF DeviceGone
<1>5. CASE HashFirst
  BY <1>5 DEF HashFirst, NextChunk, AfterChunk, Matches, Fault, Answers
<1>6. CASE Write
  <2>1. pc = "write" /\ Kept
    BY <1>6, PrefixKeeps, WholeKeeps, NothingKeeps DEF Write
  <2>2. /\ dev' = dev /\ ssh' = ssh /\ chunk' = chunk
        /\ pc' \in {"write", "verify", "failed"}
        /\ try' \in 1..MaxTries /\ faults' \in 0..MaxFaults
    BY <1>6, RetryType DEF Write, Fault
  <2>3. blind' = blind
    BY <1>6 DEF Write
  <2> QED
    BY <2>1, <2>2, <2>3, WriteHeld DEF Kept
<1>7. CASE Verify
  BY <1>7 DEF Verify, NextChunk, AfterChunk, Matches, Retry, Fault, Answers
<1>8. CASE Sync
  BY <1>8 DEF Sync
<1>9. CASE Interrupt
  <2>1. CASE pc = "write" /\ Answers
    <3>1. Kept
      BY <1>9, <2>1, PrefixKeeps DEF Interrupt
    <3> QED
      BY <1>9, <2>1, <3>1, WriteHeld DEF Interrupt, Kept, Fault
  <2>2. CASE ~(pc = "write" /\ Answers)
    BY <1>9, <2>2 DEF Interrupt, WriteNothing, Fault
  <2> QED
    BY <2>1, <2>2
<1>10. CASE Reset
  BY <1>10 DEF Reset, Fault, script
<1>11. CASE ResetInWrite
  <2>1. pc = "write" /\ Kept
    BY <1>11, PrefixKeeps DEF ResetInWrite
  <2>2. /\ dev' = "off" /\ ssh' = ssh /\ chunk' = chunk
        /\ pc' \in {"write", "verify", "failed"}
        /\ try' \in 1..MaxTries /\ faults' \in 0..MaxFaults
    BY <1>11, RetryType DEF ResetInWrite, Fault
  <2>3. blind' = blind
    BY <1>11 DEF ResetInWrite
  <2> QED
    BY <2>1, <2>2, <2>3, WriteHeld DEF Kept
<1>12. CASE Boot
  BY <1>12 DEF Boot, script
<1>13. CASE Mount
  BY <1>13 DEF Mount, script
<1>14. CASE Latch
  BY <1>14 DEF Latch, script, Ended
<1>15. CASE Unlatch
  BY <1>15 DEF Unlatch, script, Ended, Whole, Fault
<1>16. CASE PowerCycle
  BY <1>16 DEF PowerCycle, script, Ended
<1>17. CASE UNCHANGED vars
  BY <1>17 DEF vars, script
<1> QED
  BY <1>1, <1>2, <1>3, <1>4, <1>5, <1>6, <1>7, <1>8, <1>9, <1>10, <1>11, <1>12,
     <1>13, <1>14, <1>15, <1>16, <1>17 DEF Next, ScriptStep

\* The strengthened invariant holds of every behaviour.
THEOREM Invariance == Spec => []IInv
  BY InitInv, StepInv, PTL DEF Spec

\* Whenever the magic is in place, and with it a boot possible, the flash has
\* the old system untouched or all the trailing chunks of the image, unless the
\* last magic_zero of deploy.sh was lost, which nothing there would notice.
THEOREM MagicHeldAlways == Spec => []MagicHeld
<1>1. IInv => MagicHeld
  BY DEF IInv
<1> QED
  BY <1>1, Invariance, PTL

\* No trailing chunk is written under a mounted root by a run that got its list
\* of mounts and zeroed the magic, whatever device it was started on.
THEOREM TrailingUnmountedAlways == Spec => []TrailingUnmounted
<1>1. IInv => TrailingUnmounted
  BY DEF IInv, InOrder, Writing, TrailingUnmounted
<1> QED
  BY <1>1, Invariance, PTL

\* "WRITE COMPLETE" is only said of a flash that holds the whole image.
THEOREM CompleteIsWholeAlways == Spec => CompleteIsWhole
<1> DEFINE A == pc' = "done" /\ pc # "done" => Deployed
<1>1. ASSUME IInv, [Next]_vars PROVE [A]_vars
  <2>1. CASE Sync
    BY <1>1, <2>1 DEF Sync, IInv, InOrder
  <2>2. CASE ~Sync /\ pc' = "done"
    BY <1>1, <2>2 DEF Next, ScriptStep, Start, Guard, Pass, MagicZero, DeviceGone, HashFirst,
       Write, Verify, NextChunk, Retry, Interrupt, Reset, ResetInWrite, Boot, Mount,
       Latch, Unlatch, PowerCycle, script, vars
  <2> QED
    BY <2>1, <2>2
<1> QED
  BY <1>1, Invariance, PTL DEF Spec, CompleteIsWhole

-----------------------------------------------------------------------------
(***************************************************************************)
(* The bring-up log.  The slot that is being rewritten never has the       *)
(* greater seq, and the other one holds the last snapshot whole.           *)
(***************************************************************************)

Block == Nat \X Nat

LogTypeOK ==
    /\ header \in [Slots -> [seq : Nat, bytes : 0..Ring]]
    /\ payload \in [Slots -> [1..Ring -> Block]]
    /\ boot \in Nat /\ lines \in Nat /\ seq \in Nat
    /\ writer \in {"off", "clearA", "clearB", "dmesg", "payload", "header"}
    /\ tmp \in Seq(Block) /\ Len(tmp) \in 0..Ring
    /\ published \in Seq(Block) /\ cleared \in BOOLEAN

\* The last seq that got its header, while the writer is in its loop, and the
\* slot it is in.
Last == IF writer = "dmesg" THEN seq ELSE seq - 1
SlotOf(n) == IF n % 2 = 1 THEN "A" ELSE "B"
OtherSlot(s) == IF s = "A" THEN "B" ELSE "A"

\* The headers while the writer is in its loop.
HeadersInv ==
    writer \in {"dmesg", "payload", "header"} =>
        /\ Last \in Nat
        /\ header[SlotOf(Last)].seq = Last
        /\ header[OtherSlot(SlotOf(Last))].seq = IF Last = 0 THEN 0 ELSE Last - 1
        /\ Last = 0 => published = <<>>

\* The snapshot that is being written is of this boot; once it is on the flash
\* its blocks are those of tmp.
SnapshotInv ==
    /\ writer \in {"payload", "header"} => \A k \in 1..Len(tmp) : tmp[k][1] = boot
    /\ writer = "header" => \A k \in 1..Len(tmp) : payload[Slot][k] = tmp[k]

\* Both headers are cleared before the loop, and a boot begins with neither.
ClearedInv ==
    /\ writer \in {"clearA", "clearB"} => ~cleared /\ seq = 0
    /\ writer = "clearB" => header["A"] = NoHeader /\ published = <<>>

\* The two properties, at every moment and not only without power.
ReadInv == published # <<>> => Read = published
OlderInv ==
    cleared => \A s \in Slots : Valid(s) /\ s = Best =>
        \A k \in 1..header[s].bytes : payload[s][k][1] = boot

LogInv ==
    /\ LogTypeOK /\ HeadersInv /\ SnapshotInv /\ ClearedInv
    /\ ReadInv /\ OlderInv

LEMMA LogInitInv == LogInit => LogInv
  <1> SUFFICES ASSUME LogInit PROVE LogInv
    OBVIOUS
  <1>1. LogTypeOK
    <2>1. NoHeader \in [seq : Nat, bytes : 0..Ring] /\ NoBlock \in Block
      BY LogAssumption DEF NoHeader, NoBlock, Block
    <2>2. header \in [Slots -> [seq : Nat, bytes : 0..Ring]]
          /\ payload \in [Slots -> [1..Ring -> Block]]
      BY <2>1 DEF LogInit
    <2>3. <<>> \in Seq(Block) /\ Len(<<>>) = 0 /\ 0 \in 0..Ring
      BY LogAssumption
    <2> QED
      BY <2>2, <2>3 DEF LogInit, LogTypeOK
  <1> QED
    BY <1>1 DEF LogInit, LogInv, HeadersInv, SnapshotInv, ClearedInv, ReadInv, OlderInv

\* Nothing about the flash changes.
LEMMA FlashKept ==
    ASSUME LogInv, UNCHANGED <<flash, published>>
    PROVE  ReadInv' /\ (boot' = boot /\ cleared' = cleared => OlderInv')
  BY DEF LogInv, ReadInv, OlderInv, flash, Read, Best, Valid

\* In the writer's loop the slot of the last header is the one that is read,
\* and the next snapshot goes to the other one.
LEMMA SlotsAlternate ==
    ASSUME NEW n \in Nat
    PROVE  /\ SlotOf(n) \in Slots /\ OtherSlot(SlotOf(n)) \in Slots
           /\ SlotOf(n + 1) = OtherSlot(SlotOf(n)) /\ SlotOf(n + 1) # SlotOf(n)
           /\ \A s \in Slots : s = SlotOf(n) \/ s = SlotOf(n + 1)
  BY DEF SlotOf, OtherSlot, Slots

LEMMA BestIsLast ==
    ASSUME LogInv, writer \in {"dmesg", "payload", "header"}
    PROVE  /\ Last > 0 => Best = SlotOf(Last)
           /\ Last = 0 => published = <<>> /\ \A s \in Slots : ~Valid(s)
  <1>1. /\ Last \in Nat /\ header[SlotOf(Last)].seq = Last
        /\ header[OtherSlot(SlotOf(Last))].seq = IF Last = 0 THEN 0 ELSE Last - 1
        /\ Last = 0 => published = <<>>
    BY DEF LogInv, HeadersInv
  <1>2. ASSUME Last > 0 PROVE Best = SlotOf(Last)
    BY <1>1, <1>2 DEF Best, SlotOf, OtherSlot
  <1>3. ASSUME Last = 0, NEW s \in Slots PROVE ~Valid(s)
    BY <1>1, <1>3 DEF Valid, SlotOf, OtherSlot, Slots
  <1> QED
    BY <1>1, <1>2, <1>3

\* Any part of the snapshot over the payload of the writer's slot leaves what
\* is read as it was.
LEMMA PayloadKept ==
    ASSUME LogInv, NEW K \in SUBSET (1..Len(tmp)), K = {} \/ writer = "payload",
           payload' = Written(K), UNCHANGED <<header, published, boot, cleared>>
    PROVE  /\ payload' \in [Slots -> [1..Ring -> Block]]
           /\ \A k \in K : payload'[Slot][k] = tmp[k]
           /\ ReadInv' /\ OlderInv'
  <1>1. Slot \in Slots
    BY DEF Slot, Slots
  <1>2. \A k \in K : k \in 1..Ring /\ tmp[k] \in Block
    BY LogAssumption DEF LogInv, LogTypeOK
  <1>3. /\ payload' \in [Slots -> [1..Ring -> Block]]
        /\ \A s \in Slots \ {Slot} : payload'[s] = payload[s]
        /\ \A k \in 1..Ring : payload'[Slot][k] = IF k \in K THEN tmp[k] ELSE payload[Slot][k]
    BY <1>1, <1>2 DEF LogInv, LogTypeOK, Written
  <1>4. Best \in Slots /\ header[Best].bytes \in 0..Ring /\ Best' = Best
    BY DEF LogInv, LogTypeOK, Best, Slots
  <1>5. CASE \A k \in 1..Ring : payload'[Best][k] = payload[Best][k]
    <2> DEFINE n == header[Best].bytes
    <2>1. \A k \in 1..n : payload'[Best][k] = payload[Best][k]
      BY <1>4, <1>5, LogAssumption
    <2>2. Read' = Read
      <3>1. Read' = [k \in 1..n |-> payload'[Best][k]]
        BY <1>4 DEF Read
      <3> QED
        BY <2>1, <3>1 DEF Read
    <2>3. ReadInv'
      BY <2>2 DEF LogInv, ReadInv
    <2>4. OlderInv'
      <3> SUFFICES ASSUME cleared, Valid(Best), NEW k \in 1..n
                   PROVE  payload'[Best][k][1] = boot
        BY <1>4 DEF OlderInv, Valid
      <3> QED
        BY <1>4, <2>1 DEF LogInv, OlderInv
    <2> QED
      BY <1>2, <1>3, <2>3, <2>4
  <1>6. CASE ~(\A k \in 1..Ring : payload'[Best][k] = payload[Best][k])
    <2>1. Best = Slot /\ writer = "payload"
      BY <1>3, <1>4, <1>6
    <2>2. Last = 0
      <3>1. Last \in Nat /\ seq = Last + 1 /\ Slot = SlotOf(seq)
        BY <2>1 DEF LogInv, LogTypeOK, HeadersInv, Last, Slot, SlotOf
      <3> QED
        BY <2>1, <3>1, BestIsLast, SlotsAlternate
    <2>3. published = <<>> /\ \A s \in Slots : ~Valid(s)
      BY <2>1, <2>2, BestIsLast
    <2> QED
      BY <1>2, <1>3, <2>3 DEF ReadInv, OlderInv, Valid
  <1> QED
    BY <1>5, <1>6

LEMMA LogStepInv == ASSUME LogInv, [LogNext]_log PROVE LogInv'
  <1> USE DEF LogInv
  <1>1. CASE PowerOn
    <2>1. LogTypeOK'
      <3>1. <<>> \in Seq(Block) /\ Len(<<>>) = 0 /\ 0 \in 0..Ring
        BY LogAssumption
      <3>2. tmp' \in Seq(Block) /\ Len(tmp') \in 0..Ring
        BY <1>1, <3>1, Zenon DEF PowerOn
      <3>3. /\ UNCHANGED <<header, payload, published>>
            /\ boot' = boot + 1 /\ lines' = 0 /\ seq' = 0
            /\ writer' = "clearA" /\ cleared' = FALSE
        BY <1>1, Zenon DEF PowerOn, flash
      <3>4. boot' \in Nat /\ lines' \in Nat /\ seq' \in Nat
        BY <3>3 DEF LogTypeOK
      <3> QED
        BY <3>2, <3>3, <3>4, Zenon DEF LogTypeOK
    <2>2. ReadInv'
      BY <1>1, FlashKept DEF PowerOn
    <2> QED
      BY <1>1, <2>1, <2>2 DEF PowerOn, HeadersInv, SnapshotInv, ClearedInv, OlderInv
  <1>2. CASE Printk
    BY <1>2, FlashKept DEF Printk, flash, LogTypeOK, HeadersInv, Last, SnapshotInv, Slot, ClearedInv
  <1>3. CASE ClearA
    <2>1. LogTypeOK' /\ header'["A"] = NoHeader
      <3>1. NoHeader \in [seq : Nat, bytes : 0..Ring] /\ <<>> \in Seq(Block) /\ "A" \in Slots
        BY LogAssumption DEF NoHeader, Slots
      <3> QED
        BY <1>3, <3>1 DEF ClearA, LogTypeOK
    <2> QED
      BY <1>3, <2>1 DEF ClearA, HeadersInv, SnapshotInv, ClearedInv, ReadInv, OlderInv
  <1>4. CASE ClearB
    <2>1. LogTypeOK' /\ header'["A"] = NoHeader /\ header'["B"] = NoHeader
      <3>1. NoHeader \in [seq : Nat, bytes : 0..Ring] /\ "B" \in Slots /\ "A" \in Slots
        BY LogAssumption DEF NoHeader, Slots
      <3> QED
        BY <1>4, <3>1 DEF ClearB, ClearedInv, LogTypeOK
    <2>2. writer' = "dmesg" /\ published' = <<>> /\ seq' = 0
      BY <1>4 DEF ClearB, ClearedInv
    <2>3. \A s \in Slots : header'[s].seq = 0
      BY <2>1 DEF NoHeader, Slots
    <2>4. HeadersInv'
      BY <2>2, <2>3 DEF HeadersInv, Last, SlotOf, OtherSlot, Slots
    <2> QED
      BY <2>1, <2>2, <2>3, <2>4 DEF SnapshotInv, ClearedInv, ReadInv, OlderInv, Valid
  <1>5. CASE Dmesg
    <2>1. /\ Window \in Seq(Block) /\ Len(Window) \in 0..Ring
          /\ \A k \in 1..Len(Window) : Window[k][1] = boot
      <3> DEFINE lost == IF lines > Ring THEN lines - Ring ELSE 0
                 n == lines - lost
      <3>1. lost \in Nat /\ n \in 0..Ring
        BY LogAssumption DEF LogTypeOK
      <3>2. \A k \in 1..n : <<boot, lost + k>> \in Block
        BY <3>1 DEF LogTypeOK, Block
      <3>3. Window = [k \in 1..n |-> <<boot, lost + k>>]
        BY DEF Window
      <3> HIDE DEF lost, n
      <3>4. Window \in [1..n -> Block]
        BY <3>2, <3>3, Zenon
      <3>5. Window \in Seq(Block) /\ Len(Window) = n
        BY <3>1, <3>4, LogAssumption
      <3> QED
        BY <3>1, <3>3, <3>5
    <2>2. tmp' = Window /\ seq' = seq + 1 /\ writer = "dmesg" /\ writer' = "payload"
      BY <1>5 DEF Dmesg
    <2>3. LogTypeOK'
      BY <1>5, <2>1, <2>2 DEF Dmesg, flash, LogTypeOK
    <2>4. HeadersInv'
      <3>1. Last' = Last
        BY <2>2 DEF Last, LogTypeOK
      <3> QED
        BY <1>5, <3>1 DEF Dmesg, flash, HeadersInv
    <2>5. SnapshotInv'
      BY <1>5, <2>1, <2>2 DEF Dmesg, SnapshotInv
    <2> QED
      BY <1>5, <2>2, <2>3, <2>4, <2>5, FlashKept DEF Dmesg, ClearedInv
  <1>6. CASE WritePayload
    <2>1. /\ payload' \in [Slots -> [1..Ring -> Block]]
          /\ \A k \in 1..Len(tmp) : payload'[Slot][k] = tmp[k]
          /\ ReadInv' /\ OlderInv'
      BY <1>6, PayloadKept DEF WritePayload
    <2>2. Last' = Last /\ Slot' = Slot
      BY <1>6 DEF WritePayload, Last, Slot
    <2>3. HeadersInv' /\ SnapshotInv'
      BY <1>6, <2>1, <2>2 DEF WritePayload, HeadersInv, SnapshotInv
    <2> QED
      BY <1>6, <2>1, <2>3 DEF WritePayload, LogTypeOK, ClearedInv
  <1>7. CASE WriteHeader
    <2> DEFINE h == [seq |-> seq, bytes |-> Len(tmp)]
    <2>1. /\ Last \in Nat /\ seq = Last + 1 /\ Slot = SlotOf(seq) /\ Slot \in Slots
          /\ Last' = seq
      BY <1>7 DEF WriteHeader, LogTypeOK, HeadersInv, Last, Slot, SlotOf, Slots
    <2>2. /\ h \in [seq : Nat, bytes : 0..Ring]
          /\ header' \in [Slots -> [seq : Nat, bytes : 0..Ring]]
          /\ header'[Slot] = h
          /\ \A s \in Slots \ {Slot} : header'[s] = header[s]
      BY <1>7, <2>1 DEF WriteHeader, LogTypeOK
    <2>3. LogTypeOK'
      BY <1>7, <2>2 DEF WriteHeader, LogTypeOK
    <2>4. SlotOf(Last) \in Slots \ {Slot} /\ OtherSlot(Slot) = SlotOf(Last)
      BY <2>1, SlotsAlternate DEF SlotOf, OtherSlot
    <2>5. HeadersInv'
      <3>1. header'[SlotOf(Last)].seq = Last /\ header'[SlotOf(seq)].seq = seq
        BY <1>7, <2>1, <2>2, <2>4 DEF WriteHeader, HeadersInv
      <3> QED
        BY <2>1, <2>4, <3>1 DEF HeadersInv
    <2>6. Best' = Slot
      <3>1. header'[Slot].seq = Last + 1 /\ header'[OtherSlot(Slot)].seq = Last
        BY <1>7, <2>1, <2>2, <2>4 DEF WriteHeader, HeadersInv
      <3> QED
        BY <2>1, <3>1 DEF Best, OtherSlot, Slots
    <2>7. /\ \A k \in 1..Len(tmp) : payload'[Slot][k] = tmp[k] /\ tmp[k][1] = boot
          /\ header'[Slot].bytes = Len(tmp)
      BY <1>7, <2>2 DEF WriteHeader, SnapshotInv
    <2>8. ReadInv'
      <3>1. Read' = [k \in 1..Len(tmp) |-> payload'[Slot][k]]
        BY <2>6, <2>7 DEF Read
      <3>2. Read' = [k \in 1..Len(tmp) |-> tmp[k]]
        BY <2>7, <3>1
      <3>3. tmp = [k \in 1..Len(tmp) |-> tmp[k]]
        BY DEF LogTypeOK
      <3> QED
        BY <1>7, <3>2, <3>3 DEF WriteHeader, ReadInv
    <2>9. OlderInv'
      BY <1>7, <2>6, <2>7 DEF WriteHeader, OlderInv
    <2> QED
      BY <1>7, <2>3, <2>5, <2>8, <2>9 DEF WriteHeader, SnapshotInv, ClearedInv
  <1>8. ASSUME NEW K \in SUBSET (1..Len(tmp)), PowerCut(K) PROVE LogInv'
    <2>1. payload' \in [Slots -> [1..Ring -> Block]] /\ ReadInv' /\ OlderInv'
      BY <1>8, PayloadKept DEF PowerCut
    <2> QED
      BY <1>8, <2>1 DEF PowerCut, LogTypeOK, HeadersInv, SnapshotInv, ClearedInv
  <1>9. CASE UNCHANGED log
    BY <1>9, FlashKept DEF log, flash, LogTypeOK, HeadersInv, Last, SnapshotInv, Slot, ClearedInv
  <1> QED
    BY <1>1, <1>2, <1>3, <1>4, <1>5, <1>6, <1>7, <1>8, <1>9 DEF LogNext

\* A power cut at any moment leaves the last snapshot that had its header
\* readable and whole, for every ring size and number of snapshots (the writer
\* of modules/bringup-log and read-log.sh).
THEOREM LastSnapshotIsRead == LogSpec => []LastSnapshotRead
  <1>1. LogInv => LastSnapshotRead
    BY DEF LogInv, ReadInv, LastSnapshotRead
  <1> QED
    BY <1>1, LogInitInv, LogStepInv, PTL DEF LogSpec

\* Once a boot has cleared the headers, the reader gets lines of that boot
\* only, although the payloads of earlier boots are still on the flash.
THEOREM NothingOlderIsRead == LogSpec => []NothingOlder
  <1>1. LogInv => NothingOlder
    BY DEF LogInv, OlderInv, NothingOlder
  <1> QED
    BY <1>1, LogInitInv, LogStepInv, PTL DEF LogSpec
=============================================================================

--------------------------- MODULE WmtLoaderProofs --------------------------
(***************************************************************************)
(* The WMT loader, for every content of the firmware directory, every      *)
(* MAX_PATCH_NUM and any number of failing calls, kills and restarts: what *)
(* the kernel knows of the patches when the chip is on, that the unit only *)
(* serves a chip whose init succeeded, and that it never stalls itself.    *)
(***************************************************************************)
EXTENDS WmtLoader, TLAPS, FiniteSetTheorems, WellFoundedInduction

-----------------------------------------------------------------------------
(***************************************************************************)
(* Induction over the naturals, in the form the provers can use.           *)
(***************************************************************************)

LEMMA Least ==
    ASSUME NEW T \in SUBSET Nat, T # {}
    PROVE  \E m \in T : \A n \in T : m <= n
  <1> DEFINE R == OpToRel(<, Nat)
  <1>1. IsWellFoundedOn(R, Nat)
    BY NatLessThanWellFounded, Zenon
  <1>2. \A x, y \in Nat : x < y => <<x, y>> \in R
    BY Zenon DEF OpToRel
  <1> HIDE DEF R
  <1>3. T \subseteq Nat
    OBVIOUS
  <1>4. PICK x \in T : \A y \in T : ~ (<<y, x>> \in R)
    BY <1>1, <1>3, WFMin, Zenon
  <1>5. \A y \in T : ~ (y < x)
    BY <1>2, <1>3, <1>4, Zenon
  <1> QED
    BY <1>3, <1>5

LEMMA Induction ==
    ASSUME NEW T \in SUBSET Nat, 0 \in T, \A n \in T : n + 1 \in T
    PROVE  T = Nat
  <1> SUFFICES ASSUME T # Nat PROVE FALSE
    OBVIOUS
  <1>1. PICK m \in Nat \ T : \A n \in Nat \ T : m <= n
    BY Least
  <1>2. m - 1 \in Nat /\ m - 1 \in T
    BY <1>1
  <1> QED
    BY <1>1, <1>2

-----------------------------------------------------------------------------
(***************************************************************************)
(* collect() sorts: whatever order the directory is read in, the result    *)
(* lists the files in the order of their names.                            *)
(***************************************************************************)

Increasing(l) == \A i, j \in DOMAIN l : i < j => l[i] < l[j]

\* Every finite set of names can be listed in order.
LEMMA OrderExists ==
    ASSUME NEW S \in SUBSET Nat, IsFiniteSet(S)
    PROVE  \E l \in [1..Cardinality(S) -> S] : Increasing(l)
  <1> DEFINE P(n) == \A U \in SUBSET Nat :
                        IsFiniteSet(U) /\ Cardinality(U) = n =>
                            \E l \in [1..n -> U] : Increasing(l)
             T == {n \in Nat : P(n)}
  <1>1. P(0)
    <2> SUFFICES ASSUME NEW U \in SUBSET Nat PROVE \E l \in [1..0 -> U] : Increasing(l)
      OBVIOUS
    <2>1. [i \in 1..0 |-> i] \in [1..0 -> U]
      OBVIOUS
    <2>2. Increasing([i \in 1..0 |-> i])
      BY DEF Increasing
    <2> QED
      BY <2>1, <2>2, Zenon
  <1>2. ASSUME NEW n \in Nat, P(n) PROVE P(n + 1)
    <2> SUFFICES ASSUME NEW U \in SUBSET Nat, IsFiniteSet(U), Cardinality(U) = n + 1
                 PROVE  \E l \in [1..(n + 1) -> U] : Increasing(l)
      OBVIOUS
    <2>1. U # {}
      BY FS_EmptySet
    <2>2. PICK m \in U : \A u \in U : m <= u
      BY <2>1, Least
    <2>3. IsFiniteSet(U \ {m}) /\ Cardinality(U \ {m}) = n
      <3>1. IsFiniteSet(U \ {m}) /\ Cardinality(U \ {m}) = Cardinality(U) - 1
        BY FS_RemoveElement
      <3> QED
        BY <3>1
    <2>4. U \ {m} \in SUBSET Nat
      OBVIOUS
    <2>5. PICK l \in [1..n -> U \ {m}] : Increasing(l)
      BY <1>2, <2>3, <2>4, Zenon
    <2> DEFINE g == [i \in 1..(n + 1) |-> IF i = 1 THEN m ELSE l[i - 1]]
    <2>6. g \in [1..(n + 1) -> U]
      OBVIOUS
    <2>7. \A i \in 1..n : l[i] \in Nat /\ m < l[i]
      <3> SUFFICES ASSUME NEW i \in 1..n PROVE l[i] \in Nat /\ m < l[i]
        OBVIOUS
      <3>1. l[i] \in U /\ l[i] # m
        OBVIOUS
      <3>2. l[i] \in Nat /\ m \in Nat /\ m <= l[i]
        BY <2>2, <3>1
      <3> QED
        BY <3>1, <3>2
    <2>8. \A i, j \in 1..n : i < j => l[i] < l[j]
      BY <2>5 DEF Increasing
    <2>9. \A i, j \in 1..(n + 1) : i < j => g[i] < g[j]
      BY <2>7, <2>8
    <2> QED
      BY <2>6, <2>9, Zenon DEF Increasing
  <1> HIDE DEF P
  <1>3. T = Nat
    <2>1. T \in SUBSET Nat /\ 0 \in T
      BY <1>1
    <2>2. \A n \in T : n + 1 \in T
      BY <1>2
    <2> HIDE DEF T
    <2> QED
      BY <2>1, <2>2, Induction
  <1>4. Cardinality(S) \in Nat
    BY FS_CardinalityType
  <1>5. P(Cardinality(S))
    BY <1>3, <1>4
  <1> QED
    BY <1>5, Zenon DEF P

\* An enumeration without repetition misses nothing.
LEMMA EnumerationCovers ==
    ASSUME NEW S, IsFiniteSet(S), NEW l \in SetToSeqs(S)
    PROVE  /\ l \in Seq(S) /\ Len(l) = Cardinality(S) /\ DOMAIN l = 1..Len(l)
           /\ ToSet(l) = S
  <1> DEFINE n == Cardinality(S)
  <1>1. n \in Nat
    BY FS_CardinalityType
  <1>2. l \in [1..n -> S] /\ \A i, j \in 1..n : i # j => l[i] # l[j]
    BY DEF SetToSeqs
  <1>3. IsFiniteSet(1..n) /\ Cardinality(1..n) = n
    BY <1>1, FS_Interval
  <1>4. l \in Injection(1..n, S)
    BY <1>2 DEF Injection, IsInjective
  <1>5. l \in Surjection(1..n, S)
    BY <1>3, <1>4, FS_Injection
  <1>6. {l[i] : i \in 1..n} = S
    BY <1>5 DEF Surjection
  <1> HIDE DEF n
  <1>7. l \in Seq(S) /\ Len(l) = n /\ DOMAIN l = 1..n
    BY <1>1, <1>2
  <1> QED
    BY <1>6, <1>7, Zenon DEF ToSet, n

LEMMA Sorts ==
    ASSUME NEW S \in SUBSET Nat, IsFiniteSet(S), NEW order \in SetToSeqs(S)
    PROVE  qsort(order) \in SetToSeqs(S) /\ Increasing(qsort(order))
  <1>1. ToSet(order) = S
    BY EnumerationCovers
  <1>2. PICK l \in [1..Cardinality(S) -> S] : Increasing(l)
    BY OrderExists
  <1>3. Cardinality(S) \in Nat
    BY FS_CardinalityType
  <1>4. ASSUME NEW i \in 1..Cardinality(S), NEW j \in 1..Cardinality(S), i # j
        PROVE  l[i] # l[j]
    <2>1. l[i] \in Nat /\ l[j] \in Nat
      OBVIOUS
    <2>2. i < j \/ j < i
      BY <1>3, <1>4
    <2>3. l[i] < l[j] \/ l[j] < l[i]
      BY <1>2, <2>2 DEF Increasing
    <2> QED
      BY <2>1, <2>3
  <1>5. l \in SetToSeqs(S)
    BY <1>4, Zenon DEF SetToSeqs
  <1> QED
    BY <1>1, <1>2, <1>5, Zenon DEF qsort, Increasing

-----------------------------------------------------------------------------
(***************************************************************************)
(* The inductive invariant.                                                *)
(***************************************************************************)

TypeOK ==
    /\ dir \in Dirs
    /\ patch_num \in Nat /\ table \in [1..MaxPatchNum -> Nat] /\ rom \subseteq dir.ram
    /\ power \in {"off", "busy", "on"}
    /\ pc \in Running \cup Serving \cup {"retry", "stopped"}
    /\ reply \in {"ok", "fail"}
    /\ faults \in Nat /\ kills \in Nat

\* A list of the files of a search: all of them, in the order of their names.
Sorted(l, files) ==
    /\ l \in Seq(Nat) /\ Len(l) = Cardinality(files) /\ Len(l) \in 1..MaxPatchNum
    /\ {l[i] : i \in 1..Len(l)} = files
    /\ \A i, j \in 1..Len(l) : i < j => l[i] < l[j]

\* What the kernel knows once a search is answered.
RomTold == rom = dir.ram
TableTold ==
    /\ patch_num = Cardinality(dir.patch)
    /\ {table[s] : s \in 1..patch_num} = dir.patch
    /\ \A s, t \in 1..patch_num : s < t => table[s] < table[t]
Told(c) == IF c = "srh_rom_patch" THEN RomTold ELSE TableTold

\* A search in progress has named the files before k, and one that is about
\* to be answered with "ok" has named them all.
SearchInv ==
    /\ pc \in {"num", "name", "reply"} <=> cmd # None
    /\ pc \in {"num", "name"} =>
         cmd \in Searches /\ Sorted(list, Files(cmd)) /\ k \in 1..Len(list)
    /\ pc = "num" => cmd = "srh_patch" /\ k = 1
    /\ pc = "name" /\ cmd = "srh_patch" =>
         patch_num = Len(list) /\ \A i \in 1..(k - 1) : table[i] = list[i]
    /\ pc = "name" /\ cmd = "srh_rom_patch" => \A i \in 1..(k - 1) : list[i] \in rom
    /\ pc = "reply" /\ reply = "ok" /\ cmd \in Searches => Told(cmd)

\* The size of the table is never another than the number of patches.
NumInv ==
    /\ patch_num \in {0, Cardinality(dir.patch)}
    /\ announced => patch_num = Cardinality(dir.patch)

\* A command is with its reader or with the loader, during a wait, during a
\* power-on; what this power-on has asked is told, refused or still waited for.
AskInv ==
    /\ posted # None \/ cmd # None => wait = "yes"
    /\ posted = None \/ cmd = None
    /\ wait # "no" => power = "busy"
    /\ \A s \in asked \cap Searches :
         \/ Told(s)
         \/ wait = "fail"
         \/ wait = "yes" /\ (posted = s \/ cmd = s \/ (posted = None /\ cmd = None))
    /\ power = "on" => \A s \in Searches : Told(s)

\* Without a kill nothing leads from a failed init back to the service.
KillsInv ==
    kills = 0 =>
        /\ init_before /\ ~good => pc = "stopped"
        /\ pc \in {"stpwmt", "fork"} \cup Serving => good
        /\ good => init_before

\* Without a kill or a failing call, over fine files, the loader is there
\* when its child's power-on asks, and answers.
Answering ==
    /\ pc # "retry"
    /\ child \in {"start", "write"} => pc \in Serving
    /\ child # "failed"
    /\ reply = "ok" /\ wait # "fail"
    /\ posted # Unknown /\ cmd # Unknown
    /\ wait = "yes" => posted # None \/ cmd # None
    /\ announced <=> patch_num # 0
CleanInv == faults = 0 /\ kills = 0 /\ FilesFine => Answering

IInv == TypeOK /\ SearchInv /\ NumInv /\ AskInv /\ KillsInv /\ CleanInv

LEMMA InitInv == Init => IInv
  <1> SUFFICES ASSUME Init PROVE IInv
    OBVIOUS
  <1> USE DEF Init
  <1>1. TypeOK
    BY ConstantsAssumption DEF TypeOK, Running
  <1>2. SearchInv
    BY DEF SearchInv, None
  <1>3. NumInv
    BY DEF NumInv
  <1>4. AskInv
    BY DEF AskInv, None
  <1>5. KillsInv
    BY DEF KillsInv, Serving
  <1>6. CleanInv
    BY DEF CleanInv, Answering, Serving, None, Unknown
  <1> QED
    BY <1>1, <1>2, <1>3, <1>4, <1>5, <1>6 DEF IInv

\* What ReadCommand takes from collect().
LEMMA CollectSorts ==
    ASSUME NEW files \in SUBSET Names, NEW order \in SetToSeqs(files),
           collect(order) # <<>>
    PROVE  Sorted(collect(order), files)
  <1>1. IsFiniteSet(files) /\ files \in SUBSET Nat
    BY ConstantsAssumption, FS_Subset
  <1>2. Len(order) = Cardinality(files) /\ Cardinality(files) \in Nat
    BY <1>1, EnumerationCovers, FS_CardinalityType
  <1>3. ~ (Len(order) > MaxPatchNum) /\ collect(order) = qsort(order)
    BY Zenon DEF collect
  <1> DEFINE l == collect(order)
  <1>4. l \in SetToSeqs(files) /\ Increasing(l)
    BY <1>1, <1>3, Sorts
  <1>5. l \in Seq(files) /\ Len(l) = Cardinality(files) /\ DOMAIN l = 1..Len(l) /\ ToSet(l) = files
    BY <1>1, <1>4, EnumerationCovers
  <1> HIDE DEF l
  <1>6. l # <<>>
    BY DEF l
  <1>7. l \in Seq(Nat) /\ Len(l) # 0
    <2>1. l \in Seq(Nat)
      <3>1. l \in [1..Cardinality(files) -> files]
        BY <1>4 DEF SetToSeqs
      <3>2. l \in [1..Cardinality(files) -> Nat]
        BY <1>1, <3>1
      <3> QED
        BY <1>2, <3>2
    <2>2. ASSUME Len(l) = 0 PROVE FALSE
      BY <1>5, <1>6, <2>2
    <2> QED
      BY <2>1, <2>2
  <1>8. Len(l) \in 1..MaxPatchNum
    BY <1>2, <1>3, <1>5, <1>7, ConstantsAssumption
  <1>9. {l[i] : i \in 1..Len(l)} = files
    BY <1>5, Zenon DEF ToSet
  <1>10. \A i, j \in 1..Len(l) : i < j => l[i] < l[j]
    BY <1>4, <1>5 DEF Increasing
  <1>11. Sorted(l, files)
    BY <1>5, <1>7, <1>8, <1>9, <1>10, Zenon DEF Sorted
  <1> QED
    BY <1>11 DEF l

\* Fine files are found.
LEMMA CollectFinds ==
    ASSUME NEW files \in SUBSET Names, NEW order \in SetToSeqs(files), Readable(files)
    PROVE  collect(order) # <<>>
  <1>1. IsFiniteSet(files) /\ files \in SUBSET Nat
    BY ConstantsAssumption, FS_Subset
  <1>2. Len(order) = Cardinality(files) /\ Cardinality(files) \in Nat
    BY <1>1, EnumerationCovers, FS_CardinalityType
  <1>3. Cardinality(files) <= MaxPatchNum /\ Cardinality(files) # 0
    BY <1>1, FS_EmptySet, Zenon DEF Readable
  <1>4. collect(order) = qsort(order)
    BY <1>2, <1>3, ConstantsAssumption DEF collect
  <1>5. Len(qsort(order)) = Cardinality(files)
    BY <1>1, Sorts, EnumerationCovers
  <1>6. Len(<<>>) = 0
    OBVIOUS
  <1> QED
    BY <1>3, <1>4, <1>5, <1>6, Zenon

LEMMA DirFields == TypeOK => dir.ram \in SUBSET Names /\ dir.patch \in SUBSET Names
  BY ConstantsAssumption DEF TypeOK

-----------------------------------------------------------------------------
(***************************************************************************)
(* Every step keeps it.                                                    *)
(***************************************************************************)

LEMMA TypeStep == IInv /\ [Next]_vars => TypeOK'
  <1> SUFFICES ASSUME IInv, [Next]_vars PROVE TypeOK'
    OBVIOUS
  <1>0. TypeOK
    BY DEF IInv
  <1> USE <1>0 DEF TypeOK, latched, patches, core, loader, Fault
  <1>1. CASE Detect
    BY <1>1 DEF Detect, Running
  <1>2. CASE Cleanup
    BY <1>2 DEF Cleanup, Running
  <1>3. CASE ModuleInit
    <2>1. pc' \in {"stpwmt", "stopped"} /\ UNCHANGED <<dir, patches, core, loader, child, kills>>
      BY <1>3, Zenon DEF ModuleInit
    <2>2. faults' = faults \/ faults' = faults + 1
      BY <1>3, Zenon DEF ModuleInit, driver_init
    <2> QED
      BY <2>1, <2>2 DEF Running
  <1>4. CASE OpenStpwmt
    BY <1>4 DEF OpenStpwmt, Running
  <1>5. CASE Fork
    BY <1>5 DEF Fork, Running, Serving
  <1>6. CASE ReadCommand
    BY <1>6 DEF ReadCommand, Serving
  <1>7. CASE SetPatchNum
    BY <1>7 DEF SetPatchNum, Refuse, Serving, IInv, SearchInv, Sorted
  <1>8. CASE NamePatch
    <2>1. /\ cmd \in Searches /\ list \in Seq(Nat) /\ k \in 1..Len(list)
          /\ Len(list) \in 1..MaxPatchNum /\ {list[i] : i \in 1..Len(list)} = Files(cmd)
      BY <1>8 DEF NamePatch, IInv, SearchInv, Sorted
    <2>2. list[k] \in Files(cmd) /\ list[k] \in Nat /\ k \in 1..MaxPatchNum
      BY <2>1, ConstantsAssumption
    <2>3. cmd # "srh_patch" => list[k] \in dir.ram
      BY <2>1, <2>2 DEF Searches, Files
    <2> QED
      BY <1>8, <2>2, <2>3 DEF NamePatch, Refuse, Serving
  <1>9. CASE Reply
    BY <1>9 DEF Reply, Serving
  <1>10. CASE Reap
    BY <1>10 DEF Reap, Serving
  <1>11. CASE PollFails
    BY <1>11 DEF PollFails
  <1>12. CASE power_on
    BY <1>12 DEF power_on, BeginWrite
  <1>13. CASE PowerOnAgain
    BY <1>13 DEF PowerOnAgain, BeginWrite
  <1>14. CASE Kernel
    BY <1>14 DEF Kernel, Ask, Heard, PowerUp, Refused, TimedOut, EndWrite
  <1>15. CASE ChipFails
    BY <1>15 DEF ChipFails, EndWrite
  <1>16. CASE Kill
    BY <1>16 DEF Kill, driver_init
  <1>17. CASE Restart
    BY <1>17 DEF Restart, Running
  <1>18. CASE UNCHANGED vars
    BY <1>18 DEF vars
  <1> QED
    BY <1>1, <1>2, <1>3, <1>4, <1>5, <1>6, <1>7, <1>8, <1>9, <1>10, <1>11, <1>12, <1>13,
       <1>14, <1>15, <1>16, <1>17, <1>18 DEF Next, Loader

LEMMA ToldSame ==
    ASSUME UNCHANGED <<dir, patches>>, NEW c
    PROVE  Told(c)' <=> Told(c)
  BY DEF patches, Told, RomTold, TableTold

\* A step that neither serves a command nor touches one.
LEMMA SearchQuiet ==
    ASSUME SearchInv, UNCHANGED <<dir, patches, cmd, list, k, reply>>,
           \/ pc' = pc
           \/ pc \notin {"num", "name", "reply"} /\ pc' \notin {"num", "name", "reply"}
    PROVE  SearchInv'
  <1>1. Told(cmd)' <=> Told(cmd)
    BY DEF patches, Told, RomTold, TableTold
  <1>2. Sorted(list, Files(cmd))' <=> Sorted(list, Files(cmd))
    BY DEF Sorted, Files
  <1>3. patch_num' = patch_num /\ table' = table /\ rom' = rom
    BY DEF patches
  <1>4. CASE pc' = pc
    BY <1>1, <1>2, <1>3, <1>4 DEF SearchInv
  <1>5. CASE pc \notin {"num", "name", "reply"} /\ pc' \notin {"num", "name", "reply"}
    BY <1>5 DEF SearchInv
  <1> QED
    BY <1>4, <1>5

LEMMA ReadKeepsSearch == IInv /\ ReadCommand => SearchInv'
  <1> SUFFICES ASSUME IInv, ReadCommand PROVE SearchInv'
    OBVIOUS
  <1>1. posted # None /\ cmd' = posted /\ k' = 1 /\ UNCHANGED <<dir, patches>>
    BY DEF ReadCommand
  <1>2. CASE posted \notin Searches
    <2>1. reply' \in {"ok", "fail"} /\ pc' = "reply"
      BY <1>2 DEF ReadCommand
    <2> QED
      BY <1>1, <1>2, <2>1 DEF SearchInv
  <1>3. CASE posted \in Searches
    <2>1. PICK order \in SetToSeqs(Files(posted)) : list' = collect(order)
      BY <1>3 DEF ReadCommand, Searches, Ack, Unknown
    <2>2. Files(posted) \in SUBSET Names
      BY DirFields DEF IInv, Files
    <2>3. posted # Ack /\ posted # Unknown
      BY <1>3 DEF Searches, Ack, Unknown
    <2>4. /\ reply' = IF list' = <<>> THEN "fail" ELSE "ok"
          /\ pc' = IF list' = <<>> THEN "reply"
                   ELSE IF posted = "srh_patch" THEN "num" ELSE "name"
      BY <2>3, Zenon DEF ReadCommand
    <2>5. CASE list' = <<>>
      <3>1. reply' = "fail" /\ pc' = "reply"
        BY <2>5, <2>4
      <3> QED
        BY <1>1, <3>1 DEF SearchInv
    <2>6. CASE list' # <<>>
      <3>1. Sorted(list', Files(posted))
        BY <2>1, <2>2, <2>6, CollectSorts
      <3>2. Files(cmd)' = Files(posted)
        BY <1>1 DEF Files
      <3>3. Sorted(list, Files(cmd))'
        BY <3>1, <3>2 DEF Sorted
      <3>4. k' \in 1..Len(list')
        BY <1>1, <3>1 DEF Sorted
      <3>5. pc' = (IF posted = "srh_patch" THEN "num" ELSE "name")
        BY <2>6, <2>4
      <3>6. CASE posted = "srh_patch"
        <4>1. pc' = "num"
          BY <3>5, <3>6
        <4> QED
          BY <1>1, <1>3, <3>3, <3>4, <3>6, <4>1 DEF SearchInv
      <3>7. CASE posted = "srh_rom_patch"
        <4>1. pc' = "name" /\ cmd' = "srh_rom_patch"
          BY <1>1, <3>5, <3>7
        <4>2. 1..(k' - 1) = {}
          BY <1>1
        <4> QED
          BY <1>1, <1>3, <3>3, <3>4, <4>1, <4>2 DEF SearchInv
      <3> QED
        BY <1>3, <3>6, <3>7 DEF Searches
    <2> QED
      BY <2>5, <2>6
  <1> QED
    BY <1>2, <1>3

LEMMA SetPatchNumKeepsSearch == IInv /\ SetPatchNum => SearchInv'
  <1> SUFFICES ASSUME IInv, SetPatchNum PROVE SearchInv'
    OBVIOUS
  <1>1. /\ pc = "num" /\ UNCHANGED <<dir, cmd, list, k>>
        /\ \/ pc' = "name" /\ patch_num' \in {patch_num, Len(list)} /\ (announced => patch_num' = patch_num)
              /\ (~announced => patch_num' = Len(list))
           \/ pc' = "reply" /\ reply' = "fail"
    BY DEF SetPatchNum, Refuse
  <1>2. cmd = "srh_patch" /\ k = 1 /\ Sorted(list, Files(cmd)) /\ k \in 1..Len(list) /\ cmd # None
    BY <1>1 DEF IInv, SearchInv
  <1>3. Sorted(list, Files(cmd))'
    BY <1>1, <1>2 DEF Sorted, Files
  <1>4. CASE pc' = "name"
    <2>1. Len(list) = Cardinality(dir.patch)
      BY <1>2 DEF Sorted, Files
    <2>2. patch_num' = Len(list)
      BY <1>1, <1>4, <2>1 DEF IInv, NumInv
    <2>3. 1..(k' - 1) = {}
      BY <1>1, <1>2
    <2> QED
      BY <1>1, <1>2, <1>3, <1>4, <2>2, <2>3 DEF SearchInv, Searches
  <1>5. CASE pc' = "reply" /\ reply' = "fail"
    BY <1>1, <1>2, <1>5 DEF SearchInv
  <1> QED
    BY <1>1, <1>4, <1>5

LEMMA NameKeepsSearch == IInv /\ NamePatch => SearchInv'
  <1> SUFFICES ASSUME IInv, NamePatch PROVE SearchInv'
    OBVIOUS
  <1>1. pc = "name" /\ UNCHANGED <<dir, patch_num, cmd, list>>
    BY DEF NamePatch
  <1>2. /\ cmd \in Searches /\ cmd # None /\ Sorted(list, Files(cmd)) /\ k \in 1..Len(list)
        /\ cmd = "srh_patch" => patch_num = Len(list) /\ \A i \in 1..(k - 1) : table[i] = list[i]
        /\ cmd = "srh_rom_patch" => \A i \in 1..(k - 1) : list[i] \in rom
    BY <1>1 DEF IInv, SearchInv
  <1>3. /\ table \in [1..MaxPatchNum -> Nat] /\ rom \subseteq dir.ram
        /\ list \in Seq(Nat) /\ Len(list) \in 1..MaxPatchNum /\ k \in 1..MaxPatchNum
    BY <1>2, ConstantsAssumption DEF IInv, TypeOK, Sorted
  <1>4. Sorted(list, Files(cmd))'
    BY <1>1, <1>2 DEF Sorted, Files
  <1>5. CASE Refuse
    BY <1>1, <1>2, <1>5 DEF Refuse, SearchInv
  <1>6. CASE ~ Refuse /\ cmd = "srh_patch"
    <2>1. /\ table' = [table EXCEPT ![k] = list[k]] /\ k' = k + 1
          /\ pc' = IF k = Len(list) THEN "reply" ELSE "name"
      BY <1>6 DEF NamePatch
    <2>2. \A i \in 1..k : table'[i] = list[i]
      BY <1>2, <1>3, <1>6, <2>1
    <2>3. CASE k = Len(list)
      <3>1. \A i \in 1..Len(list) : table'[i] = list[i]
        BY <2>2, <2>3
      <3>2. patch_num' = Len(list) /\ dir' = dir
        BY <1>1, <1>2, <1>6
      <3>3. /\ Len(list) = Cardinality(dir.patch)
            /\ {list[i] : i \in 1..Len(list)} = dir.patch
            /\ \A i, j \in 1..Len(list) : i < j => list[i] < list[j]
        BY <1>2, <1>6 DEF Sorted, Files
      <3>4. TableTold'
        BY <3>1, <3>2, <3>3 DEF TableTold
      <3>5. Told(cmd)'
        BY <1>1, <1>6, <3>4 DEF Told
      <3>6. pc' = "reply"
        BY <2>1, <2>3
      <3> QED
        BY <1>1, <1>2, <3>5, <3>6 DEF SearchInv
    <2>4. CASE k # Len(list)
      <3>1. pc' = "name" /\ k' \in 1..Len(list) /\ k' - 1 = k
        BY <1>2, <1>3, <2>1, <2>4
      <3> QED
        BY <1>1, <1>2, <1>4, <1>6, <2>2, <3>1 DEF SearchInv
    <2> QED
      BY <2>3, <2>4
  <1>7. CASE ~ Refuse /\ cmd = "srh_rom_patch"
    <2>1. /\ rom' = rom \cup {list[k]} /\ k' = k + 1
          /\ pc' = IF k = Len(list) THEN "reply" ELSE "name"
      BY <1>7 DEF NamePatch
    <2>2. \A i \in 1..k : list[i] \in rom'
      BY <1>2, <1>3, <1>7, <2>1
    <2>3. CASE k = Len(list)
      <3>1. {list[i] : i \in 1..Len(list)} = dir.ram
        BY <1>2, <1>7 DEF Sorted, Files
      <3>2. rom' = dir.ram
        BY <1>2, <1>3, <2>1, <2>2, <2>3, <3>1
      <3>3. Told(cmd)'
        BY <1>1, <1>7, <3>2 DEF Told, RomTold
      <3>4. pc' = "reply"
        BY <2>1, <2>3
      <3> QED
        BY <1>1, <1>2, <3>3, <3>4 DEF SearchInv
    <2>4. CASE k # Len(list)
      <3>1. pc' = "name" /\ k' \in 1..Len(list) /\ k' - 1 = k
        BY <1>2, <1>3, <2>1, <2>4
      <3> QED
        BY <1>1, <1>2, <1>4, <1>7, <2>2, <3>1 DEF SearchInv
    <2> QED
      BY <2>3, <2>4
  <1> QED
    BY <1>2, <1>5, <1>6, <1>7 DEF Searches

LEMMA SearchStep == IInv /\ [Next]_vars => SearchInv'
  <1> SUFFICES ASSUME IInv, [Next]_vars PROVE SearchInv'
    OBVIOUS
  <1>0. SearchInv
    BY DEF IInv
  <1> USE DEF loader, core
  <1>1. CASE Detect \/ Cleanup \/ ModuleInit \/ OpenStpwmt \/ Fork
    BY <1>0, <1>1, SearchQuiet DEF Detect, Cleanup, ModuleInit, OpenStpwmt, Fork
  <1>2. CASE Reap \/ PollFails \/ Restart
    BY <1>0, <1>2, SearchQuiet DEF Reap, PollFails, Restart
  <1>3. CASE power_on \/ PowerOnAgain
    BY <1>0, <1>3, SearchQuiet DEF power_on, PowerOnAgain
  <1>4. CASE Kernel \/ ChipFails
    BY <1>0, <1>4, SearchQuiet DEF Kernel, Ask, Heard, PowerUp, Refused, TimedOut, ChipFails, EndWrite
  <1>5. CASE UNCHANGED vars
    BY <1>0, <1>5, SearchQuiet DEF vars
  <1>6. CASE Reply \/ Kill
    <2>1. pc' \in {"reap", "retry"} /\ cmd' = None
      BY <1>6 DEF Reply, Kill
    <2> QED
      BY <2>1 DEF SearchInv
  <1> QED
    BY <1>1, <1>2, <1>3, <1>4, <1>5, <1>6, ReadKeepsSearch, SetPatchNumKeepsSearch,
       NameKeepsSearch DEF Next, Loader

LEMMA NumStep == IInv /\ [Next]_vars => NumInv'
  <1> SUFFICES ASSUME IInv, [Next]_vars PROVE NumInv'
    OBVIOUS
  <1>0. NumInv
    BY DEF IInv
  <1> USE DEF loader, patches
  <1>1. CASE SetPatchNum
    <2>1. Len(list) = Cardinality(dir.patch)
      BY <1>1 DEF SetPatchNum, IInv, SearchInv, Sorted, Files
    <2> QED
      BY <1>0, <1>1, <2>1 DEF SetPatchNum, NumInv
  <1>2. CASE Restart
    BY <1>0, <1>2 DEF Restart, NumInv
  <1>3. CASE UNCHANGED <<dir, patch_num, announced>>
    BY <1>0, <1>3 DEF NumInv
  <1>4. CASE Loader /\ ~ SetPatchNum
    BY <1>3, <1>4 DEF Loader, Detect, Cleanup, ModuleInit, OpenStpwmt, Fork, ReadCommand,
                      NamePatch, Reply, Reap
  <1>5. CASE PollFails \/ power_on \/ PowerOnAgain \/ Kill
    BY <1>3, <1>5 DEF PollFails, power_on, PowerOnAgain, Kill
  <1>6. CASE Kernel \/ ChipFails
    BY <1>3, <1>6 DEF Kernel, Ask, Heard, PowerUp, Refused, TimedOut, ChipFails, EndWrite
  <1>7. CASE UNCHANGED vars
    BY <1>3, <1>7 DEF vars
  <1> QED
    BY <1>1, <1>2, <1>4, <1>5, <1>6, <1>7 DEF Next

\* While a command is served, the kernel waits and knows what it asked before.
LEMMA Serves ==
    ASSUME IInv, cmd # None
    PROVE  /\ wait = "yes" /\ power = "busy" /\ posted = None
           /\ \A s \in asked \cap Searches : s = cmd \/ Told(s)
  BY DEF IInv, AskInv, Searches, None

\* When it does not wait, nothing is posted or served and all is told.
LEMMA Idle ==
    ASSUME IInv, wait \in {"no", "ok"}
    PROVE  /\ posted = None /\ cmd = None
           /\ \A s \in asked \cap Searches : Told(s)
  BY DEF IInv, AskInv

LEMMA AskQuiet ==
    ASSUME AskInv, UNCHANGED <<dir, patches, core, cmd>>
    PROVE  AskInv'
  <1>1. \A s : Told(s)' <=> Told(s)
    BY ToldSame
  <1> QED
    BY <1>1 DEF AskInv, core

LEMMA ServeKeepsAsk == IInv /\ (SetPatchNum \/ NamePatch) => AskInv'
  <1> SUFFICES ASSUME IInv, SetPatchNum \/ NamePatch PROVE AskInv'
    OBVIOUS
  <1>1. pc \in {"num", "name"} /\ UNCHANGED <<core, cmd, dir>>
    BY DEF SetPatchNum, NamePatch
  <1>2. cmd \in Searches /\ cmd # None
    BY <1>1 DEF IInv, SearchInv
  <1>3. /\ cmd = "srh_patch" => UNCHANGED rom
        /\ cmd # "srh_patch" => UNCHANGED <<patch_num, table>>
    BY DEF SetPatchNum, NamePatch, IInv, SearchInv
  <1>4. ASSUME NEW s \in asked \cap Searches, s # cmd PROVE Told(s)'
    <2>1. Told(s)
      BY <1>2, <1>4, Serves
    <2>2. CASE s = "srh_rom_patch"
      BY <1>1, <1>2, <1>3, <1>4, <2>1, <2>2 DEF Told, RomTold, Searches
    <2>3. CASE s = "srh_patch"
      BY <1>1, <1>2, <1>3, <1>4, <2>1, <2>3 DEF Told, TableTold, Searches
    <2> QED
      BY <2>2, <2>3 DEF Searches
  <1>5. wait' = "yes" /\ power' = "busy" /\ posted' = None /\ cmd' = cmd /\ asked' = asked
    BY <1>1, <1>2, Serves DEF core
  <1> QED
    BY <1>4, <1>5 DEF AskInv

LEMMA AskStep == IInv /\ [Next]_vars => AskInv'
  <1> SUFFICES ASSUME IInv, [Next]_vars PROVE AskInv'
    OBVIOUS
  <1>0. AskInv
    BY DEF IInv
  <1>1. CASE UNCHANGED <<dir, patches, core, cmd>>
    BY <1>0, <1>1, AskQuiet
  <1>2. CASE Detect \/ Cleanup \/ ModuleInit \/ OpenStpwmt \/ Fork
    BY <1>1, <1>2 DEF Detect, Cleanup, ModuleInit, OpenStpwmt, Fork, loader
  <1>3. CASE Reap \/ PollFails \/ Restart
    BY <1>1, <1>3 DEF Reap, PollFails, Restart, loader
  <1>4. CASE ReadCommand
    <2>1. posted # None /\ cmd' = posted /\ posted' = None /\ UNCHANGED <<dir, patches, power, asked, wait>>
      BY <1>4 DEF ReadCommand
    <2>2. \A s : Told(s)' <=> Told(s)
      BY <2>1, ToldSame
    <2> QED
      BY <1>0, <2>1, <2>2 DEF AskInv
  <1>5. CASE SetPatchNum \/ NamePatch
    BY <1>5, ServeKeepsAsk
  <1>6. CASE Reply
    <2>1. /\ UNCHANGED <<dir, patches, power, asked, posted>> /\ cmd' = None /\ pc = "reply"
          /\ wait' = reply \/ wait' = wait
      BY <1>6 DEF Reply
    <2>2. \A s : Told(s)' <=> Told(s)
      BY <2>1, ToldSame
    <2>3. cmd # None
      BY <2>1 DEF IInv, SearchInv
    <2>4. /\ wait = "yes" /\ power = "busy" /\ posted = None
          /\ \A s \in asked \cap Searches : s = cmd \/ Told(s)
      BY <2>3, Serves
    <2>5. reply = "fail" \/ (reply = "ok" /\ \A s \in asked \cap Searches : Told(s))
      <3>1. reply \in {"ok", "fail"}
        BY DEF IInv, TypeOK
      <3>2. reply = "ok" /\ cmd \in Searches => Told(cmd)
        BY <2>1 DEF IInv, SearchInv
      <3>3. ASSUME reply = "ok", NEW s \in asked \cap Searches PROVE Told(s)
        <4>1. CASE s = cmd
          BY <3>2, <3>3, <4>1, Zenon
        <4> QED
          BY <2>4, <4>1
      <3> QED
        BY <3>1, <3>3
    <2> QED
      BY <2>1, <2>2, <2>4, <2>5 DEF AskInv
  <1>7. CASE power_on \/ PowerOnAgain
    <2>1. UNCHANGED <<dir, patches, cmd>>
      BY <1>7 DEF power_on, PowerOnAgain, loader
    <2>2. CASE ~ UNCHANGED core
      <3>1. /\ power # "busy" /\ power' = (IF power = "on" THEN "on" ELSE "busy")
            /\ asked' = {} /\ UNCHANGED <<posted, wait>>
        BY <1>7, <2>2 DEF power_on, PowerOnAgain, BeginWrite
      <3>2. wait = "no" /\ posted = None /\ cmd = None
        BY <1>0, <3>1 DEF AskInv
      <3>3. \A s : Told(s)' <=> Told(s)
        BY <2>1, ToldSame
      <3> QED
        BY <1>0, <2>1, <3>1, <3>2, <3>3 DEF AskInv
    <2> QED
      BY <1>1, <2>1, <2>2
  <1>8. CASE (\E c \in Commands : Ask(c)) \/ Heard
    <2>1. \A s : Told(s)' <=> Told(s)
      BY <1>8, ToldSame DEF Ask, Heard
    <2>2. UNCHANGED <<power, cmd>>
      BY <1>8 DEF Ask, Heard, loader
    <2>3. CASE Heard
      <3>1. posted = None /\ cmd = None /\ \A s \in asked \cap Searches : Told(s)
        BY <2>3, Idle DEF Heard
      <3> QED
        BY <1>0, <2>1, <2>2, <2>3, <3>1 DEF Heard, AskInv
    <2>4. ASSUME NEW c \in Commands, Ask(c) PROVE AskInv'
      <3>1. posted = None /\ cmd = None /\ \A s \in asked \cap Searches : Told(s)
        BY <2>4, Idle DEF Ask
      <3>2. power = "busy" /\ asked' = asked \cup {c} /\ posted' = c /\ wait' = "yes"
        BY <2>4 DEF Ask
      <3> QED
        BY <2>1, <2>2, <3>1, <3>2 DEF AskInv
    <2> QED
      BY <1>8, <2>3, <2>4
  <1>9. CASE PowerUp \/ Refused \/ TimedOut \/ ChipFails
    <2>1. /\ power' \in {"on", "off"} /\ wait' = "no" /\ posted' = None /\ asked' = {}
          /\ UNCHANGED <<dir, patches, cmd, pc>>
      BY <1>9 DEF PowerUp, Refused, TimedOut, ChipFails, EndWrite, loader
    <2>2. cmd = None
      BY <1>0, <1>9 DEF PowerUp, Refused, TimedOut, ChipFails, AskInv, IInv, SearchInv, Serving
    <2>3. \A s : Told(s)' <=> Told(s)
      BY <2>1, ToldSame
    <2>4. power' = "on" => \A s \in Searches : Told(s)
      <3>1. CASE PowerUp
        BY <3>1, Idle DEF PowerUp
      <3>2. CASE ~ PowerUp
        BY <1>9, <3>2 DEF Refused, TimedOut, ChipFails, EndWrite
      <3> QED
        BY <3>1, <3>2
    <2> QED
      BY <2>1, <2>2, <2>3, <2>4 DEF AskInv
  <1>10. CASE Kill
    <2>1. UNCHANGED <<dir, patches, core>> /\ cmd' = None
      BY <1>10 DEF Kill
    <2>2. \A s : Told(s)' <=> Told(s)
      BY <2>1, ToldSame
    <2> QED
      BY <1>0, <2>1, <2>2 DEF AskInv, core
  <1>11. CASE UNCHANGED vars
    BY <1>1, <1>11 DEF vars, loader
  <1> QED
    BY <1>2, <1>3, <1>4, <1>5, <1>6, <1>7, <1>8, <1>9, <1>10, <1>11 DEF Next, Loader, Kernel

LEMMA KillsStep == IInv /\ [Next]_vars => KillsInv'
  <1> SUFFICES ASSUME IInv, [Next]_vars PROVE KillsInv'
    OBVIOUS
  <1>0. KillsInv /\ kills \in Nat
    BY DEF IInv, TypeOK
  <1> USE DEF latched
  <1>1. CASE ModuleInit
    <2>1. PICK ok \in BOOLEAN : driver_init(ok) /\ pc' = IF ok THEN "stpwmt" ELSE "stopped"
      BY <1>1 DEF ModuleInit
    <2>2. pc = "init" /\ kills' = kills /\ init_before' = TRUE
      BY <1>1, <2>1 DEF ModuleInit, driver_init
    <2>3. CASE ok
      <3>1. pc' = "stpwmt"
        BY <2>1, <2>3
      <3>2. kills = 0 => good'
        <4>1. kills = 0 /\ init_before => good
          BY <1>0, <2>2 DEF KillsInv
        <4>2. (init_before /\ good' = good) \/ good' = TRUE
          BY <2>1, <2>3, Zenon DEF driver_init
        <4> QED
          BY <4>1, <4>2, Zenon
      <3> QED
        BY <2>2, <3>1, <3>2 DEF KillsInv
    <2>4. CASE ~ ok
      <3>1. pc' = "stopped"
        BY <2>1, <2>4
      <3> QED
        BY <2>2, <3>1 DEF KillsInv, Serving
    <2> QED
      BY <2>3, <2>4
  <1>2. CASE Kill
    <2>1. kills' = kills + 1
      BY <1>2 DEF Kill
    <2> QED
      BY <1>0, <2>1 DEF KillsInv
  <1>3. CASE /\ UNCHANGED <<init_before, good, kills>>
             /\ \/ pc' = pc
                \/ /\ pc # "stopped"
                   /\ \/ pc' \in {"cleanup", "init", "retry", "detect", "stopped"}
                      \/ pc \in {"stpwmt", "fork"} \cup Serving
    BY <1>0, <1>3 DEF KillsInv, Serving
  <1>4. CASE Detect \/ Cleanup \/ OpenStpwmt \/ Fork
    BY <1>3, <1>4 DEF Detect, Cleanup, OpenStpwmt, Fork
  <1>5. CASE ReadCommand \/ SetPatchNum \/ NamePatch \/ Reply \/ Reap
    BY <1>3, <1>5 DEF ReadCommand, SetPatchNum, NamePatch, Reply, Reap, Serving
  <1>6. CASE PollFails \/ power_on \/ PowerOnAgain \/ Restart
    BY <1>3, <1>6 DEF PollFails, power_on, PowerOnAgain, Restart
  <1>7. CASE Kernel \/ ChipFails
    BY <1>3, <1>7 DEF Kernel, Ask, Heard, PowerUp, Refused, TimedOut, ChipFails, EndWrite
  <1>8. CASE UNCHANGED vars
    BY <1>3, <1>8 DEF vars
  <1> QED
    BY <1>1, <1>2, <1>4, <1>5, <1>6, <1>7, <1>8 DEF Next, Loader

\* A run without a kill or a failing call had none before.
LEMMA CleanBefore ==
    ASSUME IInv, [Next]_vars, faults' = 0, kills' = 0, FilesFine'
    PROVE  /\ faults = 0 /\ kills = 0 /\ FilesFine
           /\ UNCHANGED <<dir, faults, kills>> /\ ~ Fault /\ ~ Kill
  <1>1. faults \in Nat /\ kills \in Nat
    BY DEF IInv, TypeOK
  <1> USE DEF latched, patches, core, loader
  <1>2. UNCHANGED dir /\ (UNCHANGED faults \/ Fault) /\ (UNCHANGED kills \/ kills' = kills + 1)
    <2>1. CASE Loader
      BY <2>1 DEF Loader, Detect, Cleanup, ModuleInit, driver_init, OpenStpwmt, Fork, ReadCommand,
                  SetPatchNum, NamePatch, Reply, Reap
    <2>2. CASE PollFails \/ power_on \/ PowerOnAgain \/ Kill \/ Restart
      BY <2>2 DEF PollFails, power_on, PowerOnAgain, Kill, driver_init, Restart
    <2>3. CASE Kernel \/ ChipFails
      BY <2>3 DEF Kernel, Ask, Heard, PowerUp, Refused, TimedOut, ChipFails, EndWrite
    <2>4. CASE UNCHANGED vars
      BY <2>4 DEF vars
    <2> QED
      BY <2>1, <2>2, <2>3, <2>4 DEF Next
  <1>3. ~ Fault
    BY <1>1 DEF Fault
  <1>4. ~ Kill
    BY <1>1 DEF Kill
  <1>5. FilesFine
    BY <1>2 DEF FilesFine, Readable
  <1> QED
    BY <1>1, <1>2, <1>3, <1>4, <1>5

LEMMA CleanStep == IInv /\ [Next]_vars => CleanInv'
  <1> SUFFICES ASSUME IInv, [Next]_vars, faults' = 0, kills' = 0, FilesFine'
               PROVE  Answering'
    BY DEF CleanInv
  <1>0. /\ Answering /\ faults = 0 /\ kills = 0 /\ FilesFine
        /\ UNCHANGED <<faults, kills>> /\ ~ Fault /\ ~ Kill
    BY CleanBefore DEF IInv, CleanInv
  <1> USE <1>0 DEF loader, core, patches, Answering
  <1>1. CASE Detect \/ Cleanup \/ OpenStpwmt
    BY <1>1 DEF Detect, Cleanup, OpenStpwmt, Serving
  <1>2. CASE ModuleInit
    <2>1. pc = "init" /\ pc' \in {"stpwmt", "stopped"} /\ UNCHANGED <<core, patches, loader, child>>
      BY <1>2 DEF ModuleInit
    <2> QED
      BY <2>1 DEF Serving
  <1>3. CASE Fork
    BY <1>3 DEF Fork, Serving
  <1>4. CASE ReadCommand
    <2>1. /\ pc = "poll" /\ posted # None /\ cmd' = posted /\ posted' = None
          /\ UNCHANGED <<patches, wait, announced, child>>
      BY <1>4 DEF ReadCommand
    <2>2. pc' \in Serving
      BY <1>4 DEF ReadCommand, Serving
    <2>3. reply' = "ok"
      <3>1. CASE posted \in Searches
        <4>1. PICK order \in SetToSeqs(Files(posted)) : list' = collect(order)
          BY <1>4, <3>1 DEF ReadCommand, Searches, Ack, Unknown
        <4>2. Files(posted) \in SUBSET Names /\ Readable(Files(posted))
          BY DirFields DEF IInv, Files, FilesFine
        <4>3. list' # <<>>
          BY <4>1, <4>2, CollectFinds
        <4>4. reply' = IF list' = <<>> THEN "fail" ELSE "ok"
          BY <1>4, <3>1 DEF ReadCommand, Searches, Ack, Unknown
        <4> QED
          BY <4>3, <4>4
      <3>2. CASE posted \notin Searches
        BY <1>4, <3>2 DEF ReadCommand
      <3> QED
        BY <3>1, <3>2
    <2>4. posted' # Unknown
      BY <2>1 DEF None, Unknown
    <2> QED
      BY <2>1, <2>2, <2>3, <2>4 DEF Serving
  <1>5. CASE SetPatchNum
    <2>1. Len(list) \in Nat /\ Len(list) # 0
      BY <1>5 DEF SetPatchNum, IInv, SearchInv, Sorted
    <2>2. /\ pc = "num" /\ pc' = "name" /\ reply' = reply
          /\ UNCHANGED <<core, cmd, child>>
      BY <1>5 DEF SetPatchNum
    <2>3. announced' <=> patch_num' # 0
      BY <1>5, <2>1 DEF SetPatchNum
    <2> QED
      BY <2>2, <2>3 DEF Serving
  <1>6. CASE NamePatch
    <2>1. /\ cmd \in Searches /\ {list[i] : i \in 1..Len(list)} = Files(cmd) /\ k \in 1..Len(list)
      BY <1>6 DEF NamePatch, IInv, SearchInv, Sorted
    <2>2. list[k] \in Files(cmd)
      BY <2>1
    <2>3. list[k] \notin dir.short
      BY <2>2 DEF FilesFine, Readable, Files
    <2> QED
      BY <1>6, <2>3 DEF NamePatch, Serving
  <1>7. CASE Reply
    BY <1>7 DEF Reply, Serving, None, Unknown
  <1>8. CASE Reap
    BY <1>8 DEF Reap, Serving
  <1>9. CASE power_on
    <2>1. good
      BY <1>9 DEF power_on, IInv, KillsInv
    <2> QED
      BY <1>9, <2>1 DEF power_on, BeginWrite
  <1>10. CASE PowerOnAgain
    BY <1>10 DEF PowerOnAgain, BeginWrite
  <1>11. CASE \E c \in Commands : Ask(c)
    BY <1>11 DEF Ask, Commands, Searches, Ack, Unknown, None
  <1>12. CASE Heard
    BY <1>12 DEF Heard
  <1>13. CASE PowerUp \/ TimedOut
    <2>1. /\ wait' = "no" /\ posted' = None
          /\ UNCHANGED <<patches, pc, loader>>
      BY <1>13 DEF PowerUp, TimedOut, EndWrite
    <2>2. child' = child \/ child' \in {"ok", "none"}
      <3>1. CASE PowerUp
        BY <3>1 DEF PowerUp, EndWrite
      <3>2. CASE TimedOut
        BY <3>2 DEF TimedOut, EndWrite
      <3> QED
        BY <1>13, <3>1, <3>2
    <2> QED
      BY <2>1, <2>2 DEF None, Unknown
  <1>14. CASE UNCHANGED vars
    BY <1>14 DEF vars
  <1>15. ~ PollFails /\ ~ Refused /\ ~ ChipFails /\ ~ Restart
    BY DEF PollFails, Refused, ChipFails, Restart
  <1> QED
    BY <1>1, <1>2, <1>3, <1>4, <1>5, <1>6, <1>7, <1>8, <1>9, <1>10, <1>11, <1>12, <1>13,
       <1>14, <1>15 DEF Next, Loader, Kernel

LEMMA StepInv == IInv /\ [Next]_vars => IInv'
  BY TypeStep, SearchStep, NumStep, AskStep, KillsStep, CleanStep DEF IInv

-----------------------------------------------------------------------------
(***************************************************************************)
(* The theorems.                                                           *)
(***************************************************************************)

\* When the chip is on, the kernel has been told of every ROM patch and its
\* table holds all other patches in the order of their names, whatever failed,
\* was killed or restarted before (collect, handle_rom_patch, handle_patch).
THEOREM PatchesAreTold == Spec => []PatchesTold
  <1>1. IInv => PatchesTold
    BY DEF IInv, AskInv, PatchesTold, Told, RomTold, TableTold, Searches
  <1> QED
    BY <1>1, InitInv, StepInv, PTL DEF Spec

\* A unit nothing has killed only serves a chip whose driver init succeeded:
\* no exit status of the loader leads around a failed one (EXIT_LATCHED).
THEOREM ServiceIsInitialised == Spec => []ActiveIsInitialised
  <1>1. IInv => ActiveIsInitialised
    BY DEF IInv, KillsInv, ActiveIsInitialised
  <1> QED
    BY <1>1, InitInv, StepInv, PTL DEF Spec

\* With fine files, no failing call and no kill the power-on of the loader's
\* own child never fails (the fork in main, and the answers of the service).
THEOREM NeverStallsItself == Spec => []NoSelfStall
  <1>1. IInv => NoSelfStall
    BY DEF IInv, TypeOK, CleanInv, Answering, NoSelfStall
  <1> QED
    BY <1>1, InitInv, StepInv, PTL DEF Spec
=============================================================================

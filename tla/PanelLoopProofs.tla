--------------------------- MODULE PanelLoopProofs --------------------------
(***************************************************************************)
(* The panel's child and its readings: the peers shown are those of the    *)
(* last child that succeeded, for everything `tailscale status' can print, *)
(* every way its output is cut into reads and every size of the buffers;   *)
(* the ports and clients of a frame are those of the tables, whatever they *)
(* hold (PanelLoop); and the meters stay in range for every reading        *)
(* (Collectors).                                                           *)
(***************************************************************************)
EXTENDS PanelLoop, TLAPS, FiniteSetTheorems, WellFoundedInduction

-----------------------------------------------------------------------------
(***************************************************************************)
(* Induction over the naturals, in the form the provers can use.           *)
(***************************************************************************)

LEMMA Least ==
    ASSUME NEW T \in SUBSET Nat, T # {}
    PROVE  \E m \in T : \A k \in T : m <= k
  <1> DEFINE R == OpToRel(<, Nat)
  <1>1. IsWellFoundedOn(R, Nat)
    BY NatLessThanWellFounded, Zenon
  <1>2. \A x, y \in Nat : x < y => <<x, y>> \in R
    BY Zenon DEF OpToRel
  <1> HIDE DEF R
  <1>3. T \subseteq Nat
    OBVIOUS
  <1>4. PICK x \in T : \A y \in T : ~ (<<y, x>> \in R)
    BY <1>1, <1>3, WFMin, Zenon
  <1>5. \A y \in T : ~ (y < x)
    BY <1>2, <1>3, <1>4, Zenon
  <1> QED
    BY <1>3, <1>5

LEMMA Induction ==
    ASSUME NEW T \in SUBSET Nat, 0 \in T, \A k \in T : k + 1 \in T
    PROVE  T = Nat
  <1> SUFFICES ASSUME T # Nat PROVE FALSE
    OBVIOUS
  <1>1. PICK m \in Nat \ T : \A k \in Nat \ T : m <= k
    BY Least
  <1>2. m - 1 \in Nat /\ m - 1 \in T
    BY <1>1
  <1> QED
    BY <1>1, <1>2

-----------------------------------------------------------------------------
(***************************************************************************)
(* tailscale_drain, character by character.                                *)
(***************************************************************************)

\* The lines of a peer that are complete after n characters of out.
PeerStarts(out, n) ==
    {i \in 1..(n - 1) :
        /\ i = 1 \/ out[i - 1] = "nl"
        /\ out[i] = "1" /\ out[i + 1] = "0"
        /\ \E j \in i..n : out[j] = "nl"}

\* After n characters of out the line that begins after st is unfinished, and
\* buf holds as much of it as there is room for.
Unfinished(buf, out, n, st) ==
    /\ st = 0 \/ out[st] = "nl"
    /\ \A i \in (st + 1)..n : out[i] # "nl"
    /\ Len(buf) = IF n - st < LineBuf THEN n - st ELSE LineBuf - 1
    /\ \A i \in 1..Len(buf) : buf[i] = out[st + i]

\* l is right after n characters of out.
Right(l, out, n) ==
    /\ l \in [buf : Seq(STRING), count : Nat]
    /\ l.count = Cardinality(PeerStarts(out, n))
    /\ \E st \in 0..n : Unfinished(l.buf, out, n, st)

LEMMA StartsFinite ==
    ASSUME NEW out, NEW n \in Nat
    PROVE  IsFiniteSet(PeerStarts(out, n)) /\ Cardinality(PeerStarts(out, n)) \in Nat
  <1>1. IsFiniteSet(1..(n - 1))
    BY FS_Interval
  <1>2. PeerStarts(out, n) \subseteq 1..(n - 1)
    BY DEF PeerStarts
  <1> QED
    BY <1>1, <1>2, FS_Subset, FS_CardinalityType

LEMMA TakeTwo ==
    ASSUME NEW s \in Seq(STRING)
    PROVE  Take(s, 2) = <<"1", "0">> <=> Len(s) >= 2 /\ s[1] = "1" /\ s[2] = "0"
  <1>1. CASE Len(s) >= 2
    <2>1. Take(s, 2) = SubSeq(s, 1, 2)
      BY <1>1 DEF Take
    <2>2. /\ SubSeq(s, 1, 2) \in Seq(STRING) /\ Len(SubSeq(s, 1, 2)) = 2
          /\ SubSeq(s, 1, 2)[1] = s[1] /\ SubSeq(s, 1, 2)[2] = s[2]
      BY <1>1
    <2>3. SubSeq(s, 1, 2) = <<s[1], s[2]>>
      <3>1. SubSeq(s, 1, 2) = [i \in 1..2 |-> SubSeq(s, 1, 2)[i]]
        BY <2>2
      <3>2. <<s[1], s[2]>> = [i \in 1..2 |-> <<s[1], s[2]>>[i]]
        OBVIOUS
      <3>3. \A i \in 1..2 : SubSeq(s, 1, 2)[i] = <<s[1], s[2]>>[i]
        BY <2>2
      <3> QED
        BY <3>1, <3>2, <3>3
    <2> QED
      BY <1>1, <2>1, <2>3
  <1>2. CASE ~ (Len(s) >= 2)
    <2>1. Len(Take(s, 2)) = Len(s)
      BY <1>2 DEF Take
    <2>2. Len(<<"1", "0">>) = 2
      OBVIOUS
    <2>3. Take(s, 2) # <<"1", "0">>
      <3>1. Len(s) # 2
        BY <1>2
      <3> QED
        BY <2>1, <2>2, <3>1, Zenon
    <2> QED
      BY <1>2, <2>3
  <1> QED
    BY <1>1, <1>2

\* A character that ends no line.
LEMMA CharInLine ==
    ASSUME NEW out \in Seq(STRING), NEW n \in Nat, n + 1 <= Len(out), out[n + 1] # "nl",
           NEW l, Right(l, out, n)
    PROVE  Right(Char(l, out[n + 1]), out, n + 1)
  <1> DEFINE c == out[n + 1]
             m == Char(l, c)
  <1>1. c \in STRING /\ l \in [buf : Seq(STRING), count : Nat]
    BY DEF Right
  <1>2. PeerStarts(out, n + 1) = PeerStarts(out, n)
    <2>1. ASSUME NEW i \in PeerStarts(out, n + 1) PROVE i \in PeerStarts(out, n)
      <3>1. i \in 1..n /\ out[i] = "1" /\ out[i + 1] = "0" /\ (i = 1 \/ out[i - 1] = "nl")
        BY <2>1 DEF PeerStarts
      <3>2. PICK j \in i..(n + 1) : out[j] = "nl"
        BY <2>1 DEF PeerStarts
      <3>3. j \in i..n /\ j # i
        BY <3>1, <3>2
      <3>4. i \in 1..(n - 1)
        BY <3>1, <3>3
      <3> QED
        BY <3>1, <3>2, <3>3, <3>4 DEF PeerStarts
    <2>2. ASSUME NEW i \in PeerStarts(out, n) PROVE i \in PeerStarts(out, n + 1)
      BY <2>2 DEF PeerStarts
    <2> QED
      BY <2>1, <2>2
  <1>3. PICK st \in 0..n : Unfinished(l.buf, out, n, st)
    BY DEF Right
  <1>4. LineBuf \in Nat /\ LineBuf > 2
    BY ConstantsAssumption
  <1>5. CASE Len(l.buf) + 1 < LineBuf
    <2>1. m = [l EXCEPT !.buf = Append(@, c)]
      BY <1>5 DEF Char
    <2>2. m \in [buf : Seq(STRING), count : Nat] /\ m.count = l.count /\ m.buf = Append(l.buf, c)
      <3>1. l.buf \in Seq(STRING) /\ Append(l.buf, c) \in Seq(STRING)
        BY <1>1
      <3> HIDE DEF m, c
      <3> QED
        BY <1>1, <2>1, <3>1
    <2>3. Len(l.buf) = n - st /\ n + 1 - st < LineBuf
      BY <1>3, <1>4, <1>5 DEF Unfinished
    <2>4. /\ Len(m.buf) = n + 1 - st
          /\ \A i \in 1..Len(l.buf) : m.buf[i] = l.buf[i]
          /\ m.buf[n + 1 - st] = c
      BY <1>1, <2>2, <2>3
    <2>5. \A i \in 1..Len(m.buf) : m.buf[i] = out[st + i]
      <3>1. TAKE i \in 1..Len(m.buf)
      <3>2. CASE i = n + 1 - st
        BY <2>4, <3>2
      <3>3. CASE i \in 1..Len(l.buf)
        BY <1>3, <2>4, <3>3 DEF Unfinished
      <3> QED
        BY <2>3, <2>4, <3>2, <3>3
    <2>6. Unfinished(m.buf, out, n + 1, st)
      BY <1>3, <2>3, <2>4, <2>5 DEF Unfinished
    <2> QED
      BY <1>2, <2>2, <2>6 DEF Right
  <1>6. CASE ~ (Len(l.buf) + 1 < LineBuf)
    <2>1. m = l
      BY <1>6 DEF Char
    <2>2. Unfinished(l.buf, out, n + 1, st)
      BY <1>3, <1>4, <1>6 DEF Unfinished
    <2> QED
      BY <1>2, <2>1, <2>2 DEF Right
  <1> QED
    BY <1>5, <1>6

\* The end of a line.
LEMMA CharEndsLine ==
    ASSUME NEW out \in Seq(STRING), NEW n \in Nat, n + 1 <= Len(out), out[n + 1] = "nl",
           NEW l, Right(l, out, n)
    PROVE  Right(Char(l, out[n + 1]), out, n + 1)
  <1> DEFINE P == PeerStarts(out, n)
             Q == PeerStarts(out, n + 1)
             isPeer == Take(l.buf, 2) = <<"1", "0">>
  <1>1. l \in [buf : Seq(STRING), count : Nat] /\ l.count = Cardinality(P)
    BY DEF Right
  <1>2. Char(l, out[n + 1]) = [buf |-> <<>>, count |-> l.count + (IF isPeer THEN 1 ELSE 0)]
    BY DEF Char
  <1>3. PICK st \in 0..n : Unfinished(l.buf, out, n, st)
    BY DEF Right
  <1>4. LineBuf \in Nat /\ LineBuf > 2
    BY ConstantsAssumption
  <1>5. isPeer <=> st + 2 <= n /\ out[st + 1] = "1" /\ out[st + 2] = "0"
    <2>1. Len(l.buf) >= 2 <=> st + 2 <= n
      BY <1>3, <1>4 DEF Unfinished
    <2>2. Len(l.buf) >= 2 => l.buf[1] = out[st + 1] /\ l.buf[2] = out[st + 2]
      BY <1>1, <1>3 DEF Unfinished
    <2> QED
      BY <1>1, <2>1, <2>2, TakeTwo
  <1>6. ASSUME NEW i \in Q PROVE i \in P \/ (i = st + 1 /\ isPeer)
    <2>1. i \in 1..n /\ out[i] = "1" /\ out[i + 1] = "0" /\ (i = 1 \/ out[i - 1] = "nl")
      BY <1>6 DEF PeerStarts
    <2>2. i \in 1..(n - 1)
      BY <2>1
    <2>3. CASE \E j \in i..n : out[j] = "nl"
      BY <2>1, <2>2, <2>3 DEF PeerStarts
    <2>4. CASE ~ \E j \in i..n : out[j] = "nl"
      <3>1. i > st
        BY <1>3, <2>1, <2>4 DEF Unfinished
      <3>2. ~ (i > st + 1)
        BY <1>3, <2>1, <2>2 DEF Unfinished
      <3> QED
        BY <1>5, <2>1, <2>2, <3>1, <3>2
    <2> QED
      BY <2>3, <2>4
  <1>7. P \subseteq Q
    BY DEF PeerStarts
  <1>8. isPeer => st + 1 \in Q
    BY <1>3, <1>5 DEF PeerStarts, Unfinished
  <1>9. st + 1 \notin P
    BY <1>3 DEF PeerStarts, Unfinished
  <1>10. Q = IF isPeer THEN P \cup {st + 1} ELSE P
    BY <1>6, <1>7, <1>8
  <1>11. IsFiniteSet(P) /\ Cardinality(P) \in Nat
    BY StartsFinite
  <1>12. Cardinality(P \cup {st + 1}) = Cardinality(P) + 1
    BY <1>9, <1>11, FS_AddElement
  <1>13. Cardinality(Q) = l.count + (IF isPeer THEN 1 ELSE 0)
    <2> HIDE DEF P, Q, isPeer
    <2> QED
      BY <1>1, <1>10, <1>11, <1>12
  <1>14. Unfinished(<<>>, out, n + 1, n + 1)
    BY <1>4 DEF Unfinished
  <1> DEFINE m == Char(l, out[n + 1])
  <1>15. m \in [buf : Seq(STRING), count : Nat] /\ m.buf = <<>> /\ m.count = Cardinality(Q)
    <2>1. l.count + (IF isPeer THEN 1 ELSE 0) \in Nat
      BY <1>1
    <2>2. <<>> \in Seq(STRING)
      OBVIOUS
    <2>3. m = [buf |-> <<>>, count |-> Cardinality(Q)]
      BY <1>2, <1>13
    <2>4. Cardinality(Q) \in Nat
      BY <1>13, <2>1
    <2> HIDE DEF m, Q
    <2> QED
      BY <2>2, <2>3, <2>4
  <1>16. n + 1 \in 0..(n + 1)
    OBVIOUS
  <1> HIDE DEF m
  <1>17. Right(m, out, n + 1)
    BY <1>14, <1>15, <1>16 DEF Right
  <1> QED
    BY <1>17 DEF m

LEMMA OneChar ==
    ASSUME NEW out \in Seq(STRING), NEW n \in Nat, n + 1 <= Len(out), NEW l, Right(l, out, n)
    PROVE  Right(Char(l, out[n + 1]), out, n + 1)
  BY CharInLine, CharEndsLine

-----------------------------------------------------------------------------
(***************************************************************************)
(* A read of several characters.                                           *)
(***************************************************************************)

\* g is l after each character of chunk.
Steps(l, chunk, g, k) == g = [i \in 0..k |-> IF i = 0 THEN l ELSE Char(g[i - 1], chunk[i])]

LEMMA StepsExist ==
    ASSUME NEW l, NEW chunk, NEW k \in Nat
    PROVE  \E g : Steps(l, chunk, g, k)
  <1> DEFINE T == {m \in Nat : \E g : Steps(l, chunk, g, m)}
  <1>1. 0 \in T
    <2>1. Steps(l, chunk, [i \in 0..0 |-> l], 0)
      BY DEF Steps
    <2> QED
      BY <2>1
  <1>2. ASSUME NEW m \in T PROVE m + 1 \in T
    <2>1. PICK g : Steps(l, chunk, g, m)
      OBVIOUS
    <2>2. m \in Nat /\ DOMAIN g = 0..m
      BY <2>1 DEF Steps
    <2>3. \A i \in 0..m : g[i] = IF i = 0 THEN l ELSE Char(g[i - 1], chunk[i])
      BY <2>1 DEF Steps
    <2> DEFINE h == [i \in 0..(m + 1) |-> IF i = m + 1 THEN Char(g[m], chunk[m + 1]) ELSE g[i]]
    <2>4. \A i \in 0..(m + 1) : h[i] = IF i = 0 THEN l ELSE Char(h[i - 1], chunk[i])
      BY <2>2, <2>3
    <2>5. h = [i \in 0..(m + 1) |-> h[i]]
      OBVIOUS
    <2> HIDE DEF h
    <2>6. Steps(l, chunk, h, m + 1)
      BY <2>4, <2>5 DEF Steps
    <2> QED
      BY <2>2, <2>6
  <1> HIDE DEF T
  <1>3. T = Nat
    <2>1. T \in SUBSET Nat
      BY DEF T
    <2> QED
      BY <1>1, <1>2, <2>1, Induction
  <1> QED
    BY <1>3 DEF T

LEMMA DrainedRight ==
    ASSUME NEW out \in Seq(STRING), NEW n \in Nat, NEW l, Right(l, out, n),
           NEW chunk \in Seq(STRING), n + Len(chunk) <= Len(out),
           \A i \in 1..Len(chunk) : chunk[i] = out[n + i]
    PROVE  Right(Drained(l, chunk), out, n + Len(chunk))
  <1> DEFINE k == Len(chunk)
             g == CHOOSE h : Steps(l, chunk, h, k)
  <1>1. k \in Nat
    OBVIOUS
  <1>2. Steps(l, chunk, g, k)
    BY <1>1, StepsExist
  <1>3. Drained(l, chunk) = g[k]
    BY DEF Drained, Steps
  <1> HIDE DEF g
  <1>4. \A i \in 0..k : g[i] = IF i = 0 THEN l ELSE Char(g[i - 1], chunk[i])
    BY <1>2 DEF Steps
  <1> HIDE DEF k
  <1> DEFINE T == {i \in Nat : i <= k => Right(g[i], out, n + i)}
  <1>5. 0 \in T
    <2>1. g[0] = l /\ n + 0 = n
      BY <1>1, <1>4
    <2> QED
      BY <2>1
  <1>6. ASSUME NEW i \in T PROVE i + 1 \in T
    <2> SUFFICES ASSUME i + 1 <= k PROVE Right(g[i + 1], out, n + (i + 1))
      OBVIOUS
    <2>1. i \in Nat /\ i + 1 \in 1..k /\ i + 1 \in 0..k /\ i + 1 # 0 /\ (i + 1) - 1 = i
      BY <1>1
    <2>2. Right(g[i], out, n + i)
      BY <1>1, <2>1
    <2>3. g[i + 1] = Char(g[i], chunk[i + 1])
      BY <1>4, <2>1
    <2>4. chunk[i + 1] = out[n + (i + 1)]
      BY <2>1 DEF k
    <2>5. n + i \in Nat /\ n + (i + 1) = (n + i) + 1 /\ (n + i) + 1 <= Len(out)
      BY <1>1, <2>1 DEF k
    <2> QED
      BY <2>2, <2>3, <2>4, <2>5, OneChar
  <1> HIDE DEF T
  <1>7. T = Nat
    <2>1. T \in SUBSET Nat
      BY DEF T
    <2> QED
      BY <1>5, <1>6, <2>1, Induction
  <1>8. Right(g[k], out, n + k)
    BY <1>1, <1>7 DEF T
  <1> QED
    BY <1>3, <1>8 DEF k

-----------------------------------------------------------------------------
(***************************************************************************)
(* The child.                                                              *)
(***************************************************************************)

TypeOK ==
    /\ child \in {"none", "running", "closed", "dead"}
    /\ togo \in Seq(STRING) /\ pipe \in Seq(STRING)
    /\ ts_buf \in Seq(STRING) /\ ts_count \in Nat
    /\ said \in [now : Seq(STRING), last : Seq(STRING)]

\* The characters of said.now that were read.
Count == Len(said.now) - Len(pipe) - Len(togo)

\* What is in the pipe and what is to come follow what was read.
InTransit ==
    /\ Count \in Nat
    /\ \A i \in 1..Len(pipe) : pipe[i] = said.now[Count + i]
    /\ \A i \in 1..Len(togo) : togo[i] = said.now[Count + Len(pipe) + i]

IInv ==
    /\ TypeOK /\ PeersRight
    /\ child # "none" =>
         InTransit /\ Right([buf |-> ts_buf, count |-> ts_count], said.now, Count)
    /\ child = "none" => pipe = <<>>
    /\ child \in {"closed", "dead"} => togo = <<>>
    /\ pc = "reap" => pipe = <<>> /\ child \in {"closed", "dead"}

\* The variables the invariant speaks of, besides pc.
childState == <<child, togo, pipe, said, ts_buf, ts_count, peers>>

LEMMA Unmoved ==
    ASSUME IInv, UNCHANGED childState, pc' = "reap" => pc = "reap"
    PROVE  IInv'
  BY DEF IInv, childState, TypeOK, PeersRight, InTransit, Count

\* A child begins with nothing read.
LEMMA Begun ==
    ASSUME NEW out \in Seq(STRING)
    PROVE  Right([buf |-> <<>>, count |-> 0], out, 0)
  <1>1. PeerStarts(out, 0) = {}
    BY DEF PeerStarts
  <1>2. Cardinality(PeerStarts(out, 0)) = 0
    BY <1>1, FS_EmptySet
  <1>3. Unfinished(<<>>, out, 0, 0)
    BY ConstantsAssumption DEF Unfinished
  <1>4. 0 \in 0..0 /\ <<>> \in Seq(STRING)
    OBVIOUS
  <1> QED
    BY <1>2, <1>3, <1>4 DEF Right

LEMMA InitInv == Init => IInv
  <1> SUFFICES ASSUME Init PROVE IInv
    OBVIOUS
  <1>1. TypeOK
    BY DEF Init, TypeOK
  <1> QED
    BY <1>1 DEF Init, IInv, PeersRight, None

\* tailscale_start, by the steps that call it.
LEMMA Started ==
    ASSUME IInv, NEW ok \in BOOLEAN, NEW out \in Outputs, tailscale_start(ok, out),
           UNCHANGED peers, pc' # "reap"
    PROVE  IInv'
  <1>1. out \in Seq(STRING)
    BY ConstantsAssumption
  <1>2. CASE child # "none" \/ ~ok
    <2>1. UNCHANGED childState
      BY <1>2 DEF tailscale_start, childState
    <2> QED
      BY <2>1, Unmoved
  <1>3. CASE child = "none" /\ ok
    <2>1. /\ child' = "running" /\ togo' = out /\ pipe' = <<>>
          /\ said' = [said EXCEPT !.now = out] /\ ts_count' = 0 /\ ts_buf' = <<>>
      BY <1>3 DEF tailscale_start
    <2>2. said \in [now : Seq(STRING), last : Seq(STRING)]
      BY DEF IInv, TypeOK
    <2>3. said' \in [now : Seq(STRING), last : Seq(STRING)] /\ said'.now = out /\ said'.last = said.last
      BY <1>1, <2>1, <2>2
    <2>4. TypeOK'
      BY <1>1, <2>1, <2>3 DEF TypeOK
    <2>5. PeersRight'
      BY <2>3 DEF IInv, PeersRight
    <2>6. Count' = 0 /\ InTransit'
      BY <1>1, <2>1, <2>3 DEF Count, InTransit
    <2>7. Right([buf |-> ts_buf', count |-> ts_count'], said'.now, Count')
      BY <1>1, <2>1, <2>3, <2>6, Begun
    <2> QED
      BY <2>1, <2>4, <2>5, <2>6, <2>7 DEF IInv
  <1> QED
    BY <1>2, <1>3

LEMMA WritesInv ==
    ASSUME IInv, NEW k \in 1..Len(togo), ChildWrites(k)
    PROVE  IInv'
  <1>1. togo \in Seq(STRING) /\ pipe \in Seq(STRING) /\ said \in [now : Seq(STRING), last : Seq(STRING)]
    BY DEF IInv, TypeOK
  <1>2. k \in Nat /\ k <= Len(togo) /\ child = "running" /\ InTransit
    BY <1>1 DEF IInv, ChildWrites
  <1> DEFINE head == SubSeq(togo, 1, k)
             tail == SubSeq(togo, k + 1, Len(togo))
  <1>3. /\ head \in Seq(STRING) /\ Len(head) = k /\ \A i \in 1..k : head[i] = togo[i]
        /\ tail \in Seq(STRING) /\ Len(tail) = Len(togo) - k
        /\ \A i \in 1..Len(tail) : tail[i] = togo[k + i]
    <2>1. head \in Seq(STRING) /\ Len(head) = k /\ \A i \in 1..k : head[i] = togo[i]
      BY <1>1, <1>2
    <2>2. tail \in Seq(STRING) /\ Len(tail) = Len(togo) - k
      BY <1>1, <1>2
    <2>3. \A i \in 1..(Len(togo) - k) : tail[i] = togo[k + i]
      BY <1>1, <1>2
    <2> QED
      BY <2>1, <2>2, <2>3
  <1>4. /\ pipe' = pipe \o head /\ togo' = tail /\ UNCHANGED <<child, said, ts_buf, ts_count, peers, pc>>
    BY DEF ChildWrites, loop, line
  <1> HIDE DEF head, tail
  <1>5. /\ pipe' \in Seq(STRING) /\ Len(pipe') = Len(pipe) + k
        /\ \A i \in 1..Len(pipe) : pipe'[i] = pipe[i]
        /\ \A i \in 1..k : pipe'[Len(pipe) + i] = head[i]
    <2>1. head \in Seq(STRING) /\ Len(head) = k
      BY <1>3
    <2>2. pipe' = pipe \o head
      BY <1>4
    <2>3. pipe \in Seq(STRING)
      BY <1>1
    <2>4. pipe \o head \in Seq(STRING) /\ Len(pipe \o head) = Len(pipe) + Len(head)
      BY <2>1, <2>3
    <2>5. \A i \in 1..Len(pipe) : (pipe \o head)[i] = pipe[i]
      BY <2>1, <2>3
    <2>6. \A i \in 1..Len(head) : (pipe \o head)[Len(pipe) + i] = head[i]
      BY <2>1, <2>3
    <2> QED
      BY <2>1, <2>2, <2>4, <2>5, <2>6, Zenon
  <1>6. Count' = Count
    <2>1. Len(said.now) \in Nat /\ Len(pipe) \in Nat /\ Len(togo) \in Nat
      BY <1>1
    <2>2. said' = said /\ Len(togo') = Len(togo) - k
      BY <1>3, <1>4
    <2> QED
      BY <1>2, <1>5, <2>1, <2>2 DEF Count
  <1>7. ASSUME NEW i \in 1..Len(pipe') PROVE pipe'[i] = said.now[Count + i]
    <2>1. CASE i <= Len(pipe)
      BY <1>1, <1>2, <1>5, <2>1 DEF InTransit
    <2>2. CASE i > Len(pipe)
      <3>1. i - Len(pipe) \in 1..k /\ i = Len(pipe) + (i - Len(pipe))
        BY <1>1, <1>2, <1>5, <2>2
      <3>2. pipe'[i] = togo[i - Len(pipe)]
        BY <1>3, <1>5, <3>1
      <3>3. togo[i - Len(pipe)] = said.now[Count + Len(pipe) + (i - Len(pipe))]
        BY <1>1, <1>2, <3>1 DEF InTransit
      <3>4. Count + Len(pipe) + (i - Len(pipe)) = Count + i
        BY <1>1, <1>2, <3>1 DEF InTransit
      <3> QED
        BY <3>2, <3>3, <3>4
    <2> QED
      BY <1>1, <1>5, <2>1, <2>2
  <1>8. ASSUME NEW i \in 1..Len(togo') PROVE togo'[i] = said.now[Count + Len(pipe') + i]
    <2>1. togo'[i] = togo[k + i] /\ k + i \in 1..Len(togo)
      BY <1>1, <1>2, <1>3, <1>4
    <2>2. togo[k + i] = said.now[Count + Len(pipe) + (k + i)]
      BY <1>2, <2>1 DEF InTransit
    <2>3. Count + Len(pipe) + (k + i) = Count + Len(pipe') + i
      BY <1>1, <1>2, <1>5 DEF InTransit
    <2> QED
      BY <2>1, <2>2, <2>3
  <1>9. InTransit'
    <2>1. Count' \in Nat /\ said' = said
      BY <1>2, <1>4, <1>6 DEF InTransit
    <2> QED
      BY <1>6, <1>7, <1>8, <2>1 DEF InTransit
  <1>10. TypeOK'
    BY <1>3, <1>4, <1>5 DEF IInv, TypeOK
  <1> QED
    BY <1>2, <1>4, <1>6, <1>9, <1>10 DEF IInv, PeersRight

LEMMA ReadsInv ==
    ASSUME IInv, DrainReads
    PROVE  IInv'
  <1>1. /\ togo \in Seq(STRING) /\ pipe \in Seq(STRING) /\ said \in [now : Seq(STRING), last : Seq(STRING)]
        /\ ts_buf \in Seq(STRING) /\ ts_count \in Nat
    BY DEF IInv, TypeOK
  <1> DEFINE chunk == Take(pipe, ReadBuf)
             before == [buf |-> ts_buf, count |-> ts_count]
             after == Drained(before, chunk)
  <1>2. /\ pc = "drain" /\ ts_buf' = after.buf /\ ts_count' = after.count
        /\ pipe' = SubSeq(pipe, Len(chunk) + 1, Len(pipe))
        /\ UNCHANGED <<child, togo, said, peers, pc>>
    BY DEF DrainReads, loop
  <1>3. /\ chunk \in Seq(STRING) /\ Len(chunk) \in 0..Len(pipe)
        /\ \A i \in 1..Len(chunk) : chunk[i] = pipe[i]
    <2> DEFINE k == IF Len(pipe) < ReadBuf THEN Len(pipe) ELSE ReadBuf
    <2>1. k \in 0..Len(pipe) /\ chunk = SubSeq(pipe, 1, k)
      BY <1>1, ConstantsAssumption DEF Take
    <2> HIDE DEF k
    <2> QED
      BY <1>1, <2>1
  <1> HIDE DEF chunk, before, after
  <1>4. /\ pipe' \in Seq(STRING) /\ Len(pipe') = Len(pipe) - Len(chunk)
        /\ \A i \in 1..Len(pipe') : pipe'[i] = pipe[Len(chunk) + i]
    BY <1>1, <1>2, <1>3
  <1>5. child # "none"
    BY DEF IInv, DrainReads
  <1>6. InTransit /\ Right(before, said.now, Count)
    BY <1>5 DEF IInv, before
  <1>7. Count \in Nat /\ Count + Len(chunk) <= Len(said.now)
    BY <1>1, <1>3, <1>6 DEF InTransit, Count
  <1>8. \A i \in 1..Len(chunk) : chunk[i] = said.now[Count + i]
    BY <1>1, <1>3, <1>6 DEF InTransit
  <1>9. Right(after, said.now, Count + Len(chunk))
    BY <1>1, <1>3, <1>6, <1>7, <1>8, DrainedRight DEF after
  <1>10. Count' = Count + Len(chunk)
    <2>1. Len(said.now) \in Nat /\ Len(pipe) \in Nat /\ Len(togo) \in Nat /\ Len(chunk) \in Nat
      BY <1>1, <1>3
    <2>2. said' = said /\ togo' = togo
      BY <1>2
    <2> QED
      BY <1>4, <2>1, <2>2 DEF Count
  <1>11. after \in [buf : Seq(STRING), count : Nat]
    BY <1>9 DEF Right
  <1>12. [buf |-> ts_buf', count |-> ts_count'] = after
    BY <1>2, <1>11
  <1>13. TypeOK'
    BY <1>2, <1>4, <1>11 DEF IInv, TypeOK
  <1>14. InTransit'
    <2>1. ASSUME NEW i \in 1..Len(pipe') PROVE pipe'[i] = said.now[Count' + i]
      <3>1. Len(chunk) + i \in 1..Len(pipe) /\ Count + (Len(chunk) + i) = Count' + i
        BY <1>1, <1>3, <1>4, <1>7, <1>10
      <3> QED
        BY <1>4, <1>6, <3>1 DEF InTransit
    <2>2. ASSUME NEW i \in 1..Len(togo) PROVE togo[i] = said.now[Count' + Len(pipe') + i]
      <3>1. Count' + Len(pipe') = Count + Len(pipe)
        BY <1>1, <1>3, <1>4, <1>7, <1>10
      <3> QED
        BY <1>6, <3>1 DEF InTransit
    <2>3. Count' \in Nat
      BY <1>3, <1>7, <1>10
    <2> QED
      BY <1>2, <2>1, <2>2, <2>3 DEF InTransit
  <1> QED
    BY <1>2, <1>9, <1>10, <1>12, <1>13, <1>14 DEF IInv, PeersRight

\* At the end of file everything was read.
LEMMA ReapInv ==
    ASSUME IInv, Reap
    PROVE  IInv'
  <1>1. /\ pipe = <<>> /\ togo = <<>> /\ child = "dead"
        /\ said \in [now : Seq(STRING), last : Seq(STRING)] /\ ts_count \in Nat
        /\ Right([buf |-> ts_buf, count |-> ts_count], said.now, Count)
    BY DEF IInv, TypeOK, Reap
  <1>2. Count = Len(said.now)
    BY <1>1 DEF Count
  <1>3. ts_count = PeerLines(said.now)
    BY <1>1, <1>2 DEF Right, PeerLines, PeerStarts
  <1>4. /\ child' = "none" /\ pc' # "reap" /\ UNCHANGED <<togo, pipe, ts_buf, ts_count>>
        /\ peers' = IF code = 0 THEN ts_count ELSE peers
        /\ said' = IF code = 0 THEN [said EXCEPT !.last = said.now] ELSE said
    BY DEF Reap
  <1>5. said' \in [now : Seq(STRING), last : Seq(STRING)]
    BY <1>1, <1>4
  <1>6. PeersRight'
    <2>1. CASE code = 0
      <3>1. said'.last = said.now /\ peers' = ts_count
        BY <1>1, <1>4, <2>1
      <3> QED
        BY <1>3, <3>1 DEF PeersRight
    <2>2. CASE code # 0
      BY <1>4, <2>2 DEF IInv, PeersRight
    <2> QED
      BY <2>1, <2>2
  <1>7. TypeOK'
    BY <1>4, <1>5 DEF IInv, TypeOK
  <1> QED
    BY <1>1, <1>4, <1>6, <1>7 DEF IInv

\* Every step of main, of the child, of the clock and of a signal.
LEMMA StepInv == IInv /\ [Next]_vars => IInv'
  <1> SUFFICES ASSUME IInv, [Next]_vars PROVE IInv'
    OBVIOUS
  <1>1. ASSUME NEW ok \in BOOLEAN, NEW out \in Outputs, Start(ok, out) PROVE IInv'
    BY <1>1, Started DEF Start
  <1>2. ASSUME NEW ok \in BOOLEAN, NEW up \in BOOLEAN, NEW dash \in BOOLEAN,
               NEW out \in Outputs, HandleTimer(ok, out, up, dash)
        PROVE  IInv'
    <2>1. CASE tick' = 0
      BY <1>2, <2>1, Started DEF HandleTimer
    <2>2. CASE tick' # 0
      BY <1>2, <2>2, Unmoved DEF HandleTimer, childState
    <2> QED
      BY <2>1, <2>2
  <1>3. ASSUME NEW t \in Tables, Sample(t[1], t[2]) PROVE IInv'
    BY <1>3, Unmoved DEF Sample, kid, line, childState
  <1>4. CASE Shown
    BY <1>4, Unmoved DEF Shown, kid, line, childState
  <1>5. CASE LoopHead
    BY <1>5, Unmoved DEF LoopHead, kid, line, childState
  <1>6. CASE Enter
    BY <1>6, Unmoved DEF Enter, kid, line, childState
  <1>7. CASE HandleToken
    BY <1>7, Unmoved DEF HandleToken, Key, kid, line, childState
  <1>8. CASE HandleHangup
    BY <1>8, Unmoved DEF HandleHangup, kid, line, childState
  <1>9. CASE HandlePipe
    BY <1>9, Unmoved DEF HandlePipe, kid, line, childState
  <1>10. ASSUME NEW quits \in BOOLEAN, HandleStdin(quits) PROVE IInv'
    BY <1>10, Unmoved DEF HandleStdin, Key, kid, line, childState
  <1>11. CASE DrainReads
    BY <1>11, ReadsInv
  <1>12. CASE DrainEnds
    BY <1>12 DEF DrainEnds, kid, line, IInv, TypeOK, PeersRight, InTransit, Count
  <1>13. CASE Reap
    BY <1>13, ReapInv
  <1>14. ASSUME NEW more \in SUBSET Maybe, Poll(more) PROVE IInv'
    BY <1>14, Unmoved DEF Poll, kid, line, childState
  <1>15. ASSUME NEW k \in 1..Len(togo), ChildWrites(k) PROVE IInv'
    BY <1>15, WritesInv
  <1>16. CASE ChildCloses
    BY <1>16 DEF ChildCloses, loop, line, IInv, TypeOK, PeersRight, InTransit, Count
  <1>17. ASSUME NEW status \in {0, 1}, ChildExits(status) PROVE IInv'
    BY <1>17 DEF ChildExits, loop, line, IInv, TypeOK, PeersRight, InTransit, Count
  <1>18. CASE Clock
    BY <1>18, Unmoved DEF Clock, kid, line, childState
  <1>19. CASE Signal
    BY <1>19, Unmoved DEF Signal, kid, line, childState
  <1>20. CASE UNCHANGED vars
    BY <1>20, Unmoved DEF vars, loop, kid, line, childState
  <1> QED
    BY <1>1, <1>2, <1>3, <1>4, <1>5, <1>6, <1>7, <1>8, <1>9, <1>10, <1>11, <1>12, <1>13,
       <1>14, <1>15, <1>16, <1>17, <1>18, <1>19, <1>20 DEF Next, Main, Child

\* The number of peers on the panel is the one of the last `tailscale status'
\* that succeeded, whatever it printed, however the pipe cut it, and whatever
\* a child that failed left half-read before (tailscale_start, tailscale_drain).
THEOREM PeersAreRight == Spec => []PeersRight
  <1>1. IInv => PeersRight
    BY DEF IInv
  <1> QED
    BY <1>1, InitInv, StepInv, PTL DEF Spec

-----------------------------------------------------------------------------
(***************************************************************************)
(* The meters.                                                             *)
(***************************************************************************)

\* Division of what is no more than a multiple of the divisor.
LEMMA DivBounds ==
    ASSUME NEW a \in Nat, NEW b \in Nat \ {0}, NEW k \in Nat, a <= k * b
    PROVE  a \div b \in 0..k
  <1>1. a \div b \in Nat /\ b * (a \div b) <= a
    BY Z3
  <1>2. b * (a \div b) <= b * k
    BY <1>1, Z3
  <1>3. a \div b <= k
    BY <1>1, <1>2, Z3
  <1> QED
    BY <1>1, <1>3

\* A bar has as many filled columns as it is wide at most and none below, even
\* for a reading above its maximum, below zero or without a maximum.
THEOREM BarFits ==
    ASSUME NEW v \in Int, NEW m \in Int, NEW w \in Nat
    PROVE  bar_filled(v, m, w) \in 0..w
  <1>1. CASE m > 0
    <2>1. v * w \in Int
      OBVIOUS
    <2>2. Quot(v * w, m) \in Int
      BY <1>1, <2>1 DEF Quot
    <2> QED
      BY <1>1, <2>2 DEF bar_filled, Clamp
  <1>2. CASE ~(m > 0)
    BY <1>2 DEF bar_filled, Clamp
  <1> QED
    BY <1>1, <1>2

\* While the kernel's counters do not run backwards and busy time is part of
\* all time, the share of the CPU is a percentage, also of an empty interval.
THEOREM CpuIsPercentage ==
    ASSUME NEW busy \in Nat, NEW total \in Nat, NEW prev_busy \in Nat, NEW prev_total \in Nat,
           prev_busy <= busy, busy - prev_busy <= total - prev_total
    PROVE  cpu_percent(busy, total, prev_busy, prev_total) \in 0..100
  <1> DEFINE dt == total - prev_total
             db == busy - prev_busy
  <1>1. db \in Nat /\ dt \in Nat /\ db <= dt
    OBVIOUS
  <1> HIDE DEF dt, db
  <1>2. CASE dt > 0
    <2>1. db * 100 \in Nat /\ db * 100 <= 100 * dt /\ dt \in Nat \ {0}
      BY <1>1, <1>2
    <2>2. (db * 100) \div dt \in 0..100
      BY <2>1, DivBounds
    <2>3. Quot(db * 100, dt) = (db * 100) \div dt
      BY <2>1 DEF Quot
    <2> QED
      BY <1>2, <2>2, <2>3 DEF cpu_percent, dt, db
  <1>3. CASE ~(dt > 0)
    BY <1>3 DEF cpu_percent, dt
  <1> QED
    BY <1>2, <1>3

\* Use% is a percentage for every filesystem with no more free than there is,
\* of an empty one too; and it says 0% of nothing but an unused one.
THEOREM DiskIsPercentage ==
    ASSUME NEW blocks \in Nat, NEW bfree \in Nat, NEW bavail \in Nat, bfree <= blocks
    PROVE  /\ disk_pct(blocks, bfree, bavail) \in 0..100
           /\ disk_pct(blocks, bfree, bavail) = 0 => blocks = bfree
  <1> DEFINE used  == blocks - bfree
             denom == used + bavail
             above == used * 100 + denom - 1
  <1>1. used \in Nat /\ denom \in Nat /\ used <= denom
    OBVIOUS
  <1>2. CASE denom = 0
    BY <1>1, <1>2 DEF disk_pct
  <1>3. CASE denom # 0
    <2> HIDE DEF used, denom
    <2>1. above \in Nat /\ denom \in Nat \ {0} /\ above <= 100 * denom + denom - 1
      BY <1>1, <1>3
    <2> HIDE DEF above
    <2>2. above \div denom \in Nat /\ denom * (above \div denom) <= above
      BY <2>1, Z3
    <2>3. above \div denom <= 100
      <3>1. SUFFICES ASSUME above \div denom >= 101 PROVE FALSE
        BY <2>2
      <3>2. denom * (above \div denom) >= denom * 101
        BY <2>1, <2>2, <3>1, Z3
      <3> QED
        BY <2>1, <2>2, <3>2
    <2>4. used > 0 => above \div denom >= 1
      <3>1. SUFFICES ASSUME used > 0 PROVE above >= denom
        BY <2>1, Z3
      <3> QED
        BY <1>1, <3>1 DEF above
    <2>5. disk_pct(blocks, bfree, bavail) = above \div denom
      BY <1>3 DEF disk_pct, above, denom, used
    <2>6. used = 0 => blocks = bfree
      BY DEF used
    <2> QED
      BY <1>1, <2>2, <2>3, <2>4, <2>5, <2>6
  <1> QED
    BY <1>2, <1>3

\* What a duration that is shown amounts to.
Seconds(d) ==
    CASE d[1] = "d" -> 86400 * d[2] + 3600 * d[3] + 60 * d[4]
      [] d[1] = "h" -> 3600 * d[2] + 60 * d[3]
      [] d[1] = "m" -> 60 * d[2] + d[3]

\* The uptime shown is never ahead and less than a minute behind: no hour or
\* minute is lost or carried where days, hours and minutes meet.
THEOREM DurationExact ==
    ASSUME NEW s \in Nat
    PROVE  s - 60 < Seconds(duration(s)) /\ Seconds(duration(s)) <= s
  <1>1. CASE s >= 86400
    BY <1>1, Z3 DEF duration, Seconds
  <1>2. CASE s >= 3600 /\ s < 86400
    BY <1>2, Z3 DEF duration, Seconds
  <1>3. CASE s < 3600
    BY <1>3, Z3 DEF duration, Seconds
  <1> QED
    BY <1>1, <1>2, <1>3

-----------------------------------------------------------------------------
(***************************************************************************)
(* The list of ports.                                                      *)
(***************************************************************************)

\* A loop over n entries begins with b and goes on from o to F[o][k] at entry
\* k; g is a run of it, and I what is kept.
IsLoop(D, b, n, F) == b \in D /\ n \in Nat /\ F \in [D -> [1..n -> D]]
IsRun(g, D, b, n, F) ==
    g[0] = b /\ \A k \in 1..n : g[k - 1] \in D => g[k] = F[g[k - 1]][k]
Keeps(I, D, b, n, F) ==
    /\ I \in [0..n -> SUBSET D] /\ b \in I[0]
    /\ \A k \in 1..n : \A o \in I[k - 1] : F[o][k] \in I[k]

\* What a loop computes exists.
LEMMA Recursion ==
    ASSUME NEW D, NEW b, NEW n, NEW F, IsLoop(D, b, n, F)
    PROVE  \E g \in [0..n -> D] : IsRun(g, D, b, n, F)
  <1> b \in D /\ n \in Nat /\ F \in [D -> [1..n -> D]]
    BY DEF IsLoop
  <1> DEFINE Upto(g, m) == /\ g \in [0..m -> D] /\ g[0] = b
                           /\ \A k \in 1..m : g[k] = F[g[k - 1]][k]
             T == {m \in Nat : m <= n => \E g : Upto(g, m)}
  <1>1. 0 \in T
    <2> DEFINE z == [i \in 0..0 |-> b]
    <2>1. z \in [0..0 -> D] /\ z[0] = b /\ \A k \in 1..0 : FALSE
      OBVIOUS
    <2> HIDE DEF z
    <2>2. Upto(z, 0)
      BY <2>1
    <2> QED
      BY <2>2
  <1>2. ASSUME NEW m \in T PROVE m + 1 \in T
    <2>0. m \in Nat /\ (m <= n => \E g : Upto(g, m))
      OBVIOUS
    <2> SUFFICES ASSUME m + 1 <= n PROVE \E g : Upto(g, m + 1)
      <3> HIDE DEF Upto
      <3> QED
        BY <2>0
    <2>1. m \in Nat /\ m <= n
      BY <2>0
    <2>2. PICK g : Upto(g, m)
      BY <2>0, <2>1
    <2> DEFINE x == F[g[m]][m + 1]
               h == [i \in 0..(m + 1) |-> IF i = m + 1 THEN x ELSE g[i]]
    <2>3. x \in D
      <3>1. g[m] \in D /\ m + 1 \in 1..n
        BY <2>1, <2>2
      <3> QED
        BY <3>1
    <2>4. h \in [0..(m + 1) -> D] /\ h[0] = b
      BY <2>1, <2>2, <2>3
    <2>5. \A i \in 0..m : h[i] = g[i]
      BY <2>1
    <2>6. h[m + 1] = F[g[m]][m + 1]
      BY <2>1
    <2> HIDE DEF h, x
    <2>7. ASSUME NEW k \in 1..(m + 1) PROVE h[k] = F[h[k - 1]][k]
      <3>1. CASE k = m + 1
        <4>1. k - 1 = m /\ h[m] = g[m]
          BY <2>1, <2>5, <3>1
        <4> QED
          BY <2>6, <3>1, <4>1
      <3>2. CASE k \in 1..m
        <4>1. k \in 0..m /\ k - 1 \in 0..m
          BY <2>1, <3>2
        <4>2. h[k] = g[k] /\ h[k - 1] = g[k - 1]
          BY <2>5, <4>1
        <4> QED
          BY <2>2, <3>2, <4>2
      <3> QED
        BY <2>1, <3>1, <3>2
    <2>8. Upto(h, m + 1)
      BY <2>4, <2>7
    <2> QED
      BY <2>8
  <1> HIDE DEF T
  <1>3. T = Nat
    <2>1. T \in SUBSET Nat
      BY DEF T
    <2> QED
      BY <1>1, <1>2, <2>1, Induction
  <1>4. n \in T /\ n <= n
    BY <1>3
  <1>5. \E g : Upto(g, n)
    BY <1>4 DEF T
  <1> QED
    BY <1>5 DEF IsRun

\* p puts the first n entries of s in order.
Orders(p, s, n) == \A i, j \in 1..n : i < j => s[p[i]] <= s[p[j]]

LEMMA OrderExists ==
    ASSUME NEW s \in Seq(Nat)
    PROVE  \E p \in Surjection(1..Len(s), 1..Len(s)) : Orders(p, s, Len(s))
  <1> DEFINE T == {n \in Nat : n <= Len(s) => \E p \in Surjection(1..n, 1..n) : Orders(p, s, n)}
  <1>1. 0 \in T
    <2>1. [i \in 1..0 |-> i] \in Surjection(1..0, 1..0) /\ Orders([i \in 1..0 |-> i], s, 0)
      BY DEF Surjection, Orders
    <2> QED
      BY <2>1
  <1>2. ASSUME NEW n \in T PROVE n + 1 \in T
    <2> SUFFICES ASSUME n + 1 <= Len(s) PROVE \E p \in Surjection(1..(n + 1), 1..(n + 1)) : Orders(p, s, n + 1)
      OBVIOUS
    <2>1. n \in Nat /\ n <= Len(s) /\ s[n + 1] \in Nat /\ \A i \in 1..n : s[i] \in Nat
      OBVIOUS
    <2>2. PICK p \in Surjection(1..n, 1..n) : Orders(p, s, n)
      BY <2>1
    <2>3. p \in [1..n -> 1..n] /\ \A w \in 1..n : \E v \in 1..n : p[v] = w
      BY <2>2 DEF Surjection
    <2> DEFINE x == s[n + 1]
               L == {i \in 1..(n + 1) : i = n + 1 \/ s[p[i]] > x}
    <2>4. PICK k \in L : \A i \in L : k <= i
      <3>1. n + 1 \in L /\ L \in SUBSET Nat
        BY <2>1
      <3> HIDE DEF L
      <3> QED
        BY <3>1, Least
    <2>5. k \in 1..(n + 1) /\ \A i \in 1..n : i < k => s[p[i]] <= x
      <3>1. \A i \in 1..n : p[i] \in 1..n
        BY <2>3
      <3>2. \A i \in 1..n : s[p[i]] \in Nat
        BY <2>1, <3>1
      <3> QED
        BY <2>1, <2>4, <3>2
    <2>6. \A i \in 1..n : k <= i => x <= s[p[i]]
      <3>1. TAKE i \in 1..n
      <3>2. HAVE k <= i
      <3>3. k \in 1..n /\ s[p[k]] > x
        BY <2>1, <2>4, <2>5, <3>2
      <3>4. s[p[k]] <= s[p[i]]
        <4>1. CASE k = i
          <5>1. p[k] \in 1..n
            BY <2>3, <3>3
          <5> QED
            BY <2>1, <4>1, <5>1
        <4>2. CASE k < i
          BY <2>2, <3>3, <4>2 DEF Orders
        <4> QED
          BY <2>1, <3>2, <3>3, <4>1, <4>2
      <3>5. s[p[k]] \in Nat /\ s[p[i]] \in Nat /\ x \in Nat
        BY <2>1, <2>3, <3>3
      <3>6. \A a, b, c \in Nat : a > c /\ a <= b => c <= b
        OBVIOUS
      <3> HIDE DEF x
      <3> QED
        BY <3>3, <3>4, <3>5, <3>6, Zenon
    <2> DEFINE q == [i \in 1..(n + 1) |-> IF i < k THEN p[i] ELSE IF i = k THEN n + 1 ELSE p[i - 1]]
    <2> HIDE DEF x, L
    <2>7. /\ \A i \in 1..n : i < k => q[i] = p[i]
          /\ q[k] = n + 1
          /\ \A i \in 1..n : k <= i => q[i + 1] = p[i]
      BY <2>1, <2>5
    <2>8. q = [i \in 1..(n + 1) |-> q[i]]
      OBVIOUS
    <2> HIDE DEF q, T
    <2>9. q \in [1..(n + 1) -> 1..(n + 1)]
      <3>1. ASSUME NEW i \in 1..(n + 1) PROVE q[i] \in 1..(n + 1)
        <4>1. CASE i < k
          <5>1. i \in 1..n
            BY <2>1, <2>5, <4>1
          <5>2. q[i] = p[i] /\ p[i] \in 1..n
            BY <2>3, <2>7, <4>1, <5>1
          <5> QED
            BY <2>1, <5>2
        <4>2. CASE i = k
          BY <2>1, <2>7, <4>2
        <4>3. CASE i > k
          <5>1. i - 1 \in 1..n /\ k <= i - 1 /\ (i - 1) + 1 = i
            BY <2>1, <2>5, <4>3
          <5>2. q[(i - 1) + 1] = p[i - 1] /\ p[i - 1] \in 1..n
            BY <2>3, <2>7, <5>1
          <5> QED
            BY <2>1, <5>1, <5>2
        <4> QED
          BY <2>1, <2>5, <4>1, <4>2, <4>3
      <3> QED
        BY <2>8, <3>1
    <2>10. ASSUME NEW w \in 1..(n + 1) PROVE \E v \in 1..(n + 1) : q[v] = w
      <3>1. CASE w = n + 1
        BY <2>5, <2>7, <3>1
      <3>2. CASE w \in 1..n
        <4>1. PICK v \in 1..n : p[v] = w
          BY <2>3, <3>2
        <4>2. v \in 1..(n + 1) /\ v + 1 \in 1..(n + 1) /\ (v < k \/ k <= v)
          BY <2>1, <2>5
        <4> QED
          BY <2>7, <4>1, <4>2
      <3> QED
        BY <2>1, <3>1, <3>2
    <2>11. ASSUME NEW i \in 1..(n + 1), NEW j \in 1..(n + 1), i < j
           PROVE  s[q[i]] <= s[q[j]]
      <3>1. CASE j < k
        <4>1. i \in 1..n /\ j \in 1..n /\ i < k
          BY <2>1, <2>5, <2>11, <3>1
        <4> QED
          BY <2>2, <2>7, <2>11, <3>1, <4>1 DEF Orders
      <3>2. CASE j = k
        <4>1. i \in 1..n /\ i < k
          BY <2>1, <2>5, <2>11, <3>2
        <4> QED
          BY <2>5, <2>7, <3>2, <4>1 DEF x
      <3>3. CASE j > k /\ i < k
        <4>1. i \in 1..n /\ j - 1 \in 1..n /\ k <= j - 1 /\ (j - 1) + 1 = j /\ i < j - 1
          BY <2>1, <2>5, <3>3
        <4> QED
          BY <2>2, <2>7, <3>3, <4>1 DEF Orders
      <3>4. CASE i = k
        <4>1. j - 1 \in 1..n /\ k <= j - 1 /\ (j - 1) + 1 = j
          BY <2>1, <2>5, <2>11, <3>4
        <4> QED
          BY <2>6, <2>7, <3>4, <4>1 DEF x
      <3>5. CASE i > k
        <4>1. /\ i - 1 \in 1..n /\ k <= i - 1 /\ (i - 1) + 1 = i /\ i - 1 < j - 1
              /\ j - 1 \in 1..n /\ k <= j - 1 /\ (j - 1) + 1 = j
          BY <2>1, <2>5, <2>11, <3>5
        <4> QED
          BY <2>2, <2>7, <4>1 DEF Orders
      <3> QED
        BY <2>1, <2>5, <2>11, <3>1, <3>2, <3>3, <3>4, <3>5
    <2>12. q \in Surjection(1..(n + 1), 1..(n + 1)) /\ Orders(q, s, n + 1)
      BY <2>9, <2>10, <2>11 DEF Surjection, Orders
    <2> QED
      BY <2>12
  <1> HIDE DEF T
  <1>3. T = Nat
    <2>1. T \in SUBSET Nat
      BY DEF T
    <2> QED
      BY <1>1, <1>2, <2>1, Induction
  <1>4. Len(s) \in Nat /\ Len(s) <= Len(s)
    OBVIOUS
  <1> QED
    BY <1>3, <1>4 DEF T

LEMMA Qsorts ==
    ASSUME NEW s \in Seq(Nat)
    PROVE  /\ qsort(s) \in Seq(Nat) /\ Len(qsort(s)) = Len(s)
           /\ \A i, j \in 1..Len(s) : i < j => qsort(s)[i] <= qsort(s)[j]
           /\ {qsort(s)[i] : i \in 1..Len(s)} = {s[i] : i \in 1..Len(s)}
  <1> DEFINE n == Len(s)
             p == CHOOSE q \in Surjection(1..n, 1..n) : \A i, j \in 1..n : i < j => s[q[i]] <= s[q[j]]
             t == [i \in 1..n |-> s[p[i]]]
  <1>1. p \in Surjection(1..n, 1..n) /\ \A i, j \in 1..n : i < j => s[p[i]] <= s[p[j]]
    BY OrderExists DEF Orders
  <1>2. qsort(s) = t
    BY DEF qsort
  <1> HIDE DEF p
  <1>3. n \in Nat /\ p \in [1..n -> 1..n] /\ \A w \in 1..n : \E v \in 1..n : p[v] = w
    BY <1>1 DEF Surjection
  <1>4. \A i \in 1..n : p[i] \in 1..n
    BY <1>3
  <1>5. \A i \in 1..n : t[i] = s[p[i]] /\ t[i] \in Nat
    BY <1>4
  <1>6. t \in Seq(Nat) /\ Len(t) = n
    BY <1>3, <1>5
  <1>7. {t[i] : i \in 1..n} = {s[i] : i \in 1..n}
    BY <1>3, <1>4, <1>5
  <1>8. \A i, j \in 1..n : i < j => t[i] <= t[j]
    BY <1>1, <1>5
  <1> HIDE DEF t
  <1> QED
    BY <1>2, <1>6, <1>7, <1>8

\* What holds before a loop over n entries and is kept by each of them holds
\* after the last one.
LEMMA Loop ==
    ASSUME NEW D, NEW b, NEW n, NEW F, IsLoop(D, b, n, F),
           NEW I, Keeps(I, D, b, n, F), NEW g, IsRun(g, D, b, n, F)
    PROVE  g[n] \in I[n]
  <1> /\ b \in D /\ n \in Nat /\ F \in [D -> [1..n -> D]]
      /\ I \in [0..n -> SUBSET D] /\ b \in I[0]
      /\ \A k \in 1..n : \A o \in I[k - 1] : F[o][k] \in I[k]
      /\ g[0] = b /\ \A k \in 1..n : g[k - 1] \in D => g[k] = F[g[k - 1]][k]
    BY DEF IsLoop, Keeps, IsRun
  <1> DEFINE T == {k \in Nat : k <= n => g[k] \in I[k]}
  <1>1. 0 \in T
    OBVIOUS
  <1>2. ASSUME NEW k \in T PROVE k + 1 \in T
    <2>1. k \in Nat /\ (k <= n => g[k] \in I[k])
      OBVIOUS
    <2>2. ASSUME k + 1 <= n PROVE g[k + 1] \in I[k + 1]
      <3>1. k + 1 \in 1..n /\ k \in 0..n /\ (k + 1) - 1 = k /\ g[k] \in I[k]
        BY <2>1, <2>2
      <3>2. g[k] \in D
        BY <3>1
      <3>3. g[k + 1] = F[g[k]][k + 1]
        BY <3>1, <3>2
      <3> QED
        BY <3>1, <3>2, <3>3
    <2> QED
      BY <2>1, <2>2
  <1> HIDE DEF T
  <1>3. T = Nat
    <2>1. T \in SUBSET Nat
      BY DEF T
    <2> QED
      BY <1>1, <1>2, <2>1, Induction
  <1>4. n \in T /\ n <= n
    BY <1>3
  <1> QED
    BY <1>4 DEF T

Conn == [state : STRING, port : Nat]

\* The ports of the first k connections that listen.
Open(conns, k) == {conns[i].port : i \in {j \in 1..k : conns[j].state = "listen"}}

LEMMA Appended ==
    ASSUME NEW o \in Seq(Nat), NEW x \in Nat
    PROVE  /\ Append(o, x) \in Seq(Nat) /\ Len(Append(o, x)) = Len(o) + 1
           /\ \A i \in 1..Len(o) : Append(o, x)[i] = o[i]
           /\ Append(o, x)[Len(o) + 1] = x
           /\ ToSet(Append(o, x)) = ToSet(o) \cup {x}
  <1> DEFINE a == Append(o, x)
  <1>1. /\ a \in Seq(Nat) /\ Len(a) = Len(o) + 1 /\ Len(o) \in Nat
        /\ \A i \in 1..Len(o) : a[i] = o[i]
        /\ a[Len(o) + 1] = x
        /\ DOMAIN a = 1..Len(a) /\ DOMAIN o = 1..Len(o)
    OBVIOUS
  <1> HIDE DEF a
  <1>2. ASSUME NEW i \in 1..Len(a) PROVE a[i] \in ToSet(o) \cup {x}
    <2>1. CASE i \in 1..Len(o)
      BY <1>1, <2>1 DEF ToSet
    <2>2. CASE i = Len(o) + 1
      BY <1>1, <2>2
    <2> QED
      BY <1>1, <2>1, <2>2
  <1>3. ASSUME NEW i \in 1..Len(o) PROVE o[i] \in ToSet(a)
    <2>1. i \in 1..Len(a) /\ a[i] = o[i]
      BY <1>1
    <2> QED
      BY <1>1, <2>1 DEF ToSet
  <1>4. x \in ToSet(a)
    <2>1. Len(o) + 1 \in 1..Len(a)
      BY <1>1
    <2> QED
      BY <1>1, <2>1 DEF ToSet
  <1>5. ToSet(a) = ToSet(o) \cup {x}
    BY <1>1, <1>2, <1>3, <1>4 DEF ToSet
  <1> QED
    BY <1>1, <1>5 DEF a

LEMMA OpenStep ==
    ASSUME NEW conns, NEW k \in Nat \ {0}
    PROVE  Open(conns, k) = Open(conns, k - 1)
                              \cup (IF conns[k].state = "listen" THEN {conns[k].port} ELSE {})
  <1>1. 1..k = (1..(k - 1)) \cup {k}
    OBVIOUS
  <1> DEFINE J == {j \in 1..(k - 1) : conns[j].state = "listen"}
             K == {j \in 1..k : conns[j].state = "listen"}
  <1>2. K = J \cup (IF conns[k].state = "listen" THEN {k} ELSE {})
    BY <1>1, Zenon
  <1>3. Open(conns, k) = {conns[i].port : i \in K} /\ Open(conns, k - 1) = {conns[i].port : i \in J}
    BY DEF Open
  <1> HIDE DEF J, K
  <1> QED
    BY <1>2, <1>3, Zenon

LEMMA PortsFacts ==
    ASSUME NEW conns \in Seq(Conn)
    PROVE  Ports(conns) \in Seq(Nat) /\ ToSet(Ports(conns)) = Open(conns, Len(conns))
  <1> DEFINE n == Len(conns)
             D == Seq(Nat)
             Step(o, k) == IF conns[k].state = "listen" THEN Append(o, conns[k].port) ELSE o
             F == [o \in D |-> [k \in 1..n |-> Step(o, k)]]
             I == [k \in 0..n |-> {o \in D : ToSet(o) = Open(conns, k)}]
             Eq(g) == g = [i \in 0..n |-> IF i = 0 THEN <<>>
                             ELSE IF conns[i].state = "listen" THEN Append(g[i - 1], conns[i].port)
                             ELSE g[i - 1]]
             g == CHOOSE h : Eq(h)
  <1>1. n \in Nat /\ \A k \in 1..n : conns[k] \in Conn
    OBVIOUS
  <1>2. \A k \in 1..n : conns[k].port \in Nat
    BY <1>1 DEF Conn
  <1>3. Ports(conns) = g[n]
    BY DEF Ports
  <1> HIDE DEF n, g
  <1>4. IsLoop(D, <<>>, n, F)
    BY <1>1, <1>2 DEF IsLoop
  <1>5. \A o \in D, k \in 1..n : F[o][k] = Step(o, k)
    OBVIOUS
  <1>6. 0 \in 0..n /\ \A k \in 1..n : k \in 0..n /\ k # 0 /\ k - 1 \in 0..n
    BY <1>1
  <1>7. \A i \in 0..n : i = 0 \/ i \in 1..n
    BY <1>1
  <1> HIDE DEF F
  <1>8. Eq(g)
    <2>1. PICK h \in [0..n -> D] : IsRun(h, D, <<>>, n, F)
      <3> HIDE DEF Eq, Step, D
      <3> QED
        BY <1>4, Recursion
    <2>2. ASSUME NEW i \in 0..n PROVE h[i] = IF i = 0 THEN <<>> ELSE Step(h[i - 1], i)
      <3>1. i \in 1..n => h[i - 1] \in D
        BY <1>6
      <3> HIDE DEF Step, D
      <3> QED
        BY <1>5, <1>6, <1>7, <2>1, <3>1 DEF IsRun
    <2>3. Eq(h)
      BY <2>2
    <2> QED
      BY <2>3 DEF g
  <1>9. IsRun(g, D, <<>>, n, F)
    <2>1. g[0] = <<>> /\ \A k \in 1..n : g[k] = Step(g[k - 1], k)
      BY <1>6, <1>8, Zenon
    <2> HIDE DEF Step, Eq, D
    <2> QED
      BY <1>5, <2>1, Zenon DEF IsRun
  <1> HIDE DEF Eq
  <1>10. Keeps(I, D, <<>>, n, F)
    <2>1. I \in [0..n -> SUBSET D]
      OBVIOUS
    <2>2. <<>> \in I[0]
      <3>1. ToSet(<<>>) = {} /\ Open(conns, 0) = {} /\ <<>> \in Seq(Nat)
        BY DEF ToSet, Open
      <3> QED
        BY <1>6, <3>1, Zenon
    <2>3. ASSUME NEW k \in 1..n, NEW o \in I[k - 1] PROVE F[o][k] \in I[k]
      <3>1. o \in Seq(Nat) /\ ToSet(o) = Open(conns, k - 1)
        BY <1>6
      <3>0. k \in Nat \ {0}
        BY <1>1
      <3>2. CASE conns[k].state = "listen"
        <4>1. Open(conns, k) = Open(conns, k - 1) \cup {conns[k].port}
          BY <3>0, <3>2, OpenStep, Zenon
        <4>2. F[o][k] = Append(o, conns[k].port)
          BY <1>5, <3>1, <3>2
        <4>3. Append(o, conns[k].port) \in Seq(Nat)
              /\ ToSet(Append(o, conns[k].port)) = ToSet(o) \cup {conns[k].port}
          BY <1>2, <3>1, Appended
        <4> HIDE DEF Step
        <4> QED
          BY <1>6, <3>1, <4>1, <4>2, <4>3, Zenon
      <3>3. CASE conns[k].state # "listen"
        <4>1. Open(conns, k) = Open(conns, k - 1)
          <5>1. Open(conns, k) = Open(conns, k - 1) \cup {}
            BY <3>0, <3>3, OpenStep, Zenon
          <5> QED
            BY <5>1
        <4>2. F[o][k] = o
          BY <1>5, <3>1, <3>3
        <4> QED
          BY <1>6, <3>1, <4>1, <4>2
      <3> QED
        BY <3>2, <3>3
    <2> QED
      BY <2>1, <2>2, <2>3 DEF Keeps
  <1> HIDE DEF I, Step, D
  <1>11. g[n] \in I[n]
    BY <1>4, <1>9, <1>10, Loop
  <1> QED
    BY <1>1, <1>3, <1>11 DEF I, n, D

\* A list without repetition, in order.
Rising(u) == \A i, j \in 1..Len(u) : i < j => u[i] < u[j]

LEMMA AppendRising ==
    ASSUME NEW o \in Seq(Nat), Rising(o), NEW x \in Nat, \A y \in ToSet(o) : y < x
    PROVE  Rising(Append(o, x))
  <1> DEFINE a == Append(o, x)
             n == Len(o)
  <1>1. n \in Nat /\ Len(a) = n + 1 /\ (\A i \in 1..n : a[i] = o[i]) /\ a[n + 1] = x
    BY Appended
  <1>2. \A i \in 1..n : o[i] < x
    BY DEF ToSet
  <1> HIDE DEF a
  <1>3. ASSUME NEW i \in 1..(n + 1), NEW j \in 1..(n + 1), i < j PROVE a[i] < a[j]
    <2>1. i \in 1..n
      BY <1>1, <1>3
    <2>2. CASE j = n + 1
      BY <1>1, <1>2, <2>1, <2>2
    <2>3. CASE j \in 1..n
      BY <1>1, <1>3, <2>1, <2>3 DEF Rising
    <2> QED
      BY <1>1, <2>2, <2>3
  <1> QED
    BY <1>1, <1>3 DEF Rising, a

LEMMA BesideFacts ==
    ASSUME NEW o \in Seq(Nat), Rising(o), NEW x \in Nat, Len(o) > 0 => o[Len(o)] <= x
    PROVE  /\ Beside(o, x) \in Seq(Nat) /\ Rising(Beside(o, x))
           /\ ToSet(Beside(o, x)) = ToSet(o) \cup {x}
           /\ Len(Beside(o, x)) > 0 /\ Beside(o, x)[Len(Beside(o, x))] = x
  <1>0. Len(o) \in Nat /\ (\A i \in 1..Len(o) : o[i] \in Nat) /\ DOMAIN o = 1..Len(o)
    OBVIOUS
  <1>1. CASE Len(o) > 0 /\ o[Len(o)] = x
    <2>1. Beside(o, x) = o
      BY <1>1 DEF Beside
    <2>2. Len(o) \in 1..Len(o)
      BY <1>0, <1>1
    <2>3. x \in ToSet(o)
      BY <1>0, <1>1, <2>2 DEF ToSet
    <2> QED
      BY <1>1, <2>1, <2>3
  <1>2. CASE ~(Len(o) > 0 /\ o[Len(o)] = x)
    <2>1. Beside(o, x) = Append(o, x)
      BY <1>2 DEF Beside
    <2>2. ASSUME NEW i \in 1..Len(o) PROVE o[i] < x
      <3> DEFINE n == Len(o)
                 z == o[n]
                 y == o[i]
      <3>1. n > 0 /\ n \in 1..n /\ (i = n \/ i < n)
        <4>1. n \in Nat /\ i \in 1..n
          BY <1>0
        <4> HIDE DEF n
        <4> QED
          BY <4>1
      <3>2. z \in Nat /\ y \in Nat
        <4>1. \A j \in 1..n : o[j] \in Nat
          BY <1>0
        <4> HIDE DEF n
        <4> QED
          BY <3>1, <4>1
      <3>3. i < n => y < z
        BY <3>1 DEF Rising
      <3>4. z <= x /\ z # x
        BY <1>2, <3>1
      <3> HIDE DEF z, y
      <3>5. y < x
        BY <3>1, <3>2, <3>3, <3>4 DEF y, z
      <3> QED
        BY <3>5 DEF y
    <2>3. \A y \in ToSet(o) : y < x
      BY <1>0, <2>2 DEF ToSet
    <2>4. Rising(Append(o, x))
      BY <2>3, AppendRising
    <2>5. /\ Append(o, x) \in Seq(Nat) /\ Len(Append(o, x)) = Len(o) + 1
          /\ Append(o, x)[Len(o) + 1] = x
          /\ ToSet(Append(o, x)) = ToSet(o) \cup {x}
      BY Appended
    <2> QED
      BY <1>0, <2>1, <2>4, <2>5
  <1> QED
    BY <1>1, <1>2

LEMMA UptoStep ==
    ASSUME NEW s, NEW k \in Nat \ {0}
    PROVE  {s[i] : i \in 1..k} = {s[i] : i \in 1..(k - 1)} \cup {s[k]}
  <1>1. 1..k = (1..(k - 1)) \cup {k}
    OBVIOUS
  <1> QED
    BY <1>1, Zenon

LEMMA UnrepeatedFacts ==
    ASSUME NEW s \in Seq(Nat), \A i, j \in 1..Len(s) : i < j => s[i] <= s[j]
    PROVE  /\ Unrepeated(s) \in Seq(Nat) /\ Rising(Unrepeated(s))
           /\ ToSet(Unrepeated(s)) = ToSet(s)
  <1> DEFINE n == Len(s)
             D == Seq(Nat)
             F == [o \in D |-> [k \in 1..n |-> Beside(o, s[k])]]
             Good(o, k) == /\ Rising(o) /\ ToSet(o) = {s[i] : i \in 1..k}
                           /\ k > 0 => Len(o) > 0 /\ o[Len(o)] = s[k]
             I == [k \in 0..n |-> {o \in D : Good(o, k)}]
             Eq(g) == g = [i \in 0..n |-> IF i = 0 THEN <<>> ELSE Beside(g[i - 1], s[i])]
             g == CHOOSE h : Eq(h)
  <1>1. n \in Nat /\ (\A k \in 1..n : s[k] \in Nat) /\ ToSet(s) = {s[i] : i \in 1..n}
    BY DEF ToSet
  <1>3. Unrepeated(s) = g[n]
    BY DEF Unrepeated
  <1>4. IsLoop(D, <<>>, n, F)
    <2>1. \A o \in Seq(Nat), x \in Nat : Beside(o, x) \in Seq(Nat)
      BY DEF Beside
    <2>2. <<>> \in D
      OBVIOUS
    <2> HIDE DEF n
    <2>3. F \in [D -> [1..n -> D]]
      BY <1>1, <2>1
    <2> HIDE DEF F, D
    <2> QED
      BY <1>1, <2>2, <2>3 DEF IsLoop
  <1> HIDE DEF n, g
  <1>5. \A o \in D, k \in 1..n : F[o][k] = Beside(o, s[k])
    OBVIOUS
  <1>6. 0 \in 0..n /\ \A k \in 1..n : k \in 0..n /\ k # 0 /\ k - 1 \in 0..n
    BY <1>1
  <1>7. \A i \in 0..n : i = 0 \/ i \in 1..n
    BY <1>1
  <1> HIDE DEF F
  <1>8. Eq(g)
    <2>1. PICK h \in [0..n -> D] : IsRun(h, D, <<>>, n, F)
      <3> HIDE DEF Eq, D
      <3> QED
        BY <1>4, Recursion
    <2>2. ASSUME NEW i \in 0..n PROVE h[i] = IF i = 0 THEN <<>> ELSE Beside(h[i - 1], s[i])
      <3>1. i \in 1..n => h[i - 1] \in D
        BY <1>6
      <3> HIDE DEF D
      <3> QED
        BY <1>5, <1>6, <1>7, <2>1, <3>1 DEF IsRun
    <2>3. Eq(h)
      BY <2>2
    <2> QED
      BY <2>3 DEF g
  <1>9. IsRun(g, D, <<>>, n, F)
    <2>1. g[0] = <<>> /\ \A k \in 1..n : g[k] = Beside(g[k - 1], s[k])
      BY <1>6, <1>8, Zenon
    <2> HIDE DEF Eq, D
    <2> QED
      BY <1>5, <2>1, Zenon DEF IsRun
  <1> HIDE DEF Eq
  <1>10. Keeps(I, D, <<>>, n, F)
    <2>1. I \in [0..n -> SUBSET D]
      OBVIOUS
    <2>2. <<>> \in I[0]
      <3>1. Good(<<>>, 0) /\ <<>> \in Seq(Nat)
        BY DEF ToSet, Rising
      <3> QED
        BY <1>6, <3>1, Zenon
    <2>3. ASSUME NEW k \in 1..n, NEW o \in I[k - 1] PROVE F[o][k] \in I[k]
      <3>1. o \in Seq(Nat) /\ Good(o, k - 1)
        BY <1>6
      <3>2. k \in Nat \ {0} /\ s[k] \in Nat
        BY <1>1
      <3>3. Len(o) > 0 => o[Len(o)] <= s[k]
        <4>1. CASE k = 1
          <5>1. ToSet(o) = {}
            BY <3>1, <4>1
          <5>2. ~ (1 \in 1..Len(o))
            BY <3>1, <5>1 DEF ToSet
          <5> QED
            BY <3>1, <5>2
        <4>2. CASE k > 1
          <5>1. k - 1 > 0 /\ k - 1 \in 1..n /\ k - 1 < k
            BY <1>1, <4>2
          <5>2. o[Len(o)] = s[k - 1]
            BY <3>1, <5>1
          <5>3. s[k - 1] <= s[k]
            BY <5>1 DEF n
          <5> QED
            BY <5>2, <5>3
        <4> QED
          BY <3>2, <4>1, <4>2
      <3> DEFINE r == Beside(o, s[k])
      <3>4. /\ r \in Seq(Nat) /\ Rising(r) /\ ToSet(r) = ToSet(o) \cup {s[k]}
            /\ Len(r) > 0 /\ r[Len(r)] = s[k]
        BY <3>1, <3>2, <3>3, BesideFacts
      <3>5. F[o][k] = r
        BY <1>5, <3>1
      <3>6. ToSet(r) = {s[i] : i \in 1..k}
        BY <3>1, <3>2, <3>4, UptoStep, Zenon
      <3> HIDE DEF r
      <3> QED
        BY <1>6, <3>4, <3>5, <3>6, Zenon
    <2> QED
      BY <2>1, <2>2, <2>3 DEF Keeps
  <1> HIDE DEF I, D
  <1>11. g[n] \in I[n]
    BY <1>4, <1>9, <1>10, Loop
  <1>12. n \in 0..n
    BY <1>1
  <1>13. g[n] \in D /\ Good(g[n], n)
    BY <1>11, <1>12, Zenon DEF I
  <1> QED
    BY <1>1, <1>3, <1>13, Zenon DEF D

-----------------------------------------------------------------------------
(***************************************************************************)
(* The clients.                                                            *)
(***************************************************************************)

LEMMA ClientsFacts ==
    ASSUME NEW conns \in Seq(Conn), NEW port
    PROVE  clients_on(conns, port) = Cardinality({i \in 1..Len(conns) : OnPort(conns[i], port)})
  <1> DEFINE n == Len(conns)
             On(k) == {i \in 1..k : OnPort(conns[i], port)}
             Step(o, k) == o + (IF OnPort(conns[k], port) THEN 1 ELSE 0)
             F == [o \in Nat |-> [k \in 1..n |-> Step(o, k)]]
             I == [k \in 0..n |-> {o \in Nat : o = Cardinality(On(k))}]
             Eq(g) == g = [i \in 0..n |-> IF i = 0 THEN 0
                                          ELSE g[i - 1] + (IF OnPort(conns[i], port) THEN 1 ELSE 0)]
             g == CHOOSE h : Eq(h)
  <1>1. n \in Nat
    OBVIOUS
  <1>3. clients_on(conns, port) = g[n]
    BY DEF clients_on
  <1> HIDE DEF n, g
  <1>4. IsLoop(Nat, 0, n, F)
    <2>1. F \in [Nat -> [1..n -> Nat]]
      OBVIOUS
    <2> HIDE DEF F
    <2> QED
      BY <1>1, <2>1 DEF IsLoop
  <1>5. \A o \in Nat, k \in 1..n : F[o][k] = Step(o, k)
    OBVIOUS
  <1>6. 0 \in 0..n /\ \A k \in 1..n : k \in 0..n /\ k # 0 /\ k - 1 \in 0..n
    BY <1>1
  <1>7. \A i \in 0..n : i = 0 \/ i \in 1..n
    BY <1>1
  <1> HIDE DEF F
  <1>8. Eq(g)
    <2>1. PICK h \in [0..n -> Nat] : IsRun(h, Nat, 0, n, F)
      <3> HIDE DEF Eq, Step
      <3> QED
        BY <1>4, Recursion
    <2>2. ASSUME NEW i \in 0..n PROVE h[i] = IF i = 0 THEN 0 ELSE Step(h[i - 1], i)
      <3>1. i \in 1..n => h[i - 1] \in Nat
        BY <1>6
      <3> HIDE DEF Step
      <3> QED
        BY <1>5, <1>6, <1>7, <2>1, <3>1 DEF IsRun
    <2>3. Eq(h)
      BY <2>2
    <2> QED
      BY <2>3 DEF g
  <1>9. IsRun(g, Nat, 0, n, F)
    <2>1. g[0] = 0 /\ \A k \in 1..n : g[k] = Step(g[k - 1], k)
      BY <1>6, <1>8, Zenon
    <2> HIDE DEF Step, Eq
    <2> QED
      BY <1>5, <2>1, Zenon DEF IsRun
  <1> HIDE DEF Eq
  <1>10. Keeps(I, Nat, 0, n, F)
    <2>1. I \in [0..n -> SUBSET Nat]
      OBVIOUS
    <2>2. 0 \in I[0]
      <3>1. On(0) = {}
        OBVIOUS
      <3>2. Cardinality(On(0)) = 0
        BY <3>1, FS_EmptySet
      <3> HIDE DEF On
      <3> QED
        BY <1>6, <3>2
    <2>3. ASSUME NEW k \in 1..n, NEW o \in I[k - 1] PROVE F[o][k] \in I[k]
      <3>1. o \in Nat /\ o = Cardinality(On(k - 1))
        BY <1>6
      <3>2. k \in Nat \ {0} /\ 1..k = (1..(k - 1)) \cup {k} /\ k \notin 1..(k - 1)
        BY <1>1
      <3>3. On(k) = On(k - 1) \cup (IF OnPort(conns[k], port) THEN {k} ELSE {}) /\ k \notin On(k - 1)
        BY <3>2, Zenon
      <3>4. IsFiniteSet(On(k - 1))
        <4>1. 1 \in Int /\ k - 1 \in Int
          BY <3>2
        <4>2. IsFiniteSet(1..(k - 1)) /\ On(k - 1) \subseteq 1..(k - 1)
          BY <4>1, FS_Interval, Zenon
        <4> QED
          BY <4>2, FS_Subset
      <3> HIDE DEF On
      <3>5. Cardinality(On(k - 1) \cup {k}) = Cardinality(On(k - 1)) + 1
        BY <3>3, <3>4, FS_AddElement
      <3>6. Cardinality(On(k)) = Step(o, k) /\ Step(o, k) \in Nat
        <4>1. CASE OnPort(conns[k], port)
          <5>1. On(k) = On(k - 1) \cup {k}
            BY <3>3, <4>1, Zenon
          <5> QED
            BY <3>1, <3>5, <4>1, <5>1
        <4>2. CASE ~ OnPort(conns[k], port)
          <5>1. On(k) = On(k - 1) \cup {}
            BY <3>3, <4>2, Zenon
          <5> QED
            BY <3>1, <4>2, <5>1
        <4> QED
          BY <4>1, <4>2
      <3>7. F[o][k] = Step(o, k)
        BY <1>5, <3>1
      <3> HIDE DEF Step
      <3> QED
        BY <1>6, <3>6, <3>7, Zenon
    <2> QED
      BY <2>1, <2>2, <2>3 DEF Keeps
  <1> HIDE DEF I, Step, On
  <1>11. g[n] \in I[n]
    BY <1>4, <1>9, <1>10, Loop
  <1>12. n \in 0..n
    BY <1>1
  <1> QED
    BY <1>3, <1>11, <1>12, Zenon DEF I, On, n

-----------------------------------------------------------------------------
(***************************************************************************)
(* The line the ports are printed on.                                      *)
(***************************************************************************)

LEMMA Above ==
    ASSUME NEW S \in SUBSET Nat, IsFiniteSet(S), NEW p \in Nat, p \notin S, NEW k \in Nat
    PROVE  /\ Cardinality({q \in S : q >= k}) \in Nat
           /\ Cardinality({q \in S \cup {p} : q >= k})
                = Cardinality({q \in S : q >= k}) + (IF p >= k THEN 1 ELSE 0)
  <1> DEFINE A == {q \in S : q >= k}
             B == {q \in S \cup {p} : q >= k}
  <1>1. IsFiniteSet(A)
    <2>1. A \subseteq S
      OBVIOUS
    <2> QED
      BY <2>1, FS_Subset
  <1>2. Cardinality(A) \in Nat
    BY <1>1, FS_CardinalityType
  <1>3. CASE p >= k
    <2>1. B = A \cup {p} /\ p \notin A
      BY <1>3
    <2> HIDE DEF A, B
    <2>2. Cardinality(A \cup {p}) = Cardinality(A) + 1
      BY <1>1, <2>1, FS_AddElement
    <2>3. Cardinality(B) = Cardinality(A) + (IF p >= k THEN 1 ELSE 0)
      BY <1>3, <2>1, <2>2
    <2> QED
      BY <1>2, <2>3 DEF A, B
  <1>4. CASE ~ (p >= k)
    <2>1. B = A
      BY <1>4
    <2> HIDE DEF A, B
    <2>2. Cardinality(B) = Cardinality(A) + (IF p >= k THEN 1 ELSE 0)
      BY <1>2, <1>4, <2>1
    <2> QED
      BY <1>2, <2>2 DEF A, B
  <1> QED
    BY <1>3, <1>4

\* A port takes its digits and a space.
LEMMA WidthAdd ==
    ASSUME NEW S \in SUBSET Nat, IsFiniteSet(S), NEW p \in Nat, p \notin S
    PROVE  Width(S) \in Int /\ Width(S \cup {p}) = Width(S) + Digits(p) + 1
  <1> DEFINE a(k) == Cardinality({q \in S : q >= k})
             b(k) == Cardinality({q \in S \cup {p} : q >= k})
             c == Cardinality(S)
             d == Cardinality(S \cup {p})
  <1>1. c \in Nat /\ d = c + 1
    BY FS_AddElement, FS_CardinalityType
  <1>2. /\ a(10) \in Nat /\ b(10) = a(10) + (IF p >= 10 THEN 1 ELSE 0)
        /\ a(100) \in Nat /\ b(100) = a(100) + (IF p >= 100 THEN 1 ELSE 0)
        /\ a(1000) \in Nat /\ b(1000) = a(1000) + (IF p >= 1000 THEN 1 ELSE 0)
        /\ a(10000) \in Nat /\ b(10000) = a(10000) + (IF p >= 10000 THEN 1 ELSE 0)
    <2>1. 10 \in Nat /\ 100 \in Nat /\ 1000 \in Nat /\ 10000 \in Nat
      OBVIOUS
    <2>2. \A k \in Nat : a(k) \in Nat /\ b(k) = a(k) + (IF p >= k THEN 1 ELSE 0)
      BY Above, Zenon
    <2> HIDE DEF a, b
    <2> QED
      BY <2>1, <2>2
  <1>3. /\ Width(S) = 2 * c + a(10) + a(100) + a(1000) + a(10000) - 1
        /\ Width(S \cup {p}) = 2 * d + b(10) + b(100) + b(1000) + b(10000) - 1
    BY DEF Width
  <1> HIDE DEF a, b, c, d
  <1> QED
    BY <1>1, <1>2, <1>3 DEF Digits

Line == [len : Nat, shown : Seq(Nat), cut : BOOLEAN]

\* What is printed of the first k of these ports: some of them, in order, and
\* all of them as long as there is room for all.
Printed(o, u, k, n) ==
    LET first == {u[i] : i \in 1..k}
    IN /\ Rising(o.shown) /\ ToSet(o.shown) \subseteq first
       /\ Width(first) < n =>
            /\ ToSet(o.shown) = first /\ ~o.cut
            /\ IF k = 0 THEN o.len = 0 ELSE o.len = Width(first) /\ o.len > 0

LEMMA PutFacts ==
    ASSUME NEW u \in Seq(Nat), Rising(u), NEW n \in Nat, NEW k \in 1..Len(u),
           NEW o \in Line, Printed(o, u, k - 1, n)
    PROVE  LET q == Put(o, Entry(u[k], Digits(u[k])), 1, n)
           IN q \in Line /\ Printed(q, u, k, n)
  <1> DEFINE p == u[k]
             first == {u[i] : i \in 1..k}
             before == {u[i] : i \in 1..(k - 1)}
             w == Digits(p) + (IF o.len > 0 THEN 1 ELSE 0)
             q == Put(o, Entry(p, Digits(p)), 1, n)
  <1>1. k \in Nat \ {0} /\ k - 1 \in Nat /\ \A i \in 1..(k - 1) : i \in 1..Len(u) /\ i < k
    OBVIOUS
  <1>2. p \in Nat /\ \A i \in 1..Len(u) : u[i] \in Nat
    OBVIOUS
  <1>3. first = before \cup {p}
    BY <1>1, UptoStep, Zenon
  <1>4. \A y \in before : y < p
    BY <1>1 DEF Rising
  <1>5. before \in SUBSET Nat /\ IsFiniteSet(before) /\ p \notin before
    <2>1. before \in SUBSET Nat
      BY <1>1, <1>2
    <2>3. \A y \in before : y <= p
      <3> HIDE DEF before, p
      <3> QED
        BY <1>2, <1>4, <2>1
    <2>4. IsFiniteSet(before)
      <3> HIDE DEF before, p
      <3> QED
        BY <1>2, <2>1, <2>3, FS_BoundedSetOfNaturals
    <2>5. ~ (p < p)
      BY <1>2
    <2> QED
      BY <1>4, <2>1, <2>4, <2>5, Zenon
  <1>6. Width(before) \in Int /\ Width(first) = Width(before) + Digits(p) + 1
    <2> HIDE DEF before, p, first
    <2> QED
      BY <1>2, <1>3, <1>5, WidthAdd
  <1>7. Digits(p) \in Nat \ {0}
    BY <1>2 DEF Digits
  <1>8. q = IF w < n - o.len
            THEN [len |-> o.len + w, shown |-> Append(o.shown, p), cut |-> FALSE]
            ELSE [o EXCEPT !.cut = (o.len + 1 < n)]
    BY DEF Put, Entry
  <1>9. o.len \in Nat /\ o.shown \in Seq(Nat) /\ o.cut \in BOOLEAN
    BY DEF Line
  <1>10. /\ Rising(o.shown) /\ ToSet(o.shown) \subseteq before
         /\ Width(before) < n =>
              /\ ToSet(o.shown) = before /\ ~o.cut
              /\ IF k - 1 = 0 THEN o.len = 0 ELSE o.len = Width(before) /\ o.len > 0
    BY DEF Printed
  <1>11. k - 1 = 0 => before = {} /\ Width(before) = 0 - 1
    <2>1. ASSUME k - 1 = 0 PROVE before = {}
      <3>1. 1..(k - 1) = {}
        BY <1>1, <2>1
      <3> QED
        BY <3>1, Zenon
    <2>2. Width({}) = 0 - 1
      <3>1. \A j \in Nat : {y \in {} : y >= j} = {}
        OBVIOUS
      <3> QED
        BY <3>1, FS_EmptySet DEF Width
    <2> HIDE DEF before
    <2> QED
      BY <2>1, <2>2
  <1> HIDE DEF p, first, before, q
  <1>12. ASSUME Width(first) < n
         PROVE  /\ w < n - o.len /\ o.len + w = Width(first) /\ o.len + w > 0
                /\ ToSet(o.shown) = before
    <2>1. Width(before) < n
      BY <1>6, <1>7, <1>12
    <2>2. ToSet(o.shown) = before
      BY <1>10, <2>1
    <2>3. CASE k - 1 = 0
      BY <1>6, <1>7, <1>9, <1>10, <1>11, <1>12, <2>1, <2>2, <2>3
    <2>4. CASE k - 1 # 0
      BY <1>6, <1>7, <1>9, <1>10, <1>12, <2>1, <2>2, <2>4
    <2> QED
      BY <2>3, <2>4
  <1>13. CASE w < n - o.len
    <2> DEFINE a == Append(o.shown, p)
    <2>1. q.len = o.len + w /\ q.shown = a /\ q.cut = FALSE
          /\ q = [len |-> o.len + w, shown |-> a, cut |-> FALSE]
      BY <1>8, <1>13
    <2>2. a \in Seq(Nat) /\ ToSet(a) = ToSet(o.shown) \cup {p}
      <3> DEFINE s == o.shown
      <3>1. p \in Nat /\ s \in Seq(Nat)
        BY <1>2, <1>9
      <3> HIDE DEF s
      <3>2. Append(s, p) \in Seq(Nat) /\ ToSet(Append(s, p)) = ToSet(s) \cup {p}
        BY <3>1, Appended
      <3> QED
        BY <3>2 DEF s
    <2>3. Rising(a)
      BY <1>2, <1>4, <1>9, <1>10, AppendRising
    <2> HIDE DEF a
    <2>4. o.len + w \in Nat
      BY <1>7, <1>9
    <2>5. q \in Line
      BY <2>1, <2>2, <2>4 DEF Line
    <2>6. ToSet(a) \subseteq first
      BY <1>3, <1>10, <2>2
    <2>7. Width(first) < n => ToSet(a) = first /\ q.len = Width(first) /\ q.len > 0
      BY <1>3, <1>12, <2>1, <2>2
    <2>8. Printed(q, u, k, n)
      <3>1. Rising(q.shown) /\ ToSet(q.shown) \subseteq first /\ ~q.cut /\ k # 0
        BY <1>1, <2>1, <2>3, <2>6
      <3>2. Width(first) < n => ToSet(q.shown) = first /\ q.len = Width(first) /\ q.len > 0
        BY <2>1, <2>7
      <3> QED
        BY <3>1, <3>2 DEF Printed, first
    <2> QED
      BY <2>5, <2>8 DEF q, p
  <1>14. CASE ~ (w < n - o.len)
    <2>1. q = [o EXCEPT !.cut = (o.len + 1 < n)]
      BY <1>8, <1>14
    <2>2. q \in Line /\ q.shown = o.shown
      <3> DEFINE c == o.len + 1 < n
      <3>1. c \in BOOLEAN
        OBVIOUS
      <3> HIDE DEF c
      <3>2. q = [o EXCEPT !.cut = c]
        BY <2>1 DEF c
      <3> QED
        BY <3>1, <3>2 DEF Line
    <2>3. ~ (Width(first) < n) /\ ToSet(o.shown) \subseteq first
      BY <1>3, <1>10, <1>12, <1>14
    <2>4. Printed(q, u, k, n)
      BY <1>10, <2>2, <2>3 DEF Printed, first
    <2> QED
      BY <2>2, <2>4 DEF q, p
  <1> QED
    BY <1>13, <1>14

LEMMA ListedFacts ==
    ASSUME NEW u \in Seq(Nat), Rising(u), NEW room \in Nat
    PROVE  LET o == Listed([i \in DOMAIN u |-> Entry(u[i], Digits(u[i]))], 1, room)
           IN o \in Line /\ Printed(o, u, Len(u), room)
  <1> DEFINE n == Len(u)
             e == [i \in DOMAIN u |-> Entry(u[i], Digits(u[i]))]
             Step(o, k) == Put(o, Entry(u[k], Digits(u[k])), 1, room)
             F == [o \in Line |-> [k \in 1..n |-> Step(o, k)]]
             I == [k \in 0..n |-> {o \in Line : Printed(o, u, k, room)}]
             Eq(g) == g = [i \in 0..n |-> IF i = 0 THEN Nothing ELSE Put(g[i - 1], e[i], 1, room)]
             g == CHOOSE h : Eq(h)
  <1>1. n \in Nat /\ DOMAIN u = 1..n /\ Len(e) = n /\ \A k \in 1..n : u[k] \in Nat
    OBVIOUS
  <1>2. \A k \in 1..n : e[k] = Entry(u[k], Digits(u[k]))
    BY <1>1
  <1>3. Listed(e, 1, room) = g[n]
    <2> HIDE DEF e, n
    <2> QED
      BY <1>1 DEF Listed
  <1> HIDE DEF n, g, e
  <1>4. IsLoop(Line, Nothing, n, F)
    <2>1. Nothing \in Line
      BY DEF Nothing, Line
    <2>2. ASSUME NEW o \in Line, NEW k \in 1..n PROVE Step(o, k) \in Line
      <3>1. Digits(u[k]) \in Nat /\ u[k] \in Nat
        BY <1>1 DEF Digits
      <3>2. o.len \in Nat /\ o.shown \in Seq(Nat)
        BY DEF Line
      <3> DEFINE w == Digits(u[k]) + (IF o.len > 0 THEN 1 ELSE 0)
                 c == o.len + 1 < room
      <3>3. Step(o, k) = IF w < room - o.len
                         THEN [len |-> o.len + w, shown |-> Append(o.shown, u[k]), cut |-> FALSE]
                         ELSE [o EXCEPT !.cut = c]
        BY DEF Put, Entry
      <3>4. o.len + w \in Nat /\ Append(o.shown, u[k]) \in Seq(Nat) /\ c \in BOOLEAN
        BY <3>1, <3>2
      <3> HIDE DEF w, c, Step
      <3>5. CASE w < room - o.len
        <4>1. Step(o, k) = [len |-> o.len + w, shown |-> Append(o.shown, u[k]), cut |-> FALSE]
          BY <3>3, <3>5
        <4> QED
          BY <3>4, <4>1 DEF Line
      <3>6. CASE ~ (w < room - o.len)
        <4>1. Step(o, k) = [o EXCEPT !.cut = c]
          BY <3>3, <3>6
        <4> QED
          BY <3>4, <4>1 DEF Line
      <3> QED
        BY <3>5, <3>6
    <2> HIDE DEF Step
    <2>3. F \in [Line -> [1..n -> Line]]
      BY <2>2
    <2> HIDE DEF F
    <2> QED
      BY <1>1, <2>1, <2>3 DEF IsLoop
  <1> HIDE DEF Step
  <1>5. \A o \in Line, k \in 1..n : F[o][k] = Step(o, k)
    OBVIOUS
  <1>6. 0 \in 0..n /\ \A k \in 1..n : k \in 0..n /\ k # 0 /\ k - 1 \in 0..n
    BY <1>1
  <1>7. \A i \in 0..n : i = 0 \/ i \in 1..n
    BY <1>1
  <1>8. \A o, k : k \in 1..n => Put(o, e[k], 1, room) = Step(o, k)
    BY <1>2 DEF Step
  <1> HIDE DEF F
  <1>9. Eq(g)
    <2>1. PICK h \in [0..n -> Line] : IsRun(h, Line, Nothing, n, F)
      <3> HIDE DEF Eq
      <3> QED
        BY <1>4, Recursion
    <2>2. ASSUME NEW i \in 0..n PROVE h[i] = IF i = 0 THEN Nothing ELSE Put(h[i - 1], e[i], 1, room)
      <3>1. i \in 1..n => h[i - 1] \in Line
        BY <1>6
      <3> QED
        BY <1>5, <1>6, <1>7, <1>8, <2>1, <3>1 DEF IsRun
    <2>3. Eq(h)
      BY <2>2
    <2> QED
      BY <2>3 DEF g
  <1>10. IsRun(g, Line, Nothing, n, F)
    <2>1. g[0] = Nothing /\ \A k \in 1..n : g[k] = Put(g[k - 1], e[k], 1, room)
      BY <1>6, <1>9, Zenon
    <2> HIDE DEF Eq
    <2> QED
      BY <1>5, <1>8, <2>1 DEF IsRun
  <1> HIDE DEF Eq
  <1>11. Keeps(I, Line, Nothing, n, F)
    <2>1. I \in [0..n -> SUBSET Line]
      OBVIOUS
    <2>2. Nothing \in I[0]
      <3>1. Rising(<<>>) /\ ToSet(<<>>) = {} /\ {u[i] : i \in 1..0} = {}
        BY DEF Rising, ToSet
      <3>2. Nothing.len = 0 /\ Nothing.shown = <<>> /\ Nothing.cut = FALSE /\ Nothing \in Line
        BY DEF Nothing, Line
      <3>3. Printed(Nothing, u, 0, room)
        BY <3>1, <3>2 DEF Printed
      <3> QED
        BY <1>6, <3>2, <3>3, Zenon
    <2>3. ASSUME NEW k \in 1..n, NEW o \in I[k - 1] PROVE F[o][k] \in I[k]
      <3>1. o \in Line /\ Printed(o, u, k - 1, room)
        BY <1>6
      <3>2. k \in 1..Len(u)
        BY DEF n
      <3>3. Step(o, k) \in Line /\ Printed(Step(o, k), u, k, room)
        BY <3>1, <3>2, PutFacts DEF Step
      <3>4. F[o][k] = Step(o, k)
        BY <1>5, <3>1
      <3> QED
        BY <1>6, <3>3, <3>4, Zenon
    <2> QED
      BY <2>1, <2>2, <2>3 DEF Keeps
  <1> HIDE DEF I
  <1>12. g[n] \in I[n]
    BY <1>4, <1>10, <1>11, Loop
  <1>13. n \in 0..n
    BY <1>1
  <1>14. g[n] \in Line /\ Printed(g[n], u, n, room)
    BY <1>12, <1>13, Zenon DEF I
  <1> QED
    BY <1>3, <1>14 DEF n, e

\* listening_ports, of any connections and into a line of any length.
LEMMA ListeningFacts ==
    ASSUME NEW conns \in Seq(Conn), NEW room \in Nat
    PROVE  LET o    == listening_ports(conns, room)
               open == Open(conns, Len(conns))
           IN /\ o.shown \in Seq(Nat) /\ Rising(o.shown) /\ ToSet(o.shown) \subseteq open
              /\ Width(open) < room => ToSet(o.shown) = open /\ ~o.cut
  <1> DEFINE s == Ports(conns)
             t == qsort(s)
             u == Unrepeated(t)
             l == Listed([i \in DOMAIN u |-> Entry(u[i], Digits(u[i]))], 1, room)
             open == Open(conns, Len(conns))
             o == OrDash(l)
  <1>1. s \in Seq(Nat) /\ ToSet(s) = open
    BY PortsFacts
  <1>2. t \in Seq(Nat) /\ ToSet(t) = ToSet(s) /\ \A i, j \in 1..Len(t) : i < j => t[i] <= t[j]
    <2> HIDE DEF s
    <2>1. /\ t \in Seq(Nat) /\ Len(t) = Len(s)
          /\ {t[i] : i \in 1..Len(s)} = {s[i] : i \in 1..Len(s)}
          /\ \A i, j \in 1..Len(s) : i < j => t[i] <= t[j]
      BY <1>1, Qsorts
    <2>2. DOMAIN s = 1..Len(s) /\ DOMAIN t = 1..Len(t)
      BY <1>1, <2>1
    <2> HIDE DEF t
    <2> QED
      BY <2>1, <2>2 DEF ToSet
  <1> HIDE DEF s, t, open
  <1>3. u \in Seq(Nat) /\ Rising(u) /\ ToSet(u) = ToSet(t)
    BY <1>2, UnrepeatedFacts
  <1>4. {u[i] : i \in 1..Len(u)} = open
    <2> HIDE DEF u
    <2>1. DOMAIN u = 1..Len(u)
      BY <1>3
    <2>2. ToSet(u) = {u[i] : i \in 1..Len(u)}
      BY <2>1, Zenon DEF ToSet
    <2> QED
      BY <1>1, <1>2, <1>3, <2>2, Zenon
  <1> HIDE DEF u
  <1>5. l \in Line /\ Printed(l, u, Len(u), room)
    BY <1>3, ListedFacts
  <1>6. listening_ports(conns, room) = o
    BY DEF listening_ports, u, t, s
  <1> HIDE DEF l
  <1>7. /\ l.shown \in Seq(Nat) /\ Rising(l.shown) /\ ToSet(l.shown) \subseteq open
        /\ Width(open) < room =>
             /\ ToSet(l.shown) = open /\ ~l.cut
             /\ Len(u) # 0 => l.len > 0
    BY <1>4, <1>5 DEF Printed, Line
  <1>8. CASE l.len # 0
    <2>1. o = l
      BY <1>8 DEF OrDash
    <2> QED
      BY <1>6, <1>7, <2>1 DEF open
  <1>9. CASE l.len = 0
    <2>1. o = Nothing
      BY <1>9 DEF OrDash
    <2>2. o.shown = <<>> /\ o.cut = FALSE /\ ToSet(<<>>) = {} /\ Rising(<<>>)
      BY <2>1 DEF Nothing, ToSet, Rising
    <2>3. ASSUME Width(open) < room PROVE open = {}
      <3>1. Len(u) = 0
        BY <1>7, <1>9, <2>3
      <3> QED
        BY <1>4, <3>1
    <2>4. <<>> \in Seq(Nat)
      OBVIOUS
    <2> HIDE DEF o
    <2> QED
      BY <1>6, <2>2, <2>3, <2>4 DEF open
  <1> QED
    BY <1>8, <1>9

\* scan_tcp takes the first connections of both tables.
LEMMA ScanFacts ==
    ASSUME NEW a \in Seq(Conn), NEW b \in Seq(Conn)
    PROVE  LET all   == a \o b
               conns == scan_tcp(a, b, MaxConns)
           IN /\ all \in Seq(Conn) /\ conns \in Seq(Conn)
              /\ Len(conns) <= Len(all) /\ \A i \in 1..Len(conns) : conns[i] = all[i]
              /\ Len(all) <= MaxConns => Len(conns) = Len(all)
  <1> DEFINE all == a \o b
             m == IF Len(all) < MaxConns THEN Len(all) ELSE MaxConns
             conns == SubSeq(all, 1, m)
  <1>1. all \in Seq(Conn)
    OBVIOUS
  <1>2. MaxConns \in Nat
    BY ConstantsAssumption
  <1>3. scan_tcp(a, b, MaxConns) = conns
    BY DEF scan_tcp, Take
  <1> HIDE DEF all
  <1>4. m \in Nat /\ m <= Len(all) /\ (Len(all) <= MaxConns => m = Len(all)) /\ Len(all) \in Nat
    BY <1>1, <1>2
  <1> HIDE DEF m
  <1>5. conns \in Seq(Conn) /\ Len(conns) = m
    BY <1>1, <1>4
  <1>6. \A i \in 1..m : conns[i] = all[i]
    BY <1>1, <1>4
  <1> HIDE DEF conns
  <1>7. /\ conns \in Seq(Conn) /\ Len(conns) <= Len(all)
        /\ \A i \in 1..Len(conns) : conns[i] = all[i]
        /\ Len(all) <= MaxConns => Len(conns) = Len(all)
    BY <1>4, <1>5, <1>6, Zenon
  <1> QED
    BY <1>1, <1>3, <1>7, Zenon DEF all

\* FrameRight, of the connections and of the frame made of them.
IsRight(all, f) ==
    LET open == {all[i].port : i \in {j \in DOMAIN all : all[j].state = "listen"}}
        on   == {i \in DOMAIN all : all[i].state = "established" /\ all[i].port = Port}
        fits == Len(all) <= MaxConns
    IN /\ ToSet(f.ports.shown) \subseteq open
       /\ \A i \in 2..Len(f.ports.shown) : f.ports.shown[i - 1] < f.ports.shown[i]
       /\ fits /\ Width(open) < PortsBuf => ToSet(f.ports.shown) = open /\ ~f.ports.cut
       /\ fits => f.clients = Cardinality(on)

\* The frame made of two tables.
LEMMA SampleRight ==
    ASSUME NEW t \in Tables, Sample(t[1], t[2])
    PROVE  FrameRight'
  <1> DEFINE a == t[1]
             b == t[2]
             all == a \o b
             conns == scan_tcp(a, b, MaxConns)
             text == listening_ports(conns, PortsBuf)
             some == Open(conns, Len(conns))
             open == {all[i].port : i \in {j \in DOMAIN all : all[j].state = "listen"}}
             on == {i \in DOMAIN all : all[i].state = "established" /\ all[i].port = Port}
  <1>1. a \in Seq(Conn) /\ b \in Seq(Conn) /\ PortsBuf \in Nat
    BY ConstantsAssumption DEF Conn
  <1>2. /\ all \in Seq(Conn) /\ conns \in Seq(Conn)
        /\ Len(conns) <= Len(all) /\ \A i \in 1..Len(conns) : conns[i] = all[i]
        /\ Len(all) <= MaxConns => Len(conns) = Len(all)
    BY <1>1, ScanFacts, Zenon
  <1>3. proc'[1] \o proc'[2] = all /\ frame'.ports = text /\ frame'.clients = clients_on(conns, Port)
    BY DEF Sample
  <1> HIDE DEF a, b, all, conns
  <1>4. DOMAIN all = 1..Len(all) /\ Len(all) \in Nat /\ Len(conns) \in Nat
    BY <1>2
  <1>5. some = {all[i].port : i \in {j \in 1..Len(conns) : all[j].state = "listen"}}
    BY <1>2, Zenon DEF Open
  <1>6. 1..Len(conns) \subseteq 1..Len(all)
    BY <1>2, <1>4
  <1>7. some \subseteq open
    BY <1>4, <1>5, <1>6, Zenon
  <1>8. Len(all) <= MaxConns => some = open
    BY <1>2, <1>4, <1>5, Zenon
  <1>9. /\ text.shown \in Seq(Nat) /\ Rising(text.shown) /\ ToSet(text.shown) \subseteq some
        /\ Width(some) < PortsBuf => ToSet(text.shown) = some /\ ~text.cut
    BY <1>1, <1>2, ListeningFacts, Zenon
  <1>10. Len(all) <= MaxConns => clients_on(conns, Port) = Cardinality(on)
    <2>1. clients_on(conns, Port) = Cardinality({i \in 1..Len(conns) : OnPort(conns[i], Port)})
      BY <1>2, ClientsFacts, Zenon
    <2>2. ASSUME Len(all) <= MaxConns
          PROVE  {i \in 1..Len(conns) : OnPort(conns[i], Port)} = on
      BY <1>2, <1>4, <2>2, Zenon DEF OnPort
    <2> HIDE DEF on
    <2> QED
      BY <2>1, <2>2
  <1> HIDE DEF text, some
  <1>11. \A i \in 2..Len(text.shown) : text.shown[i - 1] < text.shown[i]
    <2>1. TAKE i \in 2..Len(text.shown)
    <2>2. Len(text.shown) \in Nat
      BY <1>9
    <2>3. i - 1 \in 1..Len(text.shown) /\ i \in 1..Len(text.shown) /\ i - 1 < i
      BY <2>2
    <2> QED
      BY <1>9, <2>3, Zenon DEF Rising
  <1> HIDE DEF open, on
  <1>12. /\ ToSet(text.shown) \subseteq open
         /\ Len(all) <= MaxConns /\ Width(open) < PortsBuf => ToSet(text.shown) = open /\ ~text.cut
    BY <1>7, <1>8, <1>9
  <1>13. ASSUME NEW f, f.ports = text, f.clients = clients_on(conns, Port) PROVE IsRight(all, f)
    BY <1>10, <1>11, <1>12, <1>13 DEF IsRight, open, on
  <1>14. IsRight(proc'[1] \o proc'[2], frame')
    BY <1>3, <1>13
  <1> QED
    BY <1>14 DEF FrameRight, IsRight

\* No other step makes a frame that is shown.
LEMMA FrameStep ==
    ASSUME FrameRight, [Next]_vars
    PROVE  FrameRight'
  <1>1. ASSUME NEW t \in Tables, Sample(t[1], t[2]) PROVE FrameRight'
    BY <1>1, SampleRight
  <1>2. CASE pc' # "shown"
    BY <1>2 DEF FrameRight
  <1>3. CASE pc' = pc /\ UNCHANGED shot
    BY <1>3 DEF FrameRight, shot
  <1>4. CASE Main
    <2>1. ASSUME NEW ok \in BOOLEAN, NEW out \in Outputs, Start(ok, out) PROVE FrameRight'
      <3>1. pc' # "shown"
        BY <2>1 DEF Start
      <3> QED
        BY <1>2, <3>1
    <2>2. ASSUME NEW ok \in BOOLEAN, NEW up \in BOOLEAN, NEW dash \in BOOLEAN, NEW out \in Outputs,
                 HandleTimer(ok, out, up, dash)
          PROVE  FrameRight'
      <3>1. pc' # "shown"
        BY <2>2 DEF HandleTimer
      <3> QED
        BY <1>2, <3>1
    <2>3. CASE Shown \/ LoopHead \/ Enter \/ HandlePipe \/ DrainEnds
      BY <1>2, <2>3 DEF Shown, LoopHead, Enter, HandlePipe, DrainEnds
    <2>4. CASE HandleToken \/ HandleHangup \/ \E quits \in BOOLEAN : HandleStdin(quits)
      BY <1>3, <2>4 DEF HandleToken, HandleHangup, HandleStdin, Key
    <2>5. CASE DrainReads
      BY <1>3, <2>5 DEF DrainReads, loop
    <2>6. CASE Reap
      <3>1. pc' # "shown"
        BY <2>6 DEF Reap
      <3> QED
        BY <1>2, <3>1
    <2>7. CASE \E more \in SUBSET Maybe : Poll(more)
      BY <1>2, <2>7 DEF Poll
    <2> QED
      BY <1>1, <1>4, <2>1, <2>2, <2>3, <2>4, <2>5, <2>6, <2>7 DEF Main
  <1>5. CASE Child
    BY <1>3, <1>5 DEF Child, ChildWrites, ChildCloses, ChildExits, loop
  <1>6. CASE Clock \/ Signal
    BY <1>2, <1>3, <1>6 DEF Clock, Signal
  <1>7. CASE UNCHANGED vars
    BY <1>3, <1>7 DEF vars, loop
  <1>8. CASE \E more \in SUBSET Maybe : Poll(more)
    BY <1>2, <1>8 DEF Poll
  <1> QED
    BY <1>4, <1>5, <1>6, <1>7, <1>8 DEF Next

\* Whatever the tables hold, and however small the limits are, the ports listed
\* are listening ones, each once and in order, and with room for all of them
\* they are all there and every client is counted (scan_tcp, listening_ports,
\* clients_on).
THEOREM FrameIsRight == Spec => []FrameRight
  <1>1. Init => FrameRight
    BY DEF Init, FrameRight
  <1> QED
    BY <1>1, FrameStep, PTL DEF Spec

=============================================================================

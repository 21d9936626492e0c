-------------------------- MODULE DashboardProofs ---------------------------
(***************************************************************************)
(* What is on the terminal, for every screen height, every MAX_ROWS and    *)
(* every body: render() keeps the terminal in step with the last frame     *)
(* (Screen), and the dashboard is built of frames render() is right about  *)
(* and shows what it should (Dashboard).                                   *)
(***************************************************************************)
EXTENDS Dashboard, TLAPS, WellFoundedInduction

-----------------------------------------------------------------------------
(***************************************************************************)
(* render().                                                               *)
(***************************************************************************)

\* A frame is a sequence of between one and MaxRows lines.
LEMMA FrameFacts ==
    ASSUME NEW f \in Frames
    PROVE  f \in Seq(Lines) /\ Len(f) \in 1..MaxRows
  <1>1. PICK m \in 1..MaxRows : f \in [1..m -> Lines]
    BY DEF Frames
  <1> QED
    BY <1>1, ScreenAssumption

\* A line of a frame is a line.
LEMMA LineFacts ==
    ASSUME NEW f \in Frames, NEW i \in Nat \ {0}
    PROVE  Line(f, i) \in Lines
  BY FrameFacts, ScreenAssumption DEF Line

\* No row address render() uses is past the last row, so the terminal never
\* clamps one: a row is written by its own line or not at all.
LEMMA WrittenIs ==
    ASSUME NEW f \in Frames, NEW forced \in BOOLEAN, NEW r \in 1..Rows,
           prev \in Frames
    PROVE  Written(Drawn(f, forced), f, r) =
              IF r \in Drawn(f, forced) THEN Line(f, r) ELSE phys[r]
  <1> DEFINE drawn == Drawn(f, forced)
  <1>1. \A i \in drawn : i \in 1..Rows /\ Row(i) = i
    BY FrameFacts, ScreenAssumption DEF Drawn, Smaller, Larger, Row
  <1>2. Row(r) = r
    BY ScreenAssumption DEF Row, Smaller
  <1>3. CASE r \in drawn
    <2> DEFINE P(i) == Row(i) = r /\ \A j \in drawn : Row(j) = r => j <= i
    <2>1. P(r)
      BY <1>1, <1>2
    <2>2. \A i \in drawn : P(i) => i = r
      BY <1>1
    <2>3. LastOn(drawn, r) = r
      <3>1. (CHOOSE i \in drawn : P(i)) = r
        BY <1>3, <2>1, <2>2
      <3> QED
        BY <3>1 DEF LastOn
    <2> QED
      BY <1>2, <1>3, <2>3 DEF Written
  <1>4. CASE r \notin drawn
    <2>1. ~ \E i \in drawn : Row(i) = r
      BY <1>1, <1>4
    <2> QED
      BY <1>4, <2>1 DEF Written
  <1> QED
    BY <1>3, <1>4

\* What row r shows after render(f, forced).
LEMMA RowAfter ==
    ASSUME NEW f \in Frames, NEW forced \in BOOLEAN, NEW r \in 1..Rows,
           ScreenTypeOK, render(f, forced)
    PROVE  /\ phys'[r] \in Lines
           /\ forced \/ phys[r] = Line(prev, r) => phys'[r] = Line(f, r)
  <1>1. prev \in Frames /\ phys[r] \in Lines
    BY DEF ScreenTypeOK
  <1>2. Len(f) \in 1..MaxRows /\ Len(prev) \in 1..MaxRows
    BY <1>1, FrameFacts
  <1>3. phys'[r] = IF Erases(f, forced) /\ r >= Row(Len(f) + 1)
                   THEN Blank
                   ELSE IF r \in Drawn(f, forced) THEN Line(f, r) ELSE phys[r]
    BY <1>1, WrittenIs DEF render
  <1>4. CASE Erases(f, forced) /\ r >= Row(Len(f) + 1)
    <2>1. r > Len(f)
      BY <1>2, <1>4, ScreenAssumption DEF Erases, Row, Smaller
    <2>2. Line(f, r) = Blank
      BY <1>2, <2>1 DEF Line
    <2> QED
      BY <1>3, <1>4, <2>2, ScreenAssumption
  <1>5. CASE ~(Erases(f, forced) /\ r >= Row(Len(f) + 1))
    <2>1. CASE r \in Drawn(f, forced)
      BY <1>3, <1>5, <2>1, LineFacts
    <2>2. CASE r \notin Drawn(f, forced)
      <3>1. phys'[r] = phys[r]
        BY <1>3, <1>5, <2>2
      <3>2. CASE r <= Len(f) \/ r <= Len(prev)
        <4>1. ~forced /\ Line(f, r) = Line(prev, r)
          BY <1>2, <2>2, <3>2, ScreenAssumption DEF Drawn, Smaller, Larger
        <4> QED
          BY <1>1, <3>1, <4>1
      <3>3. CASE r > Len(f) /\ r > Len(prev)
        <4>1. ~forced
          BY <1>2, <1>5, <3>3, ScreenAssumption DEF Erases, Row, Smaller
        <4>2. Line(f, r) = Blank /\ Line(prev, r) = Blank
          BY <1>2, <3>3 DEF Line
        <4> QED
          BY <1>1, <3>1, <4>1, <4>2
      <3> QED
        BY <1>2, <3>2, <3>3
    <2> QED
      BY <2>1, <2>2
  <1> QED
    BY <1>4, <1>5

-----------------------------------------------------------------------------
\* Types and the agreement of terminal and frame are kept by every step.
LEMMA ScreenStep == ScreenTypeOK /\ InSync /\ [ScreenNext]_screen => ScreenTypeOK' /\ InSync'
  <1> SUFFICES ASSUME ScreenTypeOK, InSync PROVE [ScreenNext]_screen => ScreenTypeOK' /\ InSync'
    OBVIOUS
  <1>1. ASSUME NEW f \in Frames, NEW forced \in BOOLEAN, render(f, forced)
        PROVE  ScreenTypeOK' /\ InSync'
    <2>1. prev' = f
      BY <1>1 DEF render
    <2>2. intact' \in BOOLEAN /\ (intact' => intact \/ forced)
      BY <1>1 DEF render, ScreenTypeOK
    <2>3. phys' \in [1..Rows -> Lines]
      <3>1. \A r \in 1..Rows : phys'[r] \in Lines
        BY <1>1, RowAfter
      <3>2. phys' = [r \in 1..Rows |-> phys'[r]]
        BY <1>1 DEF render
      <3> QED
        BY <3>1, <3>2
    <2>4. ASSUME intact', NEW r \in 1..Rows PROVE phys'[r] = Line(f, r)
      <3>1. forced \/ phys[r] = Line(prev, r)
        BY <2>2, <2>4 DEF InSync
      <3> QED
        BY <1>1, <3>1, RowAfter
    <2> QED
      BY <2>1, <2>2, <2>3, <2>4 DEF ScreenTypeOK, InSync, Line
  <1>2. ASSUME NEW r \in 1..Rows, NEW x \in Lines, Scribble(r, x)
        PROVE  ScreenTypeOK' /\ InSync'
    BY <1>2 DEF Scribble, ScreenTypeOK, InSync
  <1>3. CASE UNCHANGED screen
    BY <1>3 DEF screen, ScreenTypeOK, InSync, Line
  <1> QED
    BY <1>1, <1>2, <1>3 DEF ScreenNext

\* The state keeps its types and the terminal its agreement with the frame.
THEOREM Invariance == ScreenSpec => [](ScreenTypeOK /\ InSync)
  <1>1. ScreenInit => ScreenTypeOK /\ InSync
    <2> SUFFICES ASSUME ScreenInit PROVE ScreenTypeOK /\ InSync
      OBVIOUS
    <2>1. <<Blank>> \in [1..1 -> Lines]
      BY ScreenAssumption
    <2>2. prev \in Frames
      BY <2>1, ScreenAssumption DEF ScreenInit, Frames
    <2> QED
      BY <2>2 DEF ScreenInit, ScreenTypeOK, InSync
  <1> QED
    BY <1>1, ScreenStep, PTL DEF ScreenSpec

\* While only the panel writes, the terminal shows the last frame and nothing
\* else, for every screen height and every sequence of frames.
THEOREM InSyncAlways == ScreenSpec => []InSync
  BY Invariance, PTL

\* No repaint, forced or not, damages a row that was right.
THEOREM RowsStayRightAlways == ScreenSpec => RowsStayRight
  <1> DEFINE A == \A r \in 1..Rows :
                    prev' # prev /\ phys[r] = Line(prev, r)
                        => phys'[r] = Line(prev', r)
  <1>1. ASSUME ScreenTypeOK, [ScreenNext]_screen PROVE [A]_screen
    <2>1. ASSUME NEW f \in Frames, NEW forced \in BOOLEAN, render(f, forced)
          PROVE  A
      <3>1. prev' = f
        BY <2>1 DEF render
      <3> QED
        BY <1>1, <2>1, <3>1, RowAfter
    <2>2. ASSUME NEW r \in 1..Rows, NEW x \in Lines, Scribble(r, x)
          PROVE  A
      BY <2>2 DEF Scribble
    <2> QED
      BY <1>1, <2>1, <2>2 DEF ScreenNext
  <1> QED
    BY <1>1, Invariance, PTL DEF ScreenSpec, RowsStayRight

-----------------------------------------------------------------------------
(***************************************************************************)
(* Induction over the naturals, in the form the provers can use.           *)
(***************************************************************************)

LEMMA Least ==
    ASSUME NEW T \in SUBSET Nat, T # {}
    PROVE  \E m \in T : \A k \in T : m <= k
  <1> DEFINE R == OpToRel(<, Nat)
  <1>1. IsWellFoundedOn(R, Nat)
    BY NatLessThanWellFounded, Zenon
  <1>2. \A x, y \in Nat : x < y => <<x, y>> \in R
    BY Zenon DEF OpToRel
  <1> HIDE DEF R
  <1>3. T \subseteq Nat
    OBVIOUS
  <1>4. PICK x \in T : \A y \in T : ~ (<<y, x>> \in R)
    BY <1>1, <1>3, WFMin, Zenon
  <1>5. \A y \in T : ~ (y < x)
    BY <1>2, <1>3, <1>4, Zenon
  <1> QED
    BY <1>3, <1>5

LEMMA Induction ==
    ASSUME NEW T \in SUBSET Nat, 0 \in T, \A k \in T : k + 1 \in T
    PROVE  T = Nat
  <1> SUFFICES ASSUME T # Nat PROVE FALSE
    OBVIOUS
  <1>1. PICK m \in Nat \ T : \A k \in Nat \ T : m <= k
    BY Least
  <1>2. m - 1 \in Nat /\ m - 1 \in T
    BY <1>1
  <1> QED
    BY <1>1, <1>2

-----------------------------------------------------------------------------
(***************************************************************************)
(* out(): what k lines do to a frame.                                      *)
(***************************************************************************)

LEMMA LinesAre ==
    /\ Blank \in Lines /\ Mixed \in Lines /\ Logo \in Lines /\ Tag \in Lines /\ Other \in Lines
    /\ \A s \in 1..MaxSample : Body(s) \in Lines
    /\ Logo # Blank /\ Tag # Blank /\ \A s : Body(s) # Blank
  BY LinesAssumption DEF Texts, NoText, Mixed, Logo, Tag, Other, Body

LEMMA FrameIs ==
    ASSUME NEW f \in Seq(Lines), Len(f) \in 1..MaxRows
    PROVE  f \in Frames
  BY DEF Frames

LEMMA TextFacts ==
    ASSUME NEW f \in Frames, NEW x \in Lines
    PROVE  /\ Text(f, x) \in Frames /\ Len(Text(f, x)) = Len(f)
           /\ \A j \in 1..(Len(f) - 1) : Text(f, x)[j] = f[j]
           /\ f[Len(f)] = Blank => Text(f, x)[Len(f)] = x
  <1>1. f \in Seq(Lines) /\ Len(f) \in 1..MaxRows /\ Len(f) \in Nat
    BY FrameFacts, ScreenAssumption
  <1>2. CASE x = Blank
    BY <1>1, <1>2 DEF Text
  <1>3. CASE x # Blank
    <2> DEFINE y == IF f[Len(f)] = Blank THEN x ELSE Mixed
    <2>1. y \in Lines
      BY LinesAre
    <2>2. Text(f, x) = [f EXCEPT ![Len(f)] = y]
      BY <1>3 DEF Text
    <2> HIDE DEF y
    <2>3. [f EXCEPT ![Len(f)] = y] \in Seq(Lines) /\ Len([f EXCEPT ![Len(f)] = y]) = Len(f)
      BY <1>1, <2>1
    <2>4. /\ \A j \in 1..(Len(f) - 1) : [f EXCEPT ![Len(f)] = y][j] = f[j]
          /\ [f EXCEPT ![Len(f)] = y][Len(f)] = y
      BY <1>1
    <2>5. f[Len(f)] = Blank => y = x
      BY DEF y
    <2> QED
      BY <1>1, <2>2, <2>3, <2>4, <2>5, FrameIs
  <1> QED
    BY <1>2, <1>3

LEMMA NewlineFacts ==
    ASSUME NEW f \in Frames
    PROVE  /\ Newline(f) \in Frames /\ Len(Newline(f)) = Smaller(Len(f) + 1, MaxRows)
           /\ \A j \in 1..Len(f) : Newline(f)[j] = f[j]
           /\ Len(f) < MaxRows => Newline(f)[Len(f) + 1] = Blank
  <1>1. f \in Seq(Lines) /\ Len(f) \in 1..MaxRows /\ Len(f) \in Nat /\ MaxRows \in Nat
    BY FrameFacts, ScreenAssumption
  <1>2. CASE Len(f) < MaxRows
    <2>1. Newline(f) = Append(f, Blank)
      BY <1>2 DEF Newline
    <2>2. /\ Append(f, Blank) \in Seq(Lines) /\ Len(Append(f, Blank)) = Len(f) + 1
          /\ \A j \in 1..Len(f) : Append(f, Blank)[j] = f[j]
          /\ Append(f, Blank)[Len(f) + 1] = Blank
      BY <1>1, LinesAre
    <2>3. Smaller(Len(f) + 1, MaxRows) = Len(f) + 1 /\ Len(f) + 1 \in 1..MaxRows
      BY <1>1, <1>2 DEF Smaller
    <2> QED
      BY <2>1, <2>2, <2>3, FrameIs
  <1>3. CASE ~ (Len(f) < MaxRows)
    BY <1>1, <1>3 DEF Newline, Smaller
  <1> QED
    BY <1>2, <1>3

\* The frames Emit goes through exist.
Frame(f, x, g, k) == g = [i \in 0..k |-> IF i = 0 THEN f ELSE Newline(Text(g[i - 1], x))]

LEMMA FramesExist ==
    ASSUME NEW f, NEW x, NEW k \in Nat
    PROVE  \E g : Frame(f, x, g, k)
  <1> DEFINE T == {m \in Nat : \E g : Frame(f, x, g, m)}
  <1>1. 0 \in T
    <2>1. Frame(f, x, [i \in 0..0 |-> f], 0)
      BY DEF Frame
    <2> QED
      BY <2>1
  <1>2. ASSUME NEW m \in T PROVE m + 1 \in T
    <2>1. PICK g : Frame(f, x, g, m)
      OBVIOUS
    <2>2. m \in Nat /\ DOMAIN g = 0..m
      BY <2>1 DEF Frame
    <2>3. \A i \in 0..m : g[i] = IF i = 0 THEN f ELSE Newline(Text(g[i - 1], x))
      BY <2>1 DEF Frame
    <2> DEFINE h == [i \in 0..(m + 1) |-> IF i = m + 1 THEN Newline(Text(g[m], x)) ELSE g[i]]
    <2>4. \A i \in 0..(m + 1) : h[i] = IF i = 0 THEN f ELSE Newline(Text(h[i - 1], x))
      BY <2>2, <2>3
    <2>5. h = [i \in 0..(m + 1) |-> h[i]]
      OBVIOUS
    <2> HIDE DEF h
    <2>6. Frame(f, x, h, m + 1)
      BY <2>4, <2>5 DEF Frame
    <2> QED
      BY <2>2, <2>6
  <1> HIDE DEF T
  <1>3. T = Nat
    <2>1. T \in SUBSET Nat
      BY DEF T
    <2> QED
      BY <1>1, <1>2, <2>1, Induction
  <1> QED
    BY <1>3 DEF T

\* e is the frame f with i lines x after it: all the lines before the last one
\* stay, and text only meets text on the last line there is room for.
Extended(f, x, e, i) ==
    /\ e \in Frames /\ Len(e) = Smaller(Len(f) + i, MaxRows)
    /\ \A j \in 1..(Len(f) - 1) : e[j] = f[j]
    /\ f[Len(f)] = Blank => \A j \in Len(f)..(Len(e) - 1) : e[j] = x
    /\ f[Len(f)] = Blank /\ Len(f) + i <= MaxRows => e[Len(f) + i] = Blank

LEMMA ExtendOnce ==
    ASSUME NEW f \in Frames, NEW x \in Lines, NEW i \in Nat, NEW e, Extended(f, x, e, i)
    PROVE  Extended(f, x, Newline(Text(e, x)), i + 1)
  <1> DEFINE t == Text(e, x)
             d == Newline(t)
  <1>1. Len(f) \in 1..MaxRows /\ MaxRows \in Nat /\ e \in Frames
    BY FrameFacts, ScreenAssumption DEF Extended
  <1>2. /\ t \in Frames /\ Len(t) = Len(e) /\ \A j \in 1..(Len(e) - 1) : t[j] = e[j]
        /\ e[Len(e)] = Blank => t[Len(e)] = x
    BY <1>1, TextFacts
  <1>3. /\ d \in Frames /\ Len(d) = Smaller(Len(e) + 1, MaxRows)
        /\ \A j \in 1..Len(e) : d[j] = t[j]
        /\ Len(e) < MaxRows => d[Len(e) + 1] = Blank
    BY <1>2, NewlineFacts
  <1> HIDE DEF d, t
  <1>4. Len(e) = Smaller(Len(f) + i, MaxRows) /\ Len(e) \in 1..MaxRows /\ Len(f) <= Len(e)
    BY <1>1 DEF Extended, Smaller
  <1>5. Len(d) = Smaller(Len(f) + (i + 1), MaxRows)
    BY <1>1, <1>3, <1>4 DEF Smaller
  <1>6. \A j \in 1..(Len(f) - 1) : d[j] = f[j]
    BY <1>1, <1>2, <1>3, <1>4 DEF Extended
  <1>7. ASSUME f[Len(f)] = Blank, NEW j \in Len(f)..(Len(d) - 1) PROVE d[j] = x
    <2>1. CASE j < Len(e)
      <3>1. j \in Len(f)..(Len(e) - 1) /\ j \in 1..(Len(e) - 1) /\ j \in 1..Len(e)
        BY <1>1, <1>4, <2>1
      <3>2. e[j] = x
        BY <1>7, <3>1 DEF Extended
      <3> QED
        BY <1>2, <1>3, <3>1, <3>2
    <2>2. CASE ~ (j < Len(e))
      <3>1. j = Len(e) /\ Len(e) < MaxRows /\ Len(e) = Len(f) + i
        BY <1>1, <1>3, <1>4, <2>2 DEF Smaller
      <3>2. e[Len(e)] = Blank
        BY <1>1, <1>4, <1>7, <3>1 DEF Extended
      <3>3. Len(e) \in 1..Len(e)
        BY <1>4
      <3> QED
        BY <1>2, <1>3, <3>1, <3>2, <3>3
    <2> QED
      BY <2>1, <2>2
  <1>8. ASSUME f[Len(f)] = Blank, Len(f) + (i + 1) <= MaxRows PROVE d[Len(f) + (i + 1)] = Blank
    <2>1. Len(e) = Len(f) + i /\ Len(e) < MaxRows /\ Len(e) + 1 = Len(f) + (i + 1)
      BY <1>1, <1>4, <1>8 DEF Smaller
    <2> QED
      BY <1>3, <2>1
  <1>9. Extended(f, x, d, i + 1)
    BY <1>3, <1>5, <1>6, <1>7, <1>8 DEF Extended
  <1> QED
    BY <1>9 DEF d, t

LEMMA EmitFacts ==
    ASSUME NEW f \in Frames, NEW k \in Nat, NEW x \in Lines
    PROVE  Extended(f, x, Emit(f, k, x), k)
  <1> DEFINE g == CHOOSE h : Frame(f, x, h, k)
  <1>1. Frame(f, x, g, k)
    BY FramesExist
  <1>2. Emit(f, k, x) = g[k]
    BY DEF Emit, Frame
  <1> HIDE DEF g
  <1>3. \A i \in 0..k : g[i] = IF i = 0 THEN f ELSE Newline(Text(g[i - 1], x))
    BY <1>1 DEF Frame
  <1> DEFINE T == {i \in Nat : i <= k => Extended(f, x, g[i], i)}
  <1>4. 0 \in T
    <2>1. g[0] = f
      BY <1>3
    <2>2. Len(f) \in 1..MaxRows /\ MaxRows \in Nat
      BY FrameFacts, ScreenAssumption
    <2>3. Extended(f, x, f, 0)
      BY <2>2 DEF Extended, Smaller
    <2> QED
      BY <2>1, <2>3
  <1>5. ASSUME NEW i \in T PROVE i + 1 \in T
    <2> SUFFICES ASSUME i + 1 <= k PROVE Extended(f, x, g[i + 1], i + 1)
      OBVIOUS
    <2>1. i \in Nat /\ i + 1 \in 0..k /\ i + 1 # 0 /\ (i + 1) - 1 = i
      OBVIOUS
    <2>2. Extended(f, x, g[i], i)
      BY <2>1
    <2>3. g[i + 1] = Newline(Text(g[i], x))
      BY <1>3, <2>1
    <2> QED
      BY <2>1, <2>2, <2>3, ExtendOnce
  <1> HIDE DEF T
  <1>6. T = Nat
    <2>1. T \in SUBSET Nat
      BY DEF T
    <2> QED
      BY <1>4, <1>5, <2>1, Induction
  <1>7. Extended(f, x, g[k], k)
    BY <1>6 DEF T
  <1> QED
    BY <1>2, <1>7

\* e continues f: what f holds above its last line is still there.
Continues(f, e) ==
    e \in Frames /\ Len(f) <= Len(e) /\ \A j \in 1..(Len(f) - 1) : e[j] = f[j]

LEMMA EmitContinues ==
    ASSUME NEW f \in Frames, NEW k \in Nat, NEW x \in Lines
    PROVE  /\ Continues(f, Emit(f, k, x))
           /\ f[Len(f)] = Blank /\ Len(f) + k <= MaxRows
                => /\ Len(Emit(f, k, x)) = Len(f) + k
                   /\ Emit(f, k, x)[Len(f) + k] = Blank
  <1>1. Extended(f, x, Emit(f, k, x), k)
    BY EmitFacts
  <1>2. Len(f) \in 1..MaxRows /\ MaxRows \in Nat
    BY FrameFacts, ScreenAssumption
  <1> QED
    BY <1>1, <1>2 DEF Extended, Continues, Smaller

LEMMA ContinuesTransitive ==
    ASSUME NEW f \in Frames, NEW g, NEW h, Continues(f, g), Continues(g, h)
    PROVE  Continues(f, h)
  <1>1. Len(f) \in Nat /\ Len(g) \in Nat /\ Len(h) \in Nat
    BY FrameFacts, ScreenAssumption DEF Continues
  <1> QED
    BY <1>1 DEF Continues

LEMMA EmptyFrameFacts == EmptyFrame \in Frames /\ Len(EmptyFrame) = 1 /\ EmptyFrame[1] = Blank
  <1>1. EmptyFrame \in Seq(Lines) /\ Len(EmptyFrame) = 1 /\ EmptyFrame[1] = Blank
    BY LinesAre DEF EmptyFrame
  <1>2. Len(EmptyFrame) \in 1..MaxRows
    BY <1>1, ScreenAssumption
  <1>3. EmptyFrame \in Frames
    BY <1>1, <1>2, FrameIs
  <1> QED
    BY <1>1, <1>3

LEMMA EmitOne ==
    ASSUME NEW f \in Frames, NEW x \in Lines
    PROVE  /\ Len(f) <= Len(Emit(f, 1, x))
           /\ f[Len(f)] = Blank => Emit(f, 1, x)[Len(f)] = x
  <1> DEFINE g == CHOOSE h : Frame(f, x, h, 1)
  <1>1. Frame(f, x, g, 1)
    BY FramesExist
  <1>2. Emit(f, 1, x) = g[1]
    BY DEF Emit, Frame
  <1> HIDE DEF g
  <1>3. g[0] = f /\ g[1] = Newline(Text(g[0], x))
    BY <1>1 DEF Frame
  <1>4. Text(f, x) \in Frames /\ Len(Text(f, x)) = Len(f) /\ (f[Len(f)] = Blank => Text(f, x)[Len(f)] = x)
    BY TextFacts
  <1>5. Len(f) \in 1..MaxRows /\ MaxRows \in Nat /\ Len(f) \in 1..Len(f)
    BY FrameFacts, ScreenAssumption
  <1>6. /\ Len(Newline(Text(f, x))) = Smaller(Len(f) + 1, MaxRows)
        /\ Newline(Text(f, x))[Len(f)] = Text(f, x)[Len(f)]
    BY <1>4, <1>5, NewlineFacts
  <1> QED
    BY <1>2, <1>3, <1>4, <1>5, <1>6 DEF Smaller

\* A body of b lines leaves room for the three gaps and the tagline.
Room(f) == n(f) + 3 * LogoGap <= Rows - 1

\* The logo between its gaps leaves the body alone and, where there is room,
\* ends on the last row of the screen, which is empty.
LEMMA LogoFacts ==
    ASSUME NEW f \in Frames
    PROVE  LET e == logo_gap(logo(logo_gap(f))) IN
           /\ Continues(f, e)
           /\ f[Len(f)] = Blank /\ Room(f) /\ Rows <= MaxRows
                => Len(e) = Rows /\ e[Rows] = Blank
  <1> DEFINE f1    == logo_gap(f)
             avail == Rows - 1 - n(f1) - LogoGap
             split == IF avail > LogoGap THEN avail - LogoGap ELSE 0
             top   == split \div 2
             f2    == Emit(f1, top, Logo)
             f3    == logo_gap(f2)
             f4    == Emit(f3, split - top, Logo)
             f5    == logo_gap(f4)
  <1>1. logo_gap(logo(f1)) = f5
    BY DEF logo
  <1>2. LogoGap = 2 /\ LogoGap \in Nat /\ Blank \in Lines /\ Logo \in Lines
    BY LinesAre DEF LogoGap
  <1>3. Rows \in Nat /\ MaxRows \in Nat /\ Len(f) \in 1..MaxRows
    BY FrameFacts, ScreenAssumption
  <1>4. Continues(f, f1) /\ (f[Len(f)] = Blank /\ Len(f) + 2 <= MaxRows
                                => Len(f1) = Len(f) + 2 /\ f1[Len(f) + 2] = Blank)
    BY <1>2, EmitContinues DEF logo_gap
  <1>5. f1 \in Frames /\ Len(f1) \in Nat
    BY <1>3, <1>4, FrameFacts DEF Continues
  <1>6. avail \in Int
    BY <1>2, <1>3, <1>5 DEF n
  <1> HIDE DEF f1, avail
  <1>7. split \in Nat
    BY <1>2, <1>6
  <1> HIDE DEF split
  <1>8. top \in Nat /\ split - top \in Nat
    BY <1>7, Z3
  <1> HIDE DEF top
  <1>9. Continues(f1, f2) /\ (f1[Len(f1)] = Blank /\ Len(f1) + top <= MaxRows
                                => Len(f2) = Len(f1) + top /\ f2[Len(f1) + top] = Blank)
    BY <1>2, <1>5, <1>8, EmitContinues
  <1>10. f2 \in Frames /\ Len(f2) \in Nat
    BY <1>3, <1>9, FrameFacts DEF Continues
  <1> HIDE DEF f2
  <1>11. Continues(f2, f3) /\ (f2[Len(f2)] = Blank /\ Len(f2) + 2 <= MaxRows
                                => Len(f3) = Len(f2) + 2 /\ f3[Len(f2) + 2] = Blank)
    BY <1>2, <1>10, EmitContinues DEF logo_gap
  <1>12. f3 \in Frames /\ Len(f3) \in Nat
    BY <1>3, <1>11, FrameFacts DEF Continues
  <1> HIDE DEF f3
  <1>13. Continues(f3, f4) /\ (f3[Len(f3)] = Blank /\ Len(f3) + (split - top) <= MaxRows
                                => Len(f4) = Len(f3) + (split - top) /\ f4[Len(f3) + (split - top)] = Blank)
    BY <1>2, <1>8, <1>12, EmitContinues
  <1>14. f4 \in Frames /\ Len(f4) \in Nat
    BY <1>3, <1>13, FrameFacts DEF Continues
  <1> HIDE DEF f4
  <1>15. Continues(f4, f5) /\ (f4[Len(f4)] = Blank /\ Len(f4) + 2 <= MaxRows
                                => Len(f5) = Len(f4) + 2 /\ f5[Len(f4) + 2] = Blank)
    BY <1>2, <1>14, EmitContinues DEF logo_gap
  <1> HIDE DEF f5
  <1>16. Continues(f, f5)
    BY <1>4, <1>5, <1>9, <1>10, <1>11, <1>12, <1>13, <1>14, <1>15, ContinuesTransitive
  <1>17. ASSUME f[Len(f)] = Blank, Room(f), Rows <= MaxRows PROVE Len(f5) = Rows /\ f5[Rows] = Blank
    <2>1. Len(f) + 6 <= Rows
      BY <1>2, <1>3, <1>17 DEF Room, n
    <2>2. Len(f1) = Len(f) + 2 /\ f1[Len(f1)] = Blank
      BY <1>3, <1>4, <1>17, <2>1
    <2>3. avail = Rows - Len(f1) - 2 /\ avail >= 2
      BY <1>2, <1>3, <2>1, <2>2 DEF avail, n
    <2>4. split = avail - 2
      BY <1>2, <1>6, <2>3 DEF split
    <2>5. Len(f1) + split + 4 = Rows
      BY <1>3, <1>5, <2>3, <2>4
    <2>6. Len(f2) = Len(f1) + top /\ f2[Len(f2)] = Blank
      BY <1>3, <1>5, <1>7, <1>8, <1>9, <1>17, <2>2, <2>5
    <2>7. Len(f3) = Len(f1) + top + 2 /\ f3[Len(f3)] = Blank
      BY <1>3, <1>5, <1>7, <1>8, <1>11, <1>17, <2>5, <2>6
    <2>8. Len(f4) = Len(f1) + split + 2 /\ f4[Len(f4)] = Blank
      BY <1>3, <1>5, <1>7, <1>8, <1>13, <1>17, <2>5, <2>7
    <2> QED
      BY <1>3, <1>5, <1>7, <1>15, <1>17, <2>5, <2>8
  <1> QED
    BY <1>1, <1>16, <1>17 DEF f1

-----------------------------------------------------------------------------
(***************************************************************************)
(* The dashboard.                                                          *)
(***************************************************************************)

\* The frame f begins with the body of the last sample.
HoldsBody(f) ==
    /\ Len(body_cache) <= Len(f)
    /\ \A j \in 1..(Len(body_cache) - 1) : f[j] = Body(sample)

\* The frame f has the tagline on the last row.
HoldsTag(f) == Rows <= Len(f) /\ f[Rows] = Tag

DashboardTypeOK ==
    /\ force \in BOOLEAN
    /\ cur \in Frames /\ body_cache \in Frames
    /\ sample \in 0..MaxSample

\* From the sample on, what is built and what was rendered last begin with the
\* body; where there is room the logo ends on the last row, which the tagline
\* then takes.
DashboardInv ==
    /\ HoldsBody(body_cache)
    /\ Room(body_cache) /\ Rows <= MaxRows => body_cache[Len(body_cache)] = Blank
    /\ pc = "logo" => cur = body_cache
    /\ pc = "tagline" =>
         /\ HoldsBody(cur)
         /\ Room(body_cache) /\ Rows <= MaxRows => Len(cur) = Rows /\ cur[Rows] = Blank
    /\ pc = "render" /\ view = "dash" => HoldsBody(cur) /\ (Room(body_cache) => HoldsTag(cur))
    /\ pc = "idle" /\ view = "dash" => HoldsBody(prev) /\ (Room(body_cache) => HoldsTag(prev))
    /\ pc \in {"sample", "logo", "tagline"} => view = "dash"

LEMMA DashboardInitInv == Init => DashboardTypeOK /\ DashboardInv
  <1> SUFFICES ASSUME Init PROVE DashboardTypeOK /\ DashboardInv
    OBVIOUS
  <1>1. DashboardTypeOK
    BY EmptyFrameFacts, LinesAssumption DEF Init, DashboardTypeOK
  <1>2. body_cache = EmptyFrame /\ pc = "sample" /\ view = "dash"
    BY DEF Init
  <1>3. HoldsBody(body_cache) /\ body_cache[Len(body_cache)] = Blank
    BY <1>2, EmptyFrameFacts DEF HoldsBody
  <1> QED
    BY <1>1, <1>2, <1>3 DEF DashboardInv

LEMMA SampleStep ==
    ASSUME DashboardTypeOK, DashboardInv, NEW h \in 0..MaxBody, Sample(h)
    PROVE  DashboardTypeOK' /\ DashboardInv'
  <1>1. /\ pc = "sample" /\ pc' = "logo" /\ sample < MaxSample /\ sample' = sample + 1
        /\ cur' = Emit(EmptyFrame, h, Body(sample')) /\ body_cache' = cur' /\ UNCHANGED <<view, force>>
    BY DEF Sample, build_dashboard_body
  <1>2. sample' \in 1..MaxSample /\ h \in Nat /\ Body(sample') \in Lines
    <2>1. sample' \in 1..MaxSample
      BY <1>1, LinesAssumption DEF DashboardTypeOK
    <2> QED
      BY <2>1, LinesAre, LinesAssumption
  <1>3. Extended(EmptyFrame, Body(sample'), cur', h)
    BY <1>1, <1>2, EmptyFrameFacts, EmitFacts
  <1>4. /\ cur' \in Frames /\ Len(cur') = Smaller(1 + h, MaxRows)
        /\ \A j \in 1..(Len(cur') - 1) : cur'[j] = Body(sample')
        /\ 1 + h <= MaxRows => cur'[1 + h] = Blank
    BY <1>3, EmptyFrameFacts DEF Extended
  <1>5. DashboardTypeOK'
    BY <1>1, <1>2, <1>4 DEF DashboardTypeOK
  <1>6. Len(cur') \in 1..MaxRows /\ MaxRows \in Nat /\ Rows \in Nat
    BY <1>4, FrameFacts, ScreenAssumption
  <1>7. HoldsBody(body_cache)'
    BY <1>1, <1>4, <1>6 DEF HoldsBody
  <1>8. ASSUME Room(body_cache)', Rows <= MaxRows PROVE body_cache'[Len(body_cache')] = Blank
    <2>1. Len(cur') < MaxRows
      BY <1>1, <1>6, <1>8 DEF Room, n, LogoGap
    <2>2. Len(cur') = 1 + h /\ 1 + h <= MaxRows
      BY <1>2, <1>4, <1>6, <2>1 DEF Smaller
    <2> QED
      BY <1>1, <1>4, <2>2
  <1>9. view' = "dash"
    BY <1>1 DEF DashboardInv
  <1> QED
    BY <1>1, <1>5, <1>7, <1>8, <1>9 DEF DashboardInv

LEMMA LogoStep ==
    ASSUME DashboardTypeOK, DashboardInv, AddLogo
    PROVE  DashboardTypeOK' /\ DashboardInv'
  <1>1. /\ pc = "logo" /\ pc' = "tagline" /\ cur' = logo_gap(logo(logo_gap(cur)))
        /\ UNCHANGED <<view, force, body_cache, sample>>
    BY DEF AddLogo
  <1>2. cur = body_cache /\ cur \in Frames /\ view = "dash"
    BY <1>1 DEF DashboardInv, DashboardTypeOK
  <1>3. /\ Continues(cur, cur')
        /\ cur[Len(cur)] = Blank /\ Room(cur) /\ Rows <= MaxRows => Len(cur') = Rows /\ cur'[Rows] = Blank
    BY <1>1, <1>2, LogoFacts
  <1>4. DashboardTypeOK'
    BY <1>1, <1>3 DEF DashboardTypeOK, Continues
  <1>5. HoldsBody(body_cache)' /\ HoldsBody(cur)'
    BY <1>1, <1>2, <1>3 DEF DashboardInv, HoldsBody, Continues
  <1>6. Room(body_cache)' <=> Room(body_cache)
    BY <1>1 DEF Room, n
  <1> QED
    BY <1>1, <1>2, <1>3, <1>4, <1>5, <1>6 DEF DashboardInv

LEMMA TaglineStep ==
    ASSUME DashboardTypeOK, DashboardInv, tagline
    PROVE  DashboardTypeOK' /\ DashboardInv'
  <1>1. /\ pc = "tagline" /\ UNCHANGED <<view, force, body_cache, sample>>
        /\ IF n(cur) < Rows - 1
           THEN cur' = Newline(cur) /\ pc' = pc
           ELSE cur' = Emit(cur, 1, Tag) /\ pc' = "render"
    BY DEF tagline
  <1>2. cur \in Frames /\ view = "dash" /\ HoldsBody(cur)
    BY <1>1 DEF DashboardInv, DashboardTypeOK
  <1>3. Len(cur) \in 1..MaxRows /\ MaxRows \in Nat /\ Rows \in Nat /\ n(cur) = Len(cur) - 1
    BY <1>2, FrameFacts, ScreenAssumption DEF n
  <1>4. Continues(cur, cur')
    <2>1. CASE n(cur) < Rows - 1
      <3>1. cur' = Newline(cur)
        BY <1>1, <2>1
      <3>2. /\ cur' \in Frames /\ Len(cur') = Smaller(Len(cur) + 1, MaxRows)
            /\ \A j \in 1..Len(cur) : cur'[j] = cur[j]
        BY <1>2, <3>1, NewlineFacts
      <3> QED
        BY <1>3, <3>2 DEF Continues, Smaller
    <2>2. CASE ~ (n(cur) < Rows - 1)
      <3>1. cur' = Emit(cur, 1, Tag) /\ Tag \in Lines
        BY <1>1, <2>2, LinesAre
      <3> QED
        BY <1>2, <3>1, EmitContinues
    <2> QED
      BY <2>1, <2>2
  <1>5. DashboardTypeOK'
    BY <1>1, <1>4 DEF DashboardTypeOK, Continues
  <1>6. HoldsBody(body_cache)' /\ HoldsBody(cur)'
    <2>1. Len(body_cache) \in Nat /\ Len(cur') \in Nat
      BY <1>5, FrameFacts, ScreenAssumption DEF DashboardTypeOK
    <2> QED
      BY <1>1, <1>2, <1>3, <1>4, <2>1 DEF DashboardInv, HoldsBody, Continues
  <1>7. (Room(body_cache)' <=> Room(body_cache)) /\ body_cache' = body_cache
    BY <1>1 DEF Room, n
  <1>8. CASE n(cur) < Rows - 1
    <2>1. ~ (Room(body_cache) /\ Rows <= MaxRows)
      BY <1>1, <1>3, <1>8 DEF DashboardInv
    <2>2. pc' = "tagline" /\ view' = "dash"
      BY <1>1, <1>2, <1>8
    <2> QED
      BY <1>5, <1>6, <1>7, <2>1, <2>2 DEF DashboardInv
  <1>9. CASE ~ (n(cur) < Rows - 1)
    <2>1. cur' = Emit(cur, 1, Tag) /\ pc' = "render" /\ Tag \in Lines
      BY <1>1, <1>9, LinesAre
    <2>2. Room(body_cache) => Len(cur) = Rows /\ cur[Len(cur)] = Blank
      BY <1>1, <1>3, <1>9 DEF DashboardInv
    <2>3. Room(body_cache) => HoldsTag(cur)'
      BY <1>2, <2>1, <2>2, EmitOne DEF HoldsTag
    <2> QED
      BY <1>1, <1>2, <1>5, <1>6, <1>7, <2>1, <2>3 DEF DashboardInv
  <1> QED
    BY <1>8, <1>9

LEMMA OtherFacts ==
    ASSUME NEW h \in 0..MaxBody
    PROVE  Emit(EmptyFrame, h, Other) \in Frames
  <1>1. h \in Nat /\ Other \in Lines /\ EmptyFrame \in Frames
    BY LinesAre, LinesAssumption, EmptyFrameFacts
  <1> QED
    BY <1>1, EmitContinues DEF Continues

LEMMA DashboardStep ==
    DashboardTypeOK /\ DashboardInv /\ [Next]_vars => DashboardTypeOK' /\ DashboardInv'
  <1> SUFFICES ASSUME DashboardTypeOK, DashboardInv, [Next]_vars
               PROVE  DashboardTypeOK' /\ DashboardInv'
    OBVIOUS
  <1>1. CASE Step /\ ~ Render
    BY <1>1, SampleStep, LogoStep, TaglineStep DEF Step
  <1>2. CASE Render
    <2>1. /\ pc = "render" /\ pc' = "idle" /\ cur' = EmptyFrame /\ prev' = cur
          /\ UNCHANGED <<view, force, body_cache, sample>>
      BY <1>2 DEF Render, render
    <2>2. DashboardTypeOK'
      BY <2>1, EmptyFrameFacts DEF DashboardTypeOK
    <2>3. HoldsBody(body_cache)' /\ (Room(body_cache)' <=> Room(body_cache)) /\ body_cache' = body_cache
      BY <2>1 DEF DashboardInv, HoldsBody, Room, n
    <2>4. ASSUME view' = "dash" PROVE HoldsBody(prev)' /\ (Room(body_cache)' => HoldsTag(prev)')
      BY <2>1, <2>3, <2>4 DEF DashboardInv, HoldsBody, HoldsTag
    <2> QED
      BY <2>1, <2>2, <2>3, <2>4 DEF DashboardInv
  <1>3. CASE StatsTick \/ ShowDashboard
    <2>1. /\ pc' = "sample" /\ view' = "dash" /\ force' \in BOOLEAN
          /\ UNCHANGED <<cur, body_cache, sample>>
      BY <1>3 DEF StatsTick, ShowDashboard
    <2> QED
      BY <2>1 DEF DashboardTypeOK, DashboardInv, HoldsBody, Room, n
  <1>4. CASE LogoTick
    <2>1. /\ pc' = "logo" /\ view' = "dash" /\ force' = FALSE /\ cur' = body_cache
          /\ UNCHANGED <<body_cache, sample>>
      BY <1>4 DEF LogoTick
    <2> QED
      BY <2>1 DEF DashboardTypeOK, DashboardInv, HoldsBody, Room, n
  <1>5. CASE \E h \in 0..MaxBody : ShowOther(h)
    <2>1. PICK h \in 0..MaxBody : ShowOther(h)
      BY <1>5
    <2>2. /\ pc' = "render" /\ view' = "other" /\ force' = TRUE /\ cur' \in Frames
          /\ UNCHANGED <<body_cache, sample>>
      BY <2>1, OtherFacts DEF ShowOther
    <2> QED
      BY <2>2 DEF DashboardTypeOK, DashboardInv, HoldsBody, Room, n
  <1>6. CASE Intrude \/ UNCHANGED vars
    <2>1. UNCHANGED <<view, pc, force, cur, body_cache, sample, prev>>
      BY <1>6 DEF Intrude, Scribble, vars, screen
    <2> QED
      BY <2>1 DEF DashboardTypeOK, DashboardInv, HoldsBody, HoldsTag, Room, n
  <1> QED
    BY <1>1, <1>2, <1>3, <1>4, <1>5, <1>6 DEF Next

LEMMA DashboardInvariance == Spec => [](DashboardTypeOK /\ DashboardInv)
  BY DashboardInitInv, DashboardStep, PTL DEF Spec

\* The dashboard implements the abstract screen: whatever builds the frames,
\* render() only ever gets a frame with room in its buffer, and nothing but
\* render() and foreign output touches the terminal.
THEOREM ImplementsScreen == Spec => ScreenSpec
  <1>1. Init => ScreenInit
    BY LinesAre DEF Init, ScreenInit, EmptyFrame
  <1>2. DashboardTypeOK /\ [Next]_vars => [ScreenNext]_screen
    <2> SUFFICES ASSUME DashboardTypeOK, [Next]_vars PROVE [ScreenNext]_screen
      OBVIOUS
    <2>1. CASE Render
      BY <2>1 DEF Render, DashboardTypeOK, ScreenNext
    <2>2. CASE Intrude
      BY <2>2, LinesAre DEF Intrude, ScreenNext
    <2>3. CASE ~ Render /\ ~ Intrude
      <3>1. UNCHANGED screen
        BY <2>3 DEF Next, Step, Sample, AddLogo, tagline, StatsTick, LogoTick, ShowDashboard,
                    ShowOther, vars
      <3> QED
        BY <3>1
    <2> QED
      BY <2>1, <2>2, <2>3
  <1> QED
    BY <1>1, <1>2, DashboardInvariance, PTL DEF Spec, ScreenSpec

\* While only the panel writes to the terminal it shows the last frame, row by
\* row, whichever of the dashboard, the menu and the pager that is (render).
THEOREM DashboardInSync == Spec => []InSync
  BY ImplementsScreen, Invariance, PTL

\* The stats on the terminal are those of the last sample, for every height of
\* body and screen and any number of logo ticks and other views in between
\* (build_dashboard_body, repaint_logo_only, the bounds of out).
THEOREM BodyIsShown == Spec => []BodyShown
  <1>1. DashboardTypeOK /\ DashboardInv /\ ScreenTypeOK /\ InSync => BodyShown
    <2> SUFFICES ASSUME DashboardTypeOK, DashboardInv, ScreenTypeOK, InSync, DashboardShown,
                        NEW r \in 1..Smaller(n(body_cache), Rows)
                 PROVE  phys[r] = Body(sample)
      BY DEF BodyShown
    <2>1. Len(body_cache) \in Nat /\ Len(prev) \in Nat /\ Rows \in Nat
      BY FrameFacts, ScreenAssumption DEF DashboardTypeOK, ScreenTypeOK
    <2>2. r \in 1..Rows /\ r \in 1..(Len(body_cache) - 1)
      BY <2>1 DEF Smaller, n
    <2>3. prev[r] = Body(sample) /\ r <= Len(prev)
      BY <2>1, <2>2 DEF DashboardShown, DashboardInv, HoldsBody
    <2> QED
      BY <2>2, <2>3 DEF DashboardShown, InSync, Line
  <1> QED
    BY <1>1, DashboardInvariance, ImplementsScreen, Invariance, PTL

\* A body that leaves room for the gaps has the tagline on the very last row,
\* for every height of body and screen (logo, logo_gap, tagline).
THEOREM TaglineIsLast == Spec => []TaglineFits
  <1>1. DashboardTypeOK /\ DashboardInv /\ ScreenTypeOK /\ InSync => TaglineFits
    <2> SUFFICES ASSUME DashboardTypeOK, DashboardInv, ScreenTypeOK, InSync, DashboardShown,
                        n(body_cache) + 3 * LogoGap <= Rows - 1
                 PROVE  phys[Rows] = Tag
      BY DEF TaglineFits
    <2>1. Rows <= Len(prev) /\ prev[Rows] = Tag
      BY DEF DashboardShown, DashboardInv, Room, HoldsTag
    <2>2. Rows \in 1..Rows
      BY ScreenAssumption
    <2> QED
      BY <2>1, <2>2 DEF DashboardShown, InSync, Line
  <1> QED
    BY <1>1, DashboardInvariance, ImplementsScreen, Invariance, PTL
=============================================================================

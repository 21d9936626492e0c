------------------------------- MODULE Screen -------------------------------
(***************************************************************************)
(* render() of panel.c: a frame is shown by writing only the rows that     *)
(* differ from the previous frame, on a terminal that clamps row addresses *)
(* past its last row and that other programs write to as well.             *)
(*                                                                         *)
(* A frame is the sequence of its lines; cur->n is Len(frame) - 1.  Here   *)
(* the frames come in any order; Dashboard extends this module with what   *)
(* builds them, and its runs check the properties below on those frames.   *)
(***************************************************************************)
EXTENDS Integers, Sequences

CONSTANTS
    Lines,      \* what a row can show
    Blank,      \* an empty row
    Rows,       \* screen_rows, measured once
    MaxRows     \* MAX_ROWS, the lines a frame has room for

ASSUME ScreenAssumption ==
    /\ Blank \in Lines
    /\ Rows \in Nat \ {0}
    /\ MaxRows \in Nat \ {0}

Frames == UNION {[1..n -> Lines] : n \in 1..MaxRows}

VARIABLES
    phys,       \* phys[r]: what row r of the terminal shows
    prev,       \* the frame rendered last
    intact      \* only the panel has written since its last forced repaint

screen == <<phys, prev, intact>>

\* prev is an empty frame; the terminal holds whatever was there before.
ScreenInit ==
    /\ phys \in [1..Rows -> Lines]
    /\ prev = <<Blank>>
    /\ intact = FALSE

Line(f, i) == IF i <= Len(f) THEN f[i] ELSE Blank

Smaller(a, b) == IF a < b THEN a ELSE b
Larger(a, b)  == IF a < b THEN b ELSE a

\* The rows render() writes, in increasing order: those that differ, or all.
Drawn_unclamped(f, force) ==
    {i \in 1..Smaller(Larger(Len(f), Len(prev)), MaxRows) :
        force \/ Line(f, i) # Line(prev, i)}
Drawn(f, force) ==
    {i \in 1..Smaller(Smaller(Larger(Len(f), Len(prev)), Rows), MaxRows) :
        force \/ Line(f, i) # Line(prev, i)}

\* Whether everything below the frame is erased.
Erases_unguarded(f, force) == force \/ Len(f) < Len(prev)
Erases(f, force) == (force \/ Len(f) < Len(prev)) /\ Len(f) + 1 <= Rows

\* The terminal: a row address past the last row means the last row, and a
\* later write to a row replaces an earlier one.
Row(i) == Smaller(i, Rows)
LastOn(drawn, r) ==
    CHOOSE i \in drawn : Row(i) = r /\ \A j \in drawn : Row(j) = r => j <= i
Written(drawn, f, r) ==
    IF \E i \in drawn : Row(i) = r THEN Line(f, LastOn(drawn, r)) ELSE phys[r]

\* render(force) of the frame f.
render(f, force) ==
    /\ phys' = [r \in 1..Rows |->
                   IF Erases(f, force) /\ r >= Row(Len(f) + 1)
                   THEN Blank ELSE Written(Drawn(f, force), f, r)]
    /\ prev' = f
    /\ intact' = (intact \/ force)

\* Something else writes to the terminal: printk, a failed session, wall.
Scribble(r, x) ==
    /\ phys' = [phys EXCEPT ![r] = x]
    /\ intact' = FALSE
    /\ UNCHANGED prev

ScreenNext ==
    \/ \E f \in Frames, force \in BOOLEAN : render(f, force)
    \/ \E r \in 1..Rows, x \in Lines : Scribble(r, x)

ScreenSpec == ScreenInit /\ [][ScreenNext]_screen

-----------------------------------------------------------------------------
ScreenTypeOK ==
    /\ phys \in [1..Rows -> Lines]
    /\ prev \in Frames
    /\ intact \in BOOLEAN

\* From the first forced repaint on, as long as nothing else writes, every row
\* of the terminal shows the last frame: nothing of an older frame, of the
\* boot messages or of a longer frame is left, and no row that belongs to the
\* frame was erased, also when frames outgrow the screen.
InSync == intact => \A r \in 1..Rows : phys[r] = Line(prev, r)

\* An unforced repaint repairs what it redraws and damages nothing: a row that
\* showed its line of the old frame shows its line of the new one.
RowsStayRight ==
    [][\A r \in 1..Rows :
        prev' # prev /\ phys[r] = Line(prev, r) => phys'[r] = Line(prev', r)]_screen
=============================================================================

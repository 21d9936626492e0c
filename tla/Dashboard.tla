----------------------------- MODULE Dashboard ------------------------------
(***************************************************************************)
(* How panel.c builds a dashboard frame and puts it on the terminal: the   *)
(* body sampled on the stats interval, the logo that fills the room left,  *)
(* the tagline padded to the last row; the faster logo tick that replays   *)
(* the cached body; and the menu and the pager taking the screen in        *)
(* between.  A line is what kind of text it holds and, in the body, the    *)
(* sample it comes from.                                                   *)
(***************************************************************************)
EXTENDS Screen

CONSTANTS
    MaxBody,    \* bound on the lines of the body
    MaxSample   \* bound on the number of samples

LogoGap == 2    \* LOGO_GAP

NoText  == [kind |-> "blank", sample |-> 0]
Logo    == [kind |-> "logo", sample |-> 0]
Tag     == [kind |-> "tagline", sample |-> 0]
Other   == [kind |-> "other", sample |-> 0]
Mixed   == [kind |-> "mixed", sample |-> 0]
Body(s) == [kind |-> "body", sample |-> s]
Texts   == {NoText, Logo, Tag, Other, Mixed} \cup {Body(s) : s \in 1..MaxSample}

\* The lines of Screen are these.
ASSUME LinesAssumption ==
    /\ Lines = Texts /\ Blank = NoText
    /\ MaxBody \in Nat /\ MaxSample \in Nat

VARIABLES
    view,         \* "dash", or "other" for the menu and the pager
    pc,           \* the step of repaint the loop is at; "idle" outside it
    force,        \* the argument of repaint
    cur,          \* the frame being built
    body_cache,   \* the body of the last sample
    sample        \* samples taken so far

vars == <<view, pc, force, cur, body_cache, sample, screen>>

-----------------------------------------------------------------------------
(***************************************************************************)
(* out(): text goes to the end of the last line; a newline starts another  *)
(* one, except on the last line there is room for.                         *)
(***************************************************************************)

Text(f, x) ==
    IF x = Blank THEN f
    ELSE [f EXCEPT ![Len(f)] = IF @ = Blank THEN x ELSE Mixed]

Newline(f) == IF Len(f) < MaxRows THEN Append(f, Blank) ELSE f

\* k lines x, each followed by a newline.
Emit(f, k, x) ==
    LET frame[i \in 0..k] == IF i = 0 THEN f ELSE Newline(Text(frame[i - 1], x))
    IN  frame[k]

EmptyFrame == <<Blank>>    \* screen_reset
n(f) == Len(f) - 1         \* cur->n

logo_gap(f) == Emit(f, LogoGap, Blank)

\* The rows that are left above the tagline and its gap, split by a gap.
logo_avail_off(f) ==
    LET avail == Rows - n(f) - LogoGap
        split == IF avail > LogoGap THEN avail - LogoGap ELSE 0
        top   == split \div 2
    IN Emit(logo_gap(Emit(f, top, Logo)), split - top, Logo)
logo(f) ==
    LET avail == Rows - 1 - n(f) - LogoGap
        split == IF avail > LogoGap THEN avail - LogoGap ELSE 0
        top   == split \div 2
    IN Emit(logo_gap(Emit(f, top, Logo)), split - top, Logo)

-----------------------------------------------------------------------------
Init ==
    /\ view = "dash" /\ pc = "sample" /\ force = TRUE   \* main's repaint(1)
    /\ cur = EmptyFrame /\ body_cache = EmptyFrame /\ sample = 0
    /\ phys = [r \in 1..Rows |-> Other] /\ prev = EmptyFrame /\ intact = FALSE

\* The body: h lines, all of the sample s (which lines, is not modelled).
build_dashboard_body(h, s) == Emit(EmptyFrame, h, Body(s))

\* build_dashboard up to the logo: a fresh sample of h lines, cached.
Sample_uncached(h) ==
    /\ pc = "sample" /\ pc' = "logo"
    /\ sample < MaxSample /\ sample' = sample + 1
    /\ cur' = build_dashboard_body(h, sample')
    /\ body_cache' = IF sample = 0 THEN cur' ELSE body_cache
    /\ UNCHANGED <<view, force, screen>>
Sample(h) ==
    /\ pc = "sample" /\ pc' = "logo"
    /\ sample < MaxSample /\ sample' = sample + 1
    /\ cur' = build_dashboard_body(h, sample')
    /\ body_cache' = cur'
    /\ UNCHANGED <<view, force, screen>>

\* The logo between its gaps.
AddLogo ==
    /\ pc = "logo" /\ pc' = "tagline"
    /\ cur' = logo_gap(logo(logo_gap(cur)))
    /\ UNCHANGED <<view, force, body_cache, sample, screen>>

\* tagline(): one turn of its padding loop, or the line itself.
tagline_past ==
    /\ pc = "tagline"
    /\ IF n(cur) <= Rows
       THEN cur' = Newline(cur) /\ pc' = pc
       ELSE cur' = Emit(cur, 1, Tag) /\ pc' = "render"
    /\ UNCHANGED <<view, force, body_cache, sample, screen>>
tagline ==
    /\ pc = "tagline"
    /\ IF n(cur) < Rows - 1
       THEN cur' = Newline(cur) /\ pc' = pc
       ELSE cur' = Emit(cur, 1, Tag) /\ pc' = "render"
    /\ UNCHANGED <<view, force, body_cache, sample, screen>>

\* render, and back to the loop.
Render ==
    /\ pc = "render" /\ pc' = "idle"
    /\ render(cur, force)
    /\ cur' = EmptyFrame
    /\ UNCHANGED <<view, force, body_cache, sample>>

\* The stats interval on the dashboard: repaint(0).
StatsTick ==
    /\ pc = "idle" /\ view = "dash" /\ sample < MaxSample
    /\ pc' = "sample" /\ force' = FALSE
    /\ UNCHANGED <<view, cur, body_cache, sample, screen>>

\* repaint_logo_only.  main paints a dashboard before its loop, so the cache
\* is valid whenever this tick fires.
LogoTick ==
    /\ pc = "idle" /\ view = "dash"
    /\ pc' = "logo" /\ force' = FALSE /\ cur' = body_cache
    /\ UNCHANGED <<view, body_cache, sample, screen>>

\* A key opens, moves or pages another view of h lines: repaint(1).
ShowOther(h) ==
    /\ pc = "idle" /\ pc' = "render"
    /\ view' = "other" /\ force' = TRUE
    /\ cur' = Emit(EmptyFrame, h, Other)
    /\ UNCHANGED <<body_cache, sample, screen>>

\* A key on the dashboard, or one that returns to it: repaint(1).
ShowDashboard ==
    /\ pc = "idle" /\ sample < MaxSample
    /\ view' = "dash" /\ pc' = "sample" /\ force' = TRUE
    /\ UNCHANGED <<cur, body_cache, sample, screen>>

\* Something else writes a line to the terminal (one between two forced
\* repaints; Screen has any number of them).
Intrude ==
    /\ intact
    /\ \E r \in 1..Rows : Scribble(r, Other)
    /\ UNCHANGED <<view, pc, force, cur, body_cache, sample>>

Step == (\E h \in 0..MaxBody : Sample(h)) \/ AddLogo \/ tagline \/ Render

Next ==
    \/ Step \/ StatsTick \/ LogoTick \/ ShowDashboard \/ Intrude
    \/ \E h \in 0..MaxBody : ShowOther(h)

Spec == Init /\ [][Next]_vars

\* The process is scheduled while it builds a frame.
FairSpec == Spec /\ WF_vars(Step)

-----------------------------------------------------------------------------
\* The dashboard is on the terminal and nothing else has written to it.
DashboardShown == pc = "idle" /\ view = "dash" /\ intact

\* The stats on the terminal are those of the last sample, whatever number of
\* logo ticks, menus and taller or shorter samples came before.
BodyShown ==
    DashboardShown =>
        \A r \in 1..Smaller(n(body_cache), Rows) :
            phys[r] = Body(sample)

\* A body that leaves room for three gaps is followed by the tagline on the
\* very last row, for every height: neither one row short nor one too far.
TaglineFits ==
    DashboardShown /\ n(body_cache) + 3 * LogoGap <= Rows - 1
        => phys[Rows] = Tag

\* "Padded with blank lines to the measured screen height [...] so it lands on
\* the panel's last row": a frame that is begun is put on the terminal, also one
\* whose body alone fills or exceeds the frame, on a screen of at most MAX_ROWS
\* rows.  On a taller one it is not: the padding of tagline() waits for a line
\* that out() has no room for.
FrameShown == (pc # "idle" /\ Rows <= MaxRows) ~> pc = "idle"
=============================================================================

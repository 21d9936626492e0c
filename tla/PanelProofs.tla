----------------------------- MODULE PanelProofs ----------------------------
(***************************************************************************)
(* What the user of the panel relies on, for every screen, every length a  *)
(* log can have, every number of processes and every brightness: the frame *)
(* on the terminal is the one the keys act on (PanelViews), and the        *)
(* display goes on and off as asked (Backlight).                           *)
(***************************************************************************)
EXTENDS PanelViews, Backlight, TLAPS

-----------------------------------------------------------------------------
(***************************************************************************)
(* The views.                                                              *)
(***************************************************************************)

ViewsTypeOK ==
    /\ view \in {"dash", "menu", "pager"}
    /\ menu_sel \in 0..(MENU_N - 1)
    /\ pager_text.lines \in Nat
    /\ pager_top \in Int
    /\ pager_parent \in {"dash", "menu"}

ViewsInv == ViewsTypeOK /\ FrameCurrent /\ PagerInRange

\* The variables the invariant speaks of.
shownState == <<view, menu_sel, pager_text, pager_top, pager_parent, shown>>

LEMMA MenuLength == MENU_N = 9
  BY DEF MENU_N, menu_items

LEMMA PagerRows == pager_rows \in Nat
  BY ConstantsAssumption DEF pager_rows

\* pager_clamp puts any position in range.
LEMMA ClampInRange ==
    ASSUME NEW t \in Int, NEW l \in Int
    PROVE  /\ pager_clamp(t, l) \in Int /\ pager_clamp(t, l) >= 0
           /\ pager_clamp(t, l) = 0 \/ pager_clamp(t, l) <= l - pager_rows
  BY PagerRows DEF pager_clamp

\* A log that is read again starts in range.
LEMMA LoadInRange ==
    ASSUME NEW src, Load(src)
    PROVE  /\ pager_text'.lines \in Nat /\ pager_top' \in Int
           /\ PagerInRange'
  <1>1. PICK l \in LogSizes :
           /\ pager_text' = [src |-> src, lines |-> l, ver |-> 1 - pager_text.ver]
           /\ pager_top' = pager_clamp(l - pager_rows, l)
    BY DEF Load
  <1>2. l \in Nat /\ l - pager_rows \in Int
    BY PagerRows, ConstantsAssumption
  <1> QED
    BY <1>1, <1>2, ClampInRange DEF PagerInRange

LEMMA OpenInRange ==
    ASSUME NEW src, NEW parent \in {"dash", "menu"}, NEW live,
           ViewsTypeOK, pager_open(src, parent, live), menu_sel' = menu_sel
    PROVE  ViewsTypeOK' /\ PagerInRange'
  <1>1. Load(src)
    BY DEF pager_open
  <1>2. pager_text'.lines \in Nat /\ pager_top' \in Int /\ PagerInRange'
    BY <1>1, LoadInRange
  <1> QED
    BY <1>2 DEF pager_open, ViewsTypeOK

\* Every action keeps the types and the range, and ends in a repaint.
LEMMA ActionInv ==
    ASSUME ViewsInv, NEW a, handle_action(a)
    PROVE  ViewsInv'
  <1>1. FrameCurrent'
    BY DEF handle_action, repaint, FrameCurrent
  <1>2. ASSUME UNCHANGED <<pager_text, pager_top>> PROVE PagerInRange'
    BY <1>2 DEF ViewsInv, PagerInRange, pager_rows
  <1>3. CASE DashAction(a)
    BY <1>1, <1>2, <1>3, MenuLength DEF DashAction, pager, ViewsInv, ViewsTypeOK
  <1>4. CASE MenuMove(a)
    BY <1>1, <1>2, <1>4, MenuLength DEF MenuMove, pager, ViewsInv, ViewsTypeOK
  <1>5. CASE MenuSelect(a)
    <2> DEFINE item == menu_items[menu_sel + 1]
    <2>1. CASE item \in Sources
      <3>1. pager_open(item, "menu", FALSE) /\ menu_sel' = menu_sel
        BY <1>5, <2>1 DEF MenuSelect, menu_activate
      <3>2. ViewsTypeOK' /\ PagerInRange'
        BY <3>1, OpenInRange DEF ViewsInv
      <3> QED
        BY <1>1, <3>2 DEF ViewsInv
    <2>2. CASE item \notin Sources
      BY <1>1, <1>2, <1>5, <2>2 DEF MenuSelect, menu_activate, pager, ViewsInv, ViewsTypeOK
    <2> QED
      BY <2>1, <2>2
  <1>6. CASE MenuLeave(a)
    BY <1>1, <1>2, <1>6 DEF MenuLeave, pager, ViewsInv, ViewsTypeOK
  <1>7. CASE PagerScroll(a)
    <2>1. PICK t \in Int : pager_top' = pager_clamp(t, pager_text.lines)
      BY <1>7, PagerRows DEF PagerScroll, ViewsInv, ViewsTypeOK
    <2>2. pager_text.lines \in Int
      BY DEF ViewsInv, ViewsTypeOK
    <2> QED
      BY <1>1, <1>7, <2>1, <2>2, ClampInRange
      DEF PagerScroll, ViewsInv, ViewsTypeOK, PagerInRange, pager_rows
  <1>8. CASE PagerLeave(a)
    BY <1>1, <1>2, <1>8 DEF PagerLeave, ViewsInv, ViewsTypeOK
  <1> QED
    BY <1>3, <1>4, <1>5, <1>6, <1>7, <1>8 DEF handle_action

LEMMA ViewsStutter ==
    ASSUME ViewsInv, UNCHANGED shownState
    PROVE  ViewsInv'
  BY DEF shownState, ViewsInv, ViewsTypeOK, FrameCurrent, PagerInRange, pager_rows,
         Frame, MENU_N, menu_items

LEMMA CharInv ==
    ASSUME ViewsInv, NEW c, handle_char(c)
    PROVE  ViewsInv'
  <1>1. CASE Hotkey(c)
    <2>1. pager_open(Opens[c], "dash", c \in Live) /\ menu_sel' = menu_sel
      BY <1>1 DEF Hotkey
    <2>2. ViewsTypeOK' /\ PagerInRange'
      BY <2>1, OpenInRange DEF ViewsInv
    <2> QED
      BY <1>1, <2>2 DEF Hotkey, repaint, ViewsInv, FrameCurrent
  <1>2. CASE ToggleDisplay(c)
    BY <1>2 DEF ToggleDisplay, repaint, pager, ViewsInv, ViewsTypeOK, FrameCurrent,
                PagerInRange, pager_rows
  <1>3. CASE Unknown(c)
    BY <1>3, ViewsStutter DEF Unknown, pager, shownState
  <1>4. ASSUME NEW a, handle_action(a) PROVE ViewsInv'
    BY <1>4, ActionInv
  <1> QED
    BY <1>1, <1>2, <1>3, <1>4 DEF handle_char

LEMMA ViewsInit == Init => ViewsInv
  BY PagerRows, MenuLength DEF Init, ViewsInv, ViewsTypeOK, FrameCurrent, PagerInRange, Frame

LEMMA ViewsStep == ASSUME ViewsInv, [Next]_vars PROVE ViewsInv'
  <1>1. CASE Token
    BY <1>1, CharInv DEF Token
  <1>2. CASE Tick
    <2>1. ViewsTypeOK' /\ PagerInRange'
      <3>1. CASE view = "pager" /\ pager_reload # NoSource
        BY <1>2, <3>1, LoadInRange DEF Tick, ViewsInv, ViewsTypeOK
      <3>2. CASE ~(view = "pager" /\ pager_reload # NoSource)
        BY <1>2, <3>2 DEF Tick, pager, ViewsInv, ViewsTypeOK, PagerInRange, pager_rows
      <3> QED
        BY <3>1, <3>2
    <2>2. FrameCurrent'
      <3>1. CASE view = "menu"
        BY <1>2, <3>1 DEF Tick, pager, ViewsInv, FrameCurrent
      <3>2. CASE view # "menu"
        BY <1>2, <3>2 DEF Tick, repaint, FrameCurrent
      <3> QED
        BY <3>1, <3>2
    <2> QED
      BY <2>1, <2>2 DEF ViewsInv
  <1>3. CASE LitElsewhere
    BY <1>3, ViewsStutter DEF LitElsewhere, pager, shownState
  <1>4. CASE SequenceByte
    <2>1. CASE in_escape
      BY <1>4, <2>1, ViewsStutter DEF SequenceByte, pager, shownState
    <2>2. CASE ~in_escape
      BY <1>4, <2>2, CharInv DEF SequenceByte
    <2> QED
      BY <2>1, <2>2
  <1>5. ASSUME NEW c \in Chars, TypedKey(c) PROVE ViewsInv'
    <2>1. CASE in_escape
      BY <1>5, <2>1, ViewsStutter DEF TypedKey, pager, shownState
    <2>2. CASE ~in_escape
      BY <1>5, <2>2, CharInv DEF TypedKey
    <2> QED
      BY <2>1, <2>2
  <1>6. ASSUME NEW form \in EscapeForms, TypedEscape(form) PROVE ViewsInv'
    BY <1>6, ViewsStutter DEF TypedEscape, pager, shownState
  <1>7. CASE UNCHANGED vars
    BY <1>7, ViewsStutter DEF vars, pager, shownState
  <1> QED
    BY <1>1, <1>2, <1>3, <1>4, <1>5, <1>6, <1>7 DEF Next

\* What the keys act on is what the terminal shows, whatever order tokens,
\* typed keys, ticks and re-read logs come in (handle_action's repaint).
THEOREM FrameIsCurrent == Spec => []FrameCurrent
  <1>1. ViewsInv => FrameCurrent
    BY DEF ViewsInv
  <1> QED
    BY <1>1, ViewsInit, ViewsStep, PTL DEF Spec

\* The pager stays inside its log, for every length a log is read with and
\* every number of rows (pager_clamp).
THEOREM PagerStaysInRange == Spec => []PagerInRange
  <1>1. ViewsInv => PagerInRange
    BY DEF ViewsInv
  <1> QED
    BY <1>1, ViewsInit, ViewsStep, PTL DEF Spec

\* An action that asks for a reboot is a selection of its highlighted entry.
LEMMA ActionReboots ==
    ASSUME ViewsInv, NEW a, handle_action(a), rebooting', ~rebooting
    PROVE  shown.view = "menu" /\ menu_items[shown.sel + 1] = "reboot"
  <1>1. MenuSelect(a)
    BY DEF handle_action, DashAction, MenuMove, MenuLeave, PagerScroll, PagerLeave, world
  <1>2. view = "menu" /\ menu_items[menu_sel + 1] = "reboot"
    BY <1>1 DEF MenuSelect, menu_activate
  <1> QED
    BY <1>2 DEF ViewsInv, FrameCurrent, Frame

LEMMA CharReboots ==
    ASSUME ViewsInv, NEW c, handle_char(c), rebooting', ~rebooting
    PROVE  shown.view = "menu" /\ menu_items[shown.sel + 1] = "reboot"
  <1>1. PICK a : handle_action(a)
    BY DEF handle_char, Hotkey, ToggleDisplay, Unknown, world
  <1> QED
    BY <1>1, ActionReboots

\* No key, tick or byte requests a reboot but a selection of the reboot entry
\* by a user who sees it highlighted (menu_activate, request_reboot).
THEOREM RebootsAreDeliberate == Spec => RebootDeliberate
  <1>1. ViewsInv /\ [Next]_vars =>
          [rebooting' /\ ~rebooting
            => shown.view = "menu" /\ menu_items[shown.sel + 1] = "reboot"]_vars
    <2> SUFFICES ASSUME ViewsInv, Next, rebooting', ~rebooting
                 PROVE  shown.view = "menu" /\ menu_items[shown.sel + 1] = "reboot"
      OBVIOUS
    <2>1. PICK c : handle_char(c)
      BY DEF Next, Token, Tick, LitElsewhere, SequenceByte, TypedKey, TypedEscape, world
    <2> QED
      BY <2>1, CharReboots
  <1> QED
    BY <1>1, ViewsInit, ViewsStep, PTL DEF Spec, RebootDeliberate

\* The control sequences of ECMA-48: one final byte, and it comes last.
FinalBytes == {"A", "O", "~"}
IsCsi(form) == \A i \in 1..Len(form) : form[i] \in FinalBytes <=> i = Len(form)

\* While a sequence is being typed the filter is on, and the bytes to come end
\* it at the last of them and not before.
EscapeInv ==
    /\ typing \in Seq({"[", "O", "5", "A", "~"}) /\ IsCsi(typing)
    /\ typing # <<>> => in_escape

LEMMA EscapeInit == Init => EscapeInv
  BY DEF Init, EscapeInv, IsCsi

LEMMA EscapeStep ==
    ASSUME \A form \in EscapeForms : IsCsi(form), EscapeInv, [Next]_vars
    PROVE  EscapeInv'
  <1>1. CASE SequenceByte
    <2>1. typing \in Seq({"[", "O", "5", "A", "~"}) /\ typing # <<>> /\ typing' = Tail(typing)
      BY <1>1 DEF SequenceByte, EscapeInv
    <2>2. /\ typing' \in Seq({"[", "O", "5", "A", "~"}) /\ Len(typing') = Len(typing) - 1
          /\ \A i \in 1..Len(typing') : typing'[i] = typing[i + 1]
      BY <2>1
    <2>3. IsCsi(typing')
      <3>1. SUFFICES ASSUME NEW i \in 1..Len(typing')
                     PROVE  typing'[i] \in FinalBytes <=> i = Len(typing')
        BY DEF IsCsi
      <3>2. i + 1 \in 1..Len(typing) /\ typing'[i] = typing[i + 1]
        BY <2>1, <2>2
      <3>3. typing[i + 1] \in FinalBytes <=> i + 1 = Len(typing)
        BY <3>2 DEF EscapeInv, IsCsi
      <3>4. i \in Int /\ Len(typing) \in Int
        BY <2>1
      <3> QED
        BY <2>2, <3>2, <3>3, <3>4
    <2>4. ASSUME typing' # <<>> PROVE in_escape'
      <3>1. Len(typing) # 1 /\ Head(typing) = typing[1] /\ 1 \in 1..Len(typing)
        BY <2>1, <2>2, <2>4
      <3>2. Head(typing) \notin FinalBytes
        BY <3>1 DEF EscapeInv, IsCsi
      <3> QED
        BY <1>1, <2>1, <3>2 DEF SequenceByte, EscapeInv, FinalBytes
    <2> QED
      BY <2>2, <2>3, <2>4 DEF EscapeInv
  <1>2. ASSUME NEW form \in EscapeForms, TypedEscape(form) PROVE EscapeInv'
    <2>1. form \in Seq({"[", "O", "5", "A", "~"}) /\ IsCsi(form)
      BY ConstantsAssumption
    <2> QED
      BY <1>2, <2>1 DEF TypedEscape, EscapeInv, IsCsi
  <1>3. ASSUME NEW c \in Chars, TypedKey(c) PROVE EscapeInv'
    BY <1>3 DEF TypedKey, EscapeInv, IsCsi
  <1>4. CASE UNCHANGED stdin
    BY <1>4 DEF stdin, EscapeInv, IsCsi
  <1> QED
    BY <1>1, <1>2, <1>3, <1>4 DEF Next, Token, Tick, LitElsewhere, vars, stdin

\* On a terminal whose sequences are control sequences, no byte of one acts as
\* a key, and the filter is off again after the last one (stdin_readable).  The
\* hypothesis is needed: ESC O A is cut at the O.
THEOREM EscapesAreSilent ==
    ASSUME \A form \in EscapeForms : IsCsi(form)
    PROVE  Spec => EscapeSilent
  <1> DEFINE Silent ==
        /\ SequenceByte => UNCHANGED <<view, menu_sel, pager, world, quitting, shown>>
        /\ typing # <<>> /\ typing' = <<>> => ~in_escape'
  <1>1. EscapeInv /\ [Next]_vars => [Silent]_vars
    <2> SUFFICES ASSUME EscapeInv, Next PROVE Silent
      OBVIOUS
    <2>1. ASSUME SequenceByte
          PROVE  UNCHANGED <<view, menu_sel, pager, world, quitting, shown>>
      BY <2>1 DEF SequenceByte, EscapeInv
    <2>2. ASSUME typing # <<>>, typing' = <<>> PROVE ~in_escape'
      <3>1. SequenceByte
        BY <2>2 DEF Next, Token, Tick, LitElsewhere, stdin, TypedKey, TypedEscape
      <3>2. Len(typing) = 1 /\ Head(typing) = typing[1]
        <4>1. typing \in Seq({"[", "O", "5", "A", "~"}) /\ Tail(typing) = <<>>
          BY <2>2, <3>1 DEF SequenceByte, EscapeInv
        <4>2. Len(Tail(typing)) = Len(typing) - 1 /\ Len(typing) \in Nat
          BY <2>2, <4>1
        <4>3. Len(Tail(typing)) = Len(<<>>)
          BY <4>1, Zenon
        <4>4. Len(<<>>) = 0
          OBVIOUS
        <4>5. Len(typing) = 1
          BY <4>2, <4>3, <4>4
        <4> QED
          BY <4>1, <4>5
      <3>3. Head(typing) \in FinalBytes
        BY <3>2 DEF EscapeInv, IsCsi
      <3>4. in_escape' = (Head(typing) \notin FinalBytes)
        BY <2>2, <3>1, Zenon DEF SequenceByte, EscapeInv, FinalBytes
      <3> QED
        BY <3>3, <3>4
    <2> QED
      BY <2>1, <2>2
  <1>2. EscapeInv /\ [Next]_vars => EscapeInv'
    BY EscapeStep
  <1> QED
    BY <1>1, <1>2, EscapeInit, PTL DEF Spec, EscapeSilent

-----------------------------------------------------------------------------
(***************************************************************************)
(* The backlight.                                                          *)
(***************************************************************************)

Accesses == {"idle", "decide", "read level", "truncate", "save", "go dark",
             "read saved", "light", "unlink", "done"}

BacklightTypeOK ==
    /\ level \in Nat /\ saved \in Nat \cup {NoFile}
    /\ pc \in [Procs -> Accesses] /\ op \in [Procs -> Ops]
    /\ reg \in [Procs -> Nat]
    /\ lit0 \in [Procs -> BOOLEAN] /\ alone \in [Procs -> BOOLEAN]

\* What a process has found out, while nobody else has written.  Up to its own
\* write it knows the display as it was when it began; a process on its way to
\* the dark does not want it lit, and the other way round; display_on has read
\* a positive level by the time it writes.
OnItsWay(p) ==
    /\ alone[p] /\ pc[p] \in Accesses \ {"idle", "unlink", "done"} => lit0[p] = (level > 0)
    /\ pc[p] = "decide" => op[p] \in {"toggle", "wake"}
    /\ pc[p] \in {"read level", "truncate", "save", "go dark"}
          => op[p] = "off" \/ (op[p] = "toggle" /\ (alone[p] => lit0[p]))
    /\ pc[p] \in {"read saved", "light", "unlink"}
          => op[p] \in {"on", "wake"} \/ (op[p] = "toggle" /\ (alone[p] => ~lit0[p]))
    /\ pc[p] = "light" => reg[p] > 0
    /\ pc[p] = "unlink" /\ alone[p] => level > 0

\* EffectSeen for one process.
Effect(p) ==
    pc[p] = "done" /\ alone[p] =>
        (level > 0) = CASE op[p] \in {"on", "wake"} -> TRUE
                        [] op[p] = "off"            -> FALSE
                        [] op[p] = "toggle"         -> ~lit0[p]

BacklightInv == BacklightTypeOK /\ \A p \in Procs : OnItsWay(p) /\ Effect(p)

LEMMA BacklightInitInv == BacklightInit => BacklightInv
  BY BacklightAssumption
  DEF BacklightInit, BacklightInv, BacklightTypeOK, OnItsWay, Effect, Accesses, Ops

\* A step of one process that does not write the node leaves the others alone.
LEMMA Others ==
    ASSUME BacklightInv, NEW p \in Procs, NEW l \in Accesses,
           Goto(p, l), UNCHANGED level, BacklightTypeOK',
           \A q \in Procs \ {p} :
              op'[q] = op[q] /\ reg'[q] = reg[q] /\ lit0'[q] = lit0[q] /\ alone'[q] = alone[q],
           OnItsWay(p)', Effect(p)'
    PROVE  BacklightInv'
  <1>1. ASSUME NEW q \in Procs, q # p PROVE OnItsWay(q)' /\ Effect(q)'
    <2>1. /\ pc'[q] = pc[q] /\ op'[q] = op[q] /\ reg'[q] = reg[q]
          /\ lit0'[q] = lit0[q] /\ alone'[q] = alone[q]
      BY <1>1 DEF BacklightInv, BacklightTypeOK, Goto
    <2> QED
      BY <2>1 DEF BacklightInv, OnItsWay, Effect
  <1> QED
    BY <1>1 DEF BacklightInv

\* A write of the node by one process leaves no other one alone.
LEMMA Writes ==
    ASSUME BacklightInv, NEW p \in Procs, NEW l \in Accesses, NEW v \in Nat,
           Goto(p, l), SetLevel(p, v), UNCHANGED <<saved, op, reg, lit0>>,
           OnItsWay(p)', Effect(p)'
    PROVE  BacklightInv'
  <1>1. BacklightTypeOK'
    BY DEF BacklightInv, BacklightTypeOK, Goto, SetLevel
  <1>2. ASSUME NEW q \in Procs, q # p PROVE OnItsWay(q)' /\ Effect(q)'
    <2>1. pc'[q] = pc[q] /\ op'[q] = op[q] /\ reg'[q] = reg[q] /\ ~alone'[q]
      BY <1>2 DEF BacklightInv, BacklightTypeOK, Goto, SetLevel
    <2> QED
      BY <2>1 DEF BacklightInv, OnItsWay, Effect
  <1> QED
    BY <1>1, <1>2 DEF BacklightInv

LEMMA BacklightStep ==
    ASSUME BacklightInv, [BacklightNext]_backlight
    PROVE  BacklightInv'
  <1> USE DEF BacklightInv
  <1>1. ASSUME NEW p \in Procs, Begin(p) PROVE BacklightInv'
    <2>1. PICK o \in Ops :
             /\ op' = [op EXCEPT ![p] = o]
             /\ Goto(p, CASE o = "on" -> "read saved" [] o = "off" -> "read level"
                          [] OTHER -> "decide")
      BY <1>1 DEF Begin
    <2>2. PICK l \in Accesses :
             /\ Goto(p, l)
             /\ l = (CASE o = "on" -> "read saved" [] o = "off" -> "read level"
                       [] OTHER -> "decide")
      BY <2>1 DEF Accesses
    <2>3. BacklightTypeOK'
      <3>1. (level > 0) \in BOOLEAN
        OBVIOUS
      <3>2. lit0' \in [Procs -> BOOLEAN] /\ alone' \in [Procs -> BOOLEAN]
        BY <1>1, <3>1, Zenon DEF Begin, BacklightTypeOK
      <3>3. pc' \in [Procs -> Accesses] /\ op' \in [Procs -> Ops]
        BY <2>1, <2>2 DEF BacklightTypeOK, Goto
      <3>4. UNCHANGED <<level, saved, reg>>
        BY <1>1 DEF Begin
      <3> QED
        BY <3>2, <3>3, <3>4 DEF BacklightTypeOK
    <2>4. OnItsWay(p)' /\ Effect(p)'
      BY <1>1, <2>1, <2>2 DEF Begin, BacklightTypeOK, Goto, OnItsWay, Effect, Ops
    <2> QED
      BY <1>1, <2>1, <2>2, <2>3, <2>4, Others DEF Begin, BacklightTypeOK
  <1>2. ASSUME NEW p \in Procs, Decide(p) PROVE BacklightInv'
    <2>1. PICK l \in Accesses :
             /\ Goto(p, l)
             /\ l = (IF level > 0 THEN IF op[p] = "toggle" THEN "read level" ELSE "done"
                     ELSE "read saved")
      BY <1>2 DEF Decide, Accesses
    <2>2. BacklightTypeOK'
      BY <1>2, <2>1 DEF Decide, BacklightTypeOK, Goto
    <2>3. OnItsWay(p)' /\ Effect(p)'
      BY <1>2, <2>1 DEF Decide, BacklightTypeOK, Goto, OnItsWay, Effect, Accesses
    <2> QED
      BY <1>2, <2>1, <2>2, <2>3, Others DEF Decide
  <1>3. ASSUME NEW p \in Procs, ReadLevel(p) PROVE BacklightInv'
    <2>1. PICK l \in Accesses : Goto(p, l) /\ l \in {"truncate", "go dark"}
      BY <1>3 DEF ReadLevel, Accesses
    <2>2. BacklightTypeOK'
      BY <1>3, <2>1 DEF ReadLevel, BacklightTypeOK, Goto
    <2>3. OnItsWay(p)' /\ Effect(p)'
      BY <1>3, <2>1 DEF ReadLevel, BacklightTypeOK, Goto, OnItsWay, Effect, Accesses
    <2> QED
      BY <1>3, <2>1, <2>2, <2>3, Others DEF ReadLevel, BacklightTypeOK
  <1>4. ASSUME NEW p \in Procs, Truncate(p) PROVE BacklightInv'
    <2>1. PICK l \in Accesses : Goto(p, l) /\ l \in {"save", "go dark"}
      BY <1>4 DEF Truncate, Accesses
    <2>2. BacklightTypeOK'
      BY <1>4, <2>1 DEF Truncate, BacklightTypeOK, Goto
    <2>3. OnItsWay(p)' /\ Effect(p)'
      BY <1>4, <2>1 DEF Truncate, BacklightTypeOK, Goto, OnItsWay, Effect, Accesses
    <2> QED
      BY <1>4, <2>1, <2>2, <2>3, Others DEF Truncate
  <1>5. ASSUME NEW p \in Procs, Save(p) PROVE BacklightInv'
    <2>1. "go dark" \in Accesses /\ Goto(p, "go dark")
      BY <1>5 DEF Save, Accesses
    <2>2. BacklightTypeOK'
      BY <1>5, <2>1 DEF Save, BacklightTypeOK, Goto
    <2>3. OnItsWay(p)' /\ Effect(p)'
      BY <1>5, <2>1 DEF Save, BacklightTypeOK, Goto, OnItsWay, Effect, Accesses
    <2> QED
      BY <1>5, <2>1, <2>2, <2>3, Others DEF Save
  <1>6. ASSUME NEW p \in Procs, GoDark(p) PROVE BacklightInv'
    <2>1. "done" \in Accesses /\ Goto(p, "done")
      BY <1>6 DEF GoDark, Accesses
    <2>2. /\ pc'[p] = "done" /\ level' = 0
          /\ op'[p] = op[p] /\ lit0'[p] = lit0[p] /\ (alone'[p] => alone[p])
      BY <1>6, <2>1 DEF GoDark, SetLevel, BacklightTypeOK, Goto
    <2>3. op[p] = "off" \/ (op[p] = "toggle" /\ (alone[p] => lit0[p]))
      BY <1>6 DEF GoDark, OnItsWay
    <2>4. OnItsWay(p)'
      BY <2>2, <2>3 DEF OnItsWay
    <2>5. Effect(p)'
      <3>1. CASE op[p] = "off"
        <4>1. (level' > 0) = FALSE
          BY <2>2
        <4>2. op'[p] = "off" /\ op'[p] \notin {"on", "wake"} /\ op'[p] # "toggle"
          BY <2>2, <3>1
        <4> QED
          BY <4>1, <4>2, Zenon DEF Effect
      <3>2. CASE op[p] = "toggle" /\ (alone[p] => lit0[p])
        <4>1. lit0[p] \in BOOLEAN
          BY DEF BacklightTypeOK
        <4>2. alone'[p] => lit0'[p] = TRUE
          BY <2>2, <3>2, <4>1
        <4> QED
          BY <2>2, <3>2, <4>2 DEF Effect
      <3> QED
        BY <2>3, <3>1, <3>2
    <2> QED
      BY <1>6, <2>1, <2>4, <2>5, Writes DEF GoDark
  <1>7. ASSUME NEW p \in Procs, ReadSaved(p) PROVE BacklightInv'
    <2>1. "light" \in Accesses /\ Goto(p, "light")
      BY <1>7 DEF ReadSaved, Accesses
    <2>2. reg'[p] \in Nat /\ reg'[p] > 0
      <3>1. Default \in Nat /\ Default > 0
        BY BacklightAssumption
      <3>2. saved \notin {NoFile, 0} => saved \in Nat /\ saved > 0
        BY DEF BacklightTypeOK
      <3>3. reg'[p] = IF saved \in {NoFile, 0} THEN Default ELSE saved
        BY <1>7 DEF ReadSaved, BacklightTypeOK
      <3> QED
        BY <3>1, <3>2, <3>3
    <2>3. BacklightTypeOK'
      BY <1>7, <2>1, <2>2 DEF ReadSaved, BacklightTypeOK, Goto
    <2>4. OnItsWay(p)' /\ Effect(p)'
      BY <1>7, <2>1, <2>2 DEF ReadSaved, BacklightTypeOK, Goto, OnItsWay, Effect, Accesses
    <2> QED
      BY <1>7, <2>1, <2>3, <2>4, Others DEF ReadSaved, BacklightTypeOK
  <1>8. ASSUME NEW p \in Procs, Light(p) PROVE BacklightInv'
    <2>1. "unlink" \in Accesses /\ Goto(p, "unlink") /\ reg[p] \in Nat
      BY <1>8 DEF Light, Accesses, BacklightTypeOK
    <2>2. OnItsWay(p)' /\ Effect(p)'
      BY <1>8, <2>1 DEF Light, SetLevel, BacklightTypeOK, Goto, OnItsWay, Effect, Accesses
    <2> QED
      BY <1>8, <2>1, <2>2, Writes DEF Light
  <1>9. ASSUME NEW p \in Procs, Unlink(p) PROVE BacklightInv'
    <2>1. "done" \in Accesses /\ Goto(p, "done")
      BY <1>9 DEF Unlink, Accesses
    <2>2. BacklightTypeOK'
      BY <1>9, <2>1 DEF Unlink, BacklightTypeOK, Goto
    <2>3. OnItsWay(p)' /\ Effect(p)'
      BY <1>9, <2>1 DEF Unlink, BacklightTypeOK, Goto, OnItsWay, Effect, Accesses
    <2> QED
      BY <1>9, <2>1, <2>2, <2>3, Others DEF Unlink
  <1>10. ASSUME NEW p \in Procs, End(p) PROVE BacklightInv'
    <2>1. "idle" \in Accesses /\ Goto(p, "idle")
      BY <1>10 DEF End, Accesses
    <2>2. BacklightTypeOK'
      BY <1>10, <2>1 DEF End, BacklightTypeOK, Goto
    <2>3. OnItsWay(p)' /\ Effect(p)'
      BY <1>10, <2>1 DEF End, BacklightTypeOK, Goto, OnItsWay, Effect, Accesses
    <2> QED
      BY <1>10, <2>1, <2>2, <2>3, Others DEF End
  <1>11. ASSUME NEW l \in Levels, UserSets(l) PROVE BacklightInv'
    <2>1. l \in Nat
      BY BacklightAssumption
    <2>2. \A q \in Procs : ~alone'[q]
      BY <1>11 DEF UserSets
    <2>3. BacklightTypeOK'
      BY <1>11, <2>1 DEF UserSets, BacklightTypeOK, proc
    <2>4. ASSUME NEW q \in Procs PROVE OnItsWay(q)' /\ Effect(q)'
      BY <1>11, <2>2 DEF UserSets, OnItsWay, Effect, proc
    <2> QED
      BY <2>3, <2>4
  <1>12. CASE UNCHANGED backlight
    <2>1. BacklightTypeOK'
      BY <1>12 DEF backlight, proc, BacklightTypeOK
    <2>2. ASSUME NEW q \in Procs PROVE OnItsWay(q)' /\ Effect(q)'
      BY <1>12 DEF backlight, proc, OnItsWay, Effect
    <2> QED
      BY <2>1, <2>2
  <1> QED
    BY <1>1, <1>2, <1>3, <1>4, <1>5, <1>6, <1>7, <1>8, <1>9, <1>10, <1>11, <1>12
    DEF BacklightNext

\* An operation that no other write overlaps does what it is for, for any
\* number of processes and any levels (display_on, display_off, display_toggle,
\* wake_guard).
THEOREM EffectIsSeen == BacklightSpec => []EffectSeen
  <1>1. BacklightInv => EffectSeen
    BY DEF BacklightInv, Effect, EffectSeen
  <1> QED
    BY <1>1, BacklightInitInv, BacklightStep, PTL DEF BacklightSpec

\* display_on never writes a dark level, whatever others do to the file it
\* reads the level from.
THEOREM OnAlwaysLights == BacklightSpec => OnLights
  <1>1. BacklightInv /\ [BacklightNext]_backlight
          => [\A p \in Procs : Light(p) => level' > 0]_backlight
    BY DEF BacklightInv, OnItsWay, Light, SetLevel
  <1> QED
    BY <1>1, BacklightInitInv, BacklightStep, PTL DEF BacklightSpec, OnLights
=============================================================================

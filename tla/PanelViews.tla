----------------------------- MODULE PanelViews -----------------------------
(***************************************************************************)
(* The views of panel.c: the dashboard, the menu and the pager, the keys   *)
(* that move between them and the frame the user sees while deciding which *)
(* key to press.  A key is a token from the key socket or a typed byte;    *)
(* typed escape sequences pass through the filter of stdin_readable.       *)
(***************************************************************************)
EXTENDS Integers, Sequences

CONSTANTS
    Rows,        \* screen_rows
    TopMargin,   \* cfg.top_margin
    LogSizes,    \* the numbers of lines a log can have
    EscapeForms  \* the escape sequences the terminal sends, after the ESC

ASSUME ConstantsAssumption ==
    /\ Rows \in Nat /\ TopMargin \in Nat /\ LogSizes \subseteq Nat
    /\ EscapeForms \subseteq Seq({"[", "O", "5", "A", "~"}) \ {<<>>}

menu_items == <<"backlight", "torch", "boot log", "errors", "kernel logs",
                "units", "network", "reboot", "back">>
MENU_N == Len(menu_items)

Sources == {"boot log", "errors", "kernel logs", "units", "network", "processes"}
NoSource == "none"       \* a NULL pager_reload

Actions == {"up", "down", "select", "menu", "quit", "other"}
Chars   == {"b", "e", "k", "u", "n", "t", "j", "d", ".", "m", "q", "+", "-", "x"}

\* What the hotkeys of the dashboard open, and which of them follow the log.
Opens == [b |-> "boot log", e |-> "errors", k |-> "kernel logs", u |-> "units",
          n |-> "network", t |-> "processes", j |-> "boot log"]
Live  == {"t", "j"}

\* The action of a key outside the dashboard.
ActionOf(c) ==
    CASE c \in {"+", "k"} -> "up"
      [] c \in {"-", "j"} -> "down"
      [] c = "."          -> "select"
      [] c \in {"m", "q"} -> "menu"
      [] OTHER            -> "other"

VARIABLES
    view, menu_sel,
    pager_text,    \* [src, lines, ver]: the log, its length, which reading
    pager_top, pager_reload, pager_parent,
    lit, torch, rebooting, quitting,
    in_escape,
    shown,         \* what the frame on the terminal shows
    typing         \* the rest of an escape sequence that is being typed

pager == <<pager_text, pager_top, pager_reload, pager_parent>>
world == <<lit, torch, rebooting>>
stdin == <<in_escape, typing>>
vars  == <<view, menu_sel, pager, world, quitting, stdin, shown>>

-----------------------------------------------------------------------------
pager_rows == IF Rows - TopMargin - 3 < 5 THEN 5 ELSE Rows - TopMargin - 3

\* pager_clamp of the position t in a log of l lines.
pager_clamp_swapped(t, l) ==
    LET low == IF t < 0 THEN 0 ELSE t
    IN IF low > l - pager_rows THEN l - pager_rows ELSE low
pager_clamp(t, l) ==
    LET low == IF t > l - pager_rows THEN l - pager_rows ELSE t
    IN IF low < 0 THEN 0 ELSE low

\* The frame of a view: the highlighted entry, or the lines of a log.
Frame(v, sel, text, top) ==
    CASE v = "dash"  -> [view |-> v]
      [] v = "menu"  -> [view |-> v, sel |-> sel]
      [] v = "pager" -> [view |-> v, text |-> text, top |-> top]

repaint == shown' = Frame(view', menu_sel', pager_text', pager_top')

Init ==
    /\ view = "dash" /\ menu_sel = 0
    /\ pager_text = [src |-> NoSource, lines |-> 0, ver |-> 0]
    /\ pager_top = 0 /\ pager_reload = NoSource /\ pager_parent = "menu"
    /\ lit \in BOOLEAN /\ torch = FALSE /\ rebooting = FALSE
    /\ quitting = FALSE /\ in_escape = FALSE /\ typing = <<>>
    /\ shown = Frame("dash", 0, pager_text, 0)

\* A log is read: any number of lines, another reading than the last one.
Load(src) ==
    \E l \in LogSizes :
        /\ pager_text' = [src |-> src, lines |-> l, ver |-> 1 - pager_text.ver]
        /\ pager_top' = pager_clamp(l - pager_rows, l)

pager_open(src, parent, live) ==
    /\ Load(src)
    /\ pager_reload' = IF live THEN src ELSE NoSource
    /\ pager_parent' = parent
    /\ view' = "pager"

\* menu_activate; request_reboot does nothing without a bus or if it fails.
menu_activate_next ==
    LET item == menu_items[((menu_sel + 1) % MENU_N) + 1] IN
    /\ lit' = IF item = "backlight" THEN ~lit ELSE lit
    /\ torch' = IF item = "torch" THEN ~torch ELSE torch
    /\ rebooting' \in IF item = "reboot" THEN {rebooting, TRUE} ELSE {rebooting}
    /\ IF item \in Sources
       THEN pager_open(item, "menu", FALSE)
       ELSE /\ view' = IF item = "back" THEN "dash" ELSE view
            /\ UNCHANGED pager
menu_activate ==
    LET item == menu_items[menu_sel + 1] IN
    /\ lit' = IF item = "backlight" THEN ~lit ELSE lit
    /\ torch' = IF item = "torch" THEN ~torch ELSE torch
    /\ rebooting' \in IF item = "reboot" THEN {rebooting, TRUE} ELSE {rebooting}
    /\ IF item \in Sources
       THEN pager_open(item, "menu", FALSE)
       ELSE /\ view' = IF item = "back" THEN "dash" ELSE view
            /\ UNCHANGED pager

-----------------------------------------------------------------------------
(***************************************************************************)
(* handle_action, view by view; every action ends in a repaint.            *)
(***************************************************************************)

DashAction(a) ==
    /\ view = "dash"
    /\ view' = IF a = "menu" THEN "menu" ELSE view
    /\ menu_sel' = IF a = "menu" THEN 0 ELSE menu_sel
    /\ lit' = IF a = "select" THEN ~lit ELSE lit
    /\ quitting' = (quitting \/ a = "quit")
    /\ UNCHANGED <<pager, torch, rebooting>>

MenuMove(a) ==
    /\ view = "menu" /\ a \in {"up", "down"}
    /\ menu_sel' = IF a = "up" THEN (menu_sel + MENU_N - 1) % MENU_N
                               ELSE (menu_sel + 1) % MENU_N
    /\ UNCHANGED <<view, pager, world, quitting>>

MenuSelect(a) ==
    /\ view = "menu" /\ a = "select"
    /\ menu_activate
    /\ UNCHANGED <<menu_sel, quitting>>

MenuLeave(a) ==
    /\ view = "menu" /\ a \in {"menu", "quit", "other"}
    /\ view' = IF a = "other" THEN view ELSE "dash"
    /\ UNCHANGED <<menu_sel, pager, world, quitting>>

PagerScroll(a) ==
    /\ view = "pager" /\ a \in {"up", "down"}
    /\ pager_top' =
           LET half == pager_rows \div 2
           IN pager_clamp(IF a = "up" THEN pager_top - half ELSE pager_top + half,
                          pager_text.lines)
    /\ UNCHANGED <<view, menu_sel, pager_text, pager_reload, pager_parent,
                   world, quitting>>

PagerLeave(a) ==
    /\ view = "pager" /\ a \notin {"up", "down"}
    /\ view' = pager_parent /\ pager_reload' = NoSource
    /\ UNCHANGED <<menu_sel, pager_text, pager_top, pager_parent,
                   world, quitting>>

handle_action_no_repaint(a) ==
    /\ \/ DashAction(a)
       \/ MenuMove(a) \/ MenuSelect(a) \/ MenuLeave(a)
       \/ PagerScroll(a) \/ PagerLeave(a)
    /\ shown' = IF view = "menu" /\ a = "down" THEN shown
                ELSE Frame(view', menu_sel', pager_text', pager_top')
handle_action(a) ==
    /\ \/ DashAction(a)
       \/ MenuMove(a) \/ MenuSelect(a) \/ MenuLeave(a)
       \/ PagerScroll(a) \/ PagerLeave(a)
    /\ repaint

\* A hotkey of the dashboard opens a log.
Hotkey(c) ==
    /\ c \in DOMAIN Opens
    /\ pager_open(Opens[c], "dash", c \in Live)
    /\ UNCHANGED <<menu_sel, world, quitting>>
    /\ repaint

ToggleDisplay(c) ==
    /\ c \in {"d", "."}
    /\ lit' = ~lit
    /\ UNCHANGED <<view, menu_sel, pager, torch, rebooting, quitting>>
    /\ repaint

\* Any other key on the dashboard does nothing, not even a repaint.
Unknown(c) ==
    /\ c \notin DOMAIN Opens \cup {"d", ".", "m", "q"}
    /\ UNCHANGED <<view, menu_sel, pager, world, quitting, shown>>

handle_char(c) ==
    \/ /\ view = "dash"
       /\ \/ Hotkey(c) \/ ToggleDisplay(c) \/ Unknown(c)
          \/ c = "m" /\ handle_action("menu")
          \/ c = "q" /\ handle_action("quit")
    \/ view # "dash" /\ handle_action(ActionOf(c))

-----------------------------------------------------------------------------
(***************************************************************************)
(* The events of the main loop.                                            *)
(***************************************************************************)

\* A token of the key socket.
Token == (\E c \in {"+", "-", ".", "m"} : handle_char(c)) /\ UNCHANGED stdin

\* A typed byte that is no part of an escape sequence, unless the filter
\* believes it is.
TypedKey(c) ==
    /\ typing = <<>>
    /\ IF in_escape
       THEN /\ in_escape' = (c \in {".", "+", "-"})   \* isalpha ends it
            /\ UNCHANGED <<view, menu_sel, pager, world, quitting, shown>>
       ELSE handle_char(c) /\ UNCHANGED in_escape
    /\ UNCHANGED typing

\* The ESC of a sequence.
TypedEscape(form) ==
    /\ typing = <<>> /\ ~in_escape
    /\ in_escape' = TRUE /\ typing' = form
    /\ UNCHANGED <<view, menu_sel, pager, world, quitting, shown>>

\* A further byte of the sequence, perhaps of a later read.  Outside the
\* filter it is a key like any other, and none of them is a known one.
SequenceByte_alpha_only ==
    /\ typing # <<>> /\ typing' = Tail(typing)
    /\ IF in_escape
       THEN /\ in_escape' = (Head(typing) \notin {"A", "O"})
            /\ UNCHANGED <<view, menu_sel, pager, world, quitting, shown>>
       ELSE handle_char("x") /\ UNCHANGED in_escape
SequenceByte ==
    /\ typing # <<>> /\ typing' = Tail(typing)
    /\ IF in_escape
       THEN /\ in_escape' = (Head(typing) \notin {"A", "O", "~"})
            /\ UNCHANGED <<view, menu_sel, pager, world, quitting, shown>>
       ELSE handle_char("x") /\ UNCHANGED in_escape

\* The stats interval: the dashboard is redrawn, a followed log read again.
Tick ==
    /\ IF view = "pager" /\ pager_reload # NoSource
       THEN Load(pager_reload) /\ UNCHANGED <<pager_reload, pager_parent>>
       ELSE UNCHANGED pager
    /\ UNCHANGED <<view, menu_sel, world, quitting, stdin>>
    /\ IF view = "menu" THEN UNCHANGED shown ELSE repaint

\* Another process switches the display.
LitElsewhere ==
    /\ lit' = ~lit
    /\ UNCHANGED <<view, menu_sel, pager, torch, rebooting, quitting, stdin, shown>>

Next ==
    \/ Token \/ Tick \/ LitElsewhere \/ SequenceByte
    \/ \E c \in Chars : TypedKey(c)
    \/ \E form \in EscapeForms : TypedEscape(form)

Spec == Init /\ [][Next]_vars

-----------------------------------------------------------------------------
(***************************************************************************)
(* Properties.                                                             *)
(***************************************************************************)

\* The frame shows the view, the highlighted entry and the lines a key would
\* act on: no path leaves an older frame on the terminal.
FrameCurrent == shown = Frame(view, menu_sel, pager_text, pager_top)

\* The pager never starts before the first line or, in a log longer than the
\* page, past the last page, although logs shrink when they are read again.
PagerInRange ==
    /\ pager_top >= 0
    /\ pager_top = 0 \/ pager_top <= pager_text.lines - pager_rows

\* A reboot is only ever requested while the frame on the terminal has the
\* reboot entry highlighted.
RebootDeliberate ==
    [][rebooting' /\ ~rebooting
        => shown.view = "menu" /\ menu_items[shown.sel + 1] = "reboot"]_vars

\* "the rest of the sequence would otherwise read as one keypress per byte":
\* the bytes of an escape sequence act on nothing, and the key typed after it
\* acts again.
EscapeSilent ==
    [][/\ SequenceByte => UNCHANGED <<view, menu_sel, pager, world, quitting, shown>>
       /\ typing # <<>> /\ typing' = <<>> => ~in_escape']_vars
=============================================================================

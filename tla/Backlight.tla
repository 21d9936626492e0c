----------------------------- MODULE Backlight ------------------------------
(***************************************************************************)
(* The backlight as panel.c drives it: display_on, display_off,            *)
(* display_toggle and wake_guard, each a handful of reads and writes of    *)
(* the brightness node and of the saved level, run without a lock by the   *)
(* key daemon, the panel and the display command at the same time.         *)
(***************************************************************************)
EXTENDS Integers

CONSTANTS
    Procs,        \* processes that drive the backlight
    Levels,       \* levels a user can set, all positive
    Default,      \* cfg.default_brightness
    LeftBehind,   \* what the state directory may hold at the start
    NoFile        \* no saved level

ASSUME BacklightAssumption ==
    /\ Levels \subseteq Nat \ {0} /\ Default \in Levels
    /\ LeftBehind \subseteq Levels \cup {NoFile}
    /\ NoFile \notin Nat

Ops == {"on", "off", "toggle", "wake"}

VARIABLES
    level,      \* the brightness node; 0 is dark
    saved,      \* state_dir/brightness; 0 while it is truncated
    pc, op,     \* pc[p]: the next access of process p, in its operation op[p]
    reg         \* reg[p]: the level p holds in its local variable

VARIABLES       \* history
    lit0,       \* lit0[p]: whether the display was lit when p began
    alone       \* alone[p]: no other write to the node since p began

proc == <<pc, op, reg>>
backlight == <<level, saved, proc, lit0, alone>>

BacklightInit ==
    /\ level \in Levels \cup {0} /\ saved \in LeftBehind
    /\ pc = [p \in Procs |-> "idle"] /\ op = [p \in Procs |-> "on"]
    /\ reg = [p \in Procs |-> 0]
    /\ lit0 = [p \in Procs |-> FALSE] /\ alone = [p \in Procs |-> TRUE]

Goto(p, l) == pc' = [pc EXCEPT ![p] = l]

\* write_num to the brightness node.
SetLevel(p, l) ==
    /\ level' = l
    /\ alone' = [q \in Procs |-> q = p /\ alone[q]]

-----------------------------------------------------------------------------
\* An operation begins: a key, a menu entry or the display command.
Begin(p) ==
    /\ pc[p] = "idle"
    /\ \E o \in Ops :
          /\ op' = [op EXCEPT ![p] = o]
          /\ Goto(p, CASE o = "on" -> "read saved" [] o = "off" -> "read level"
                       [] OTHER -> "decide")
    /\ lit0' = [lit0 EXCEPT ![p] = level > 0]
    /\ alone' = [alone EXCEPT ![p] = TRUE]
    /\ UNCHANGED <<level, saved, reg>>

\* The first read of display_toggle and wake_guard.
Decide_toggles_wake(p) ==
    /\ pc[p] = "decide"
    /\ Goto(p, IF level > 0 THEN "read level" ELSE "read saved")
    /\ UNCHANGED <<level, saved, op, reg, lit0, alone>>
Decide(p) ==
    /\ pc[p] = "decide"
    /\ Goto(p, IF level > 0
               THEN IF op[p] = "toggle" THEN "read level" ELSE "done"
               ELSE "read saved")
    /\ UNCHANGED <<level, saved, op, reg, lit0, alone>>

\* display_off.  write_num opens the saved level with O_TRUNC and without
\* O_CREAT, so that there is something to save to only if it exists.
ReadLevel(p) ==
    /\ pc[p] = "read level"
    /\ reg' = [reg EXCEPT ![p] = level]
    /\ Goto(p, IF level > 0 THEN "truncate" ELSE "go dark")
    /\ UNCHANGED <<level, saved, op, lit0, alone>>

Truncate(p) ==
    /\ pc[p] = "truncate"
    /\ saved' = IF saved = NoFile THEN NoFile ELSE 0
    /\ Goto(p, IF saved = NoFile THEN "go dark" ELSE "save")
    /\ UNCHANGED <<level, op, reg, lit0, alone>>

\* The write to the open file, which another process may have unlinked.
Save(p) ==
    /\ pc[p] = "save" /\ Goto(p, "go dark")
    /\ saved' = IF saved = NoFile THEN NoFile ELSE reg[p]
    /\ UNCHANGED <<level, op, reg, lit0, alone>>

GoDark(p) ==
    /\ pc[p] = "go dark" /\ Goto(p, "done")
    /\ SetLevel(p, 0)
    /\ UNCHANGED <<saved, op, reg, lit0>>

\* display_on.  A missing or truncated file reads as 0.
ReadSaved_no_default(p) ==
    /\ pc[p] = "read saved" /\ Goto(p, "light")
    /\ reg' = [reg EXCEPT ![p] = IF saved = NoFile THEN Default ELSE saved]
    /\ UNCHANGED <<level, saved, op, lit0, alone>>
ReadSaved(p) ==
    /\ pc[p] = "read saved" /\ Goto(p, "light")
    /\ reg' = [reg EXCEPT ![p] = IF saved \in {NoFile, 0} THEN Default ELSE saved]
    /\ UNCHANGED <<level, saved, op, lit0, alone>>

Light(p) ==
    /\ pc[p] = "light" /\ Goto(p, "unlink")
    /\ SetLevel(p, reg[p])
    /\ UNCHANGED <<saved, op, reg, lit0>>

Unlink(p) ==
    /\ pc[p] = "unlink" /\ Goto(p, "done")
    /\ saved' = NoFile
    /\ UNCHANGED <<level, op, reg, lit0, alone>>

End(p) ==
    /\ pc[p] = "done" /\ Goto(p, "idle")
    /\ UNCHANGED <<level, saved, op, reg, lit0, alone>>

\* A user sets the level of a lit display.
UserSets(l) ==
    /\ level > 0 /\ level' = l /\ level' # level
    /\ alone' = [q \in Procs |-> FALSE]
    /\ UNCHANGED <<saved, proc, lit0>>

BacklightNext ==
    \/ \E p \in Procs :
          \/ Begin(p) \/ Decide(p)
          \/ ReadLevel(p) \/ Truncate(p) \/ Save(p) \/ GoDark(p)
          \/ ReadSaved(p) \/ Light(p) \/ Unlink(p) \/ End(p)
    \/ \E l \in Levels : UserSets(l)

BacklightSpec == BacklightInit /\ [][BacklightNext]_backlight

-----------------------------------------------------------------------------
\* display_on lights the display, also while another process is rewriting the
\* saved level and the file it reads is empty or gone.
OnLights == [][\A p \in Procs : Light(p) => level' > 0]_backlight

\* An operation nobody else's write overlapped has the effect it is for: on
\* and wake leave the display lit, off dark, toggle the other way.
EffectSeen ==
    \A p \in Procs :
        pc[p] = "done" /\ alone[p] =>
            (level > 0) = CASE op[p] \in {"on", "wake"} -> TRUE
                            [] op[p] = "off"            -> FALSE
                            [] op[p] = "toggle"         -> ~lit0[p]
=============================================================================

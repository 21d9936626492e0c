----------------------------- MODULE KeyDecoder -----------------------------
(***************************************************************************)
(* The hardware-key decoder of the console panel (panel.c): evdev key      *)
(* transitions go in, clicks, holds and synthesized volume repeats come    *)
(* out.  The loop of keys_command() is `pc': it sleeps in epoll_wait       *)
(* ("wait"), which returns either because the evdev node is readable       *)
(* ("readable") or because the deadline of the held key passed with        *)
(* nothing readable ("timeout").  Between that return and the handler the  *)
(* keys, the clock and the other users of the backlight keep moving.       *)
(***************************************************************************)
EXTENDS Integers, Sequences

CONSTANTS
    Power,      \* cfg.k_power
    Volumes,    \* {cfg.k_volup, cfg.k_voldown}: the keys that repeat
    Others,     \* other codes the node reports; decoded to nothing
    NoKey,      \* the -1 of `held'
    SynDropped, \* the marker evdev leaves when its client buffer overflows
    HoldMs,     \* cfg.hold_ms
    RepeatMs,   \* cfg.repeat_ms
    QueueCap,   \* events the evdev client buffer holds
    MaxTime,    \* bound on the clock
    MaxEdges    \* bound on the number of key transitions

Keys == {Power} \cup Volumes \cup Others

ASSUME ConstantsAssumption ==
    /\ Power \notin Volumes \cup Others
    /\ Volumes \cap Others = {}
    /\ NoKey \notin Keys /\ SynDropped \notin Keys /\ NoKey # SynDropped
    /\ HoldMs \in Nat /\ RepeatMs \in Nat
    /\ QueueCap \in Nat \ {0, 1}
    /\ MaxTime \in Nat /\ MaxEdges \in Nat

VARIABLES
    now,          \* now_ms()
    down,         \* the keys physically down
    edges,        \* key transitions so far
    queue,        \* events in the evdev client buffer, oldest first
    lit,          \* backlight_level() > 0
    pc,           \* where the daemon's loop is
    held, held_repeats, announced, pending, due_ms

VARIABLES         \* history of the press in `held' (or of the last one)
    since,        \* kernel timestamp of its press event
    clicks,       \* '.' tokens it produced
    holds,        \* 'm' tokens it produced
    acted,        \* it produced a token or woke the display
    stepped,      \* time of its latest volume step
    lifted,       \* when the finger left `held'; Never while it has not
    lost          \* evdev dropped events after its press

env     == <<now, down, edges>>
decoder == <<held, held_repeats, announced, pending, due_ms>>
history == <<since, clicks, holds, acted, stepped, lifted, lost>>
vars    == <<env, queue, lit, pc, decoder, history>>

Never == -1

Event(k, v) == [code |-> k, value |-> v, time |-> now]
Events == [code : Keys \cup {SynDropped}, value : 0..2, time : Nat]

Init ==
    /\ now = 0 /\ down = {} /\ edges = 0 /\ queue = <<>>
    /\ lit \in BOOLEAN /\ pc = "wait"
    /\ held = NoKey /\ held_repeats = FALSE
    /\ announced = FALSE /\ pending = FALSE /\ due_ms = 0
    /\ since = 0 /\ clicks = 0 /\ holds = 0
    /\ acted = FALSE /\ stepped = 0 /\ lifted = Never /\ lost = FALSE

-----------------------------------------------------------------------------
(***************************************************************************)
(* The keypad, the evdev buffer and the other users of the backlight.      *)
(***************************************************************************)

\* evdev hands an event to the open client.  A full buffer is thrown away:
\* what is left is a SYN_DROPPED marker and the newest event.
Post(e) ==
    IF Len(queue) < QueueCap
    THEN queue' = Append(queue, e) /\ lost' = lost
    ELSE queue' = <<Event(SynDropped, 0), e>> /\ lost' = TRUE

KeyDown(k) ==
    /\ edges < MaxEdges /\ edges' = edges + 1
    /\ k \notin down /\ down' = down \cup {k}
    /\ Post(Event(k, 1))
    /\ UNCHANGED <<now, lit, pc, decoder, since, clicks, holds, acted, stepped, lifted>>

KeyUp(k) ==
    /\ edges < MaxEdges /\ edges' = edges + 1
    /\ k \in down /\ down' = down \ {k}
    /\ Post(Event(k, 0))
    /\ lifted' = IF k = held /\ lifted = Never THEN now ELSE lifted
    /\ UNCHANGED <<now, lit, pc, decoder, since, clicks, holds, acted, stepped>>

\* Kernel autorepeat (value 2), which a keypad with EV_REP would produce.
Autorepeat(k) ==
    /\ edges < MaxEdges /\ edges' = edges + 1
    /\ k \in down
    /\ Post(Event(k, 2))
    /\ UNCHANGED <<now, down, lit, pc, decoder, since, clicks, holds, acted, stepped, lifted>>

Tick ==
    /\ now < MaxTime /\ now' = now + 1
    /\ UNCHANGED <<down, edges, queue, lit, pc, decoder, history>>

\* The panel, the display command or a stale panel moves the backlight.
LitElsewhere ==
    /\ lit' = ~lit
    /\ UNCHANGED <<env, queue, pc, decoder, history>>

-----------------------------------------------------------------------------
(***************************************************************************)
(* The daemon.                                                             *)
(***************************************************************************)

\* epoll_wait: a readable node wins over the deadline, which is only looked
\* at (n == 0) when nothing is readable.
PollReadable ==
    /\ pc = "wait" /\ queue # <<>> /\ pc' = "readable"
    /\ UNCHANGED <<env, queue, lit, decoder, history>>

PollTimeout_deadline_first ==
    /\ pc = "wait"
    /\ held # NoKey /\ pending /\ now >= due_ms
    /\ pc' = "timeout"
    /\ UNCHANGED <<env, queue, lit, decoder, history>>
PollTimeout_repeat_only ==
    /\ pc = "wait" /\ queue = <<>>
    /\ held_repeats /\ held # NoKey /\ pending /\ now >= due_ms
    /\ pc' = "timeout"
    /\ UNCHANGED <<env, queue, lit, decoder, history>>
PollTimeout ==
    /\ pc = "wait" /\ queue = <<>>
    /\ held # NoKey /\ pending /\ now >= due_ms
    /\ pc' = "timeout"
    /\ UNCHANGED <<env, queue, lit, decoder, history>>

\* A dark panel is woken and swallows the key, unless it is a hold.
wake_guard(is_hold) == lit \/ is_hold

\* keys_deliver with the token it hands over: '.', 'm' or a volume step.
\* display_on() writes a positive level, so the display ends up lit; only a
\* '.' that no panel takes (keys_client < 0 or a failed write) toggles it off.
keys_deliver(code, is_hold) ==
    LET token == wake_guard(is_hold) IN
    /\ lit' \in BOOLEAN
    /\ ~lit' => token /\ code = Power /\ ~is_hold
    /\ acted' = TRUE
    /\ clicks' = IF token /\ code = Power /\ ~is_hold THEN clicks + 1 ELSE clicks
    /\ holds' = IF token /\ code = Power /\ is_hold THEN holds + 1 ELSE holds
    /\ stepped' = IF code \in Volumes THEN now ELSE stepped

\* keys_timeout of a volume key: the next step is due repeat_ms from now.
RepeatStep_catchup ==
    /\ due_ms' = due_ms + RepeatMs
    /\ keys_deliver(held, FALSE)
    /\ UNCHANGED <<held, held_repeats, announced, pending, since, lifted, lost>>
RepeatStep ==
    /\ due_ms' = now + RepeatMs
    /\ keys_deliver(held, FALSE)
    /\ UNCHANGED <<held, held_repeats, announced, pending, since, lifted, lost>>

\* keys_timeout of the power key: the hold, announced while it is down.
AnnounceHold ==
    /\ announced' = TRUE /\ pending' = FALSE
    /\ keys_deliver(held, TRUE)
    /\ UNCHANGED <<held, held_repeats, due_ms, since, lifted, lost>>

\* keys_timeout.  Its early return (nothing held, nothing pending) is a guard:
\* epoll_wait has a timeout only while both hold, and only this loop clears them.
keys_timeout ==
    /\ pc = "timeout" /\ pc' = "wait"
    /\ held # NoKey /\ pending
    /\ \/ held_repeats /\ RepeatStep
       \/ ~held_repeats /\ AnnounceHold
    /\ UNCHANGED <<env, queue>>

\* When the finger left key k, as far as the buffer b tells: the time of the
\* first release in it.
LiftedIn(b, k) ==
    LET rel == {i \in 1..Len(b) : b[i].code = k /\ b[i].value = 0}
    IN  IF rel = {} THEN {Never}
        ELSE {b[i].time : i \in {m \in rel : \A j \in rel : m <= j}}

\* The history of a press that is decoded now.  What came after it is still in
\* the buffer: an overflow would have thrown the press away too.
Fresh(ev) ==
    /\ lifted' \in LiftedIn(Tail(queue), ev.code)
    /\ since' = ev.time /\ clicks' = 0 /\ holds' = 0 /\ lost' = FALSE
    /\ acted' = (ev.code \in Volumes)
    /\ stepped' = IF ev.code \in Volumes THEN now ELSE stepped

\* value 1.  A volume key is delivered at once, which lights a dark panel.
Press_stale_announced(ev) ==
    /\ ev.code \in {Power} \cup Volumes /\ ev.value = 1
    /\ held' = ev.code /\ held_repeats' = (ev.code \in Volumes)
    /\ pending' = TRUE /\ due_ms' = now + HoldMs
    /\ lit' = (lit \/ ev.code \in Volumes)
    /\ Fresh(ev) /\ UNCHANGED announced
Press(ev) ==
    /\ ev.code \in {Power} \cup Volumes /\ ev.value = 1
    /\ held' = ev.code /\ held_repeats' = (ev.code \in Volumes)
    /\ announced' = FALSE /\ pending' = TRUE /\ due_ms' = now + HoldMs
    /\ lit' = (lit \/ ev.code \in Volumes)
    /\ Fresh(ev)

\* value 0 of the key that is held.
Release_click_always(ev) ==
    /\ ev.code \in {Power} \cup Volumes /\ ev.value = 0 /\ ev.code = held
    /\ IF ~held_repeats
       THEN keys_deliver(held, FALSE)
       ELSE UNCHANGED <<lit, clicks, holds, acted, stepped>>
    /\ held' = NoKey /\ pending' = FALSE /\ lifted' = Never
    /\ UNCHANGED <<held_repeats, announced, due_ms, since, lost>>
Release_keeps_held(ev) ==
    /\ ev.code \in {Power} \cup Volumes /\ ev.value = 0 /\ ev.code = held
    /\ IF ~held_repeats /\ ~announced
       THEN keys_deliver(held, FALSE)
       ELSE UNCHANGED <<lit, clicks, holds, acted, stepped>>
    /\ pending' = FALSE /\ lifted' = Never
    /\ UNCHANGED <<held, held_repeats, announced, due_ms, since, lost>>
Release(ev) ==
    /\ ev.code \in {Power} \cup Volumes /\ ev.value = 0 /\ ev.code = held
    /\ IF ~held_repeats /\ ~announced
       THEN keys_deliver(held, FALSE)
       ELSE UNCHANGED <<lit, clicks, holds, acted, stepped>>
    /\ held' = NoKey /\ pending' = FALSE /\ lifted' = Never
    /\ UNCHANGED <<held_repeats, announced, due_ms, since, lost>>

\* SYN_DROPPED, other codes, autorepeat, the release of a key not held.
Ignore(ev) ==
    /\ \/ ev.code \notin {Power} \cup Volumes
       \/ ev.value = 2
       \/ ev.value = 0 /\ ev.code # held
    /\ UNCHANGED <<lit, decoder, history>>

keys_readable ==
    /\ pc = "readable" /\ pc' = "wait"
    /\ queue # <<>> /\ queue' = Tail(queue)
    /\ Press(Head(queue)) \/ Release(Head(queue)) \/ Ignore(Head(queue))
    /\ UNCHANGED env

\* The daemon stops (signal, end of the fifo, crash) and systemd starts it
\* again: a new evdev client starts with an empty buffer, the key that was
\* down when it stopped is not known to it.
Restart ==
    /\ pc' = "wait" /\ queue' = <<>>
    /\ held' = NoKey /\ held_repeats' = FALSE
    /\ announced' = FALSE /\ pending' = FALSE /\ due_ms' = 0
    /\ since' = 0 /\ clicks' = 0 /\ holds' = 0
    /\ acted' = FALSE /\ stepped' = 0 /\ lifted' = Never /\ lost' = FALSE
    /\ UNCHANGED <<env, lit>>

Daemon == PollReadable \/ PollTimeout \/ keys_timeout \/ keys_readable

Next ==
    \/ \E k \in Keys : KeyDown(k) \/ KeyUp(k) \/ Autorepeat(k)
    \/ Tick \/ LitElsewhere
    \/ Daemon
    \/ Restart

Spec == Init /\ [][Next]_vars

\* The daemon is a process the kernel schedules; nothing else is promised.
FairSpec == Spec /\ WF_vars(Daemon)

-----------------------------------------------------------------------------
(***************************************************************************)
(* Properties.                                                             *)
(***************************************************************************)

FlagsOK ==
    /\ lit \in BOOLEAN /\ held_repeats \in BOOLEAN /\ announced \in BOOLEAN
    /\ pending \in BOOLEAN /\ acted \in BOOLEAN /\ lost \in BOOLEAN

TypeOK ==
    /\ FlagsOK
    /\ now \in Nat /\ edges \in Nat /\ down \subseteq Keys
    /\ queue \in Seq(Events)
    /\ pc \in {"wait", "readable", "timeout"}
    /\ held \in {NoKey, Power} \cup Volumes
    /\ due_ms \in Nat
    /\ lifted \in Nat \cup {Never}
    /\ since \in Nat /\ clicks \in Nat /\ holds \in Nat /\ stepped \in Nat

\* One press is a click or a hold, never both and neither twice, whatever the
\* order of deadlines, releases and other keys.
ClickXorHold == clicks + holds <= 1

\* The buffer holds a release of k at position j or later.
ReleasedFrom(j, k) ==
    \E i \in j..Len(queue) : queue[i].code = k /\ queue[i].value = 0

\* The decoder only goes on believing a key is held while the finger is on it
\* or its release is still to be read: a volume key does not repeat by itself.
\* Events evdev dropped are the exception, until the next press is decoded.
HeldIsHeld ==
    held # NoKey /\ ~lost => held \in down \/ ReleasedFrom(1, held)

\* A press shorter than hold_ms is not announced as a hold, however late the
\* loop runs: the finger is still on the key, or left it past the threshold.
\* As for HeldIsHeld, a press that lost events to an overflow is the exception:
\* its release may be among them, and the decoder does not look for SYN_DROPPED.
ShortPressIsNoHold ==
    [][holds' > holds /\ ~lost => lifted = Never \/ lifted >= since + HoldMs]_vars

\* Steps of a held volume key are at least min(hold_ms, repeat_ms) apart: a
\* loop that was held up does not catch up with a burst.
NoBurst ==
    [][keys_timeout /\ held \in Volumes
        => now >= stepped + RepeatMs \/ now >= stepped + HoldMs]_vars

\* A press decoded from beginning to end has acted: it clicked, opened the
\* menu, stepped, or woke a dark panel.
PressActs == [][keys_readable /\ held # NoKey /\ held' = NoKey => acted']_vars

\* A deadline that has passed is served, or the press ends.
DeadlineServed ==
    (pending /\ now >= due_ms) ~> (~pending \/ now < due_ms)

-----------------------------------------------------------------------------
(***************************************************************************)
(* The inductive invariant the proofs use.                                 *)
(***************************************************************************)

\* What the current press has produced follows from the decoder's flags.
OutcomeInv ==
    /\ ClickXorHold
    /\ held # NoKey =>
        /\ clicks = 0
        /\ held_repeats <=> held \in Volumes
        /\ holds = IF announced THEN 1 ELSE 0
        /\ announced => ~pending
        /\ held_repeats => ~announced
        /\ held_repeats \/ announced => acted
        /\ held_repeats => pending

\* Every press in the buffer is of a key still down, or its release follows.
QueueInv ==
    \A i \in 1..Len(queue) :
        /\ queue[i].time <= now
        /\ queue[i].value = 1 =>
            queue[i].code \in down \/ ReleasedFrom(i + 1, queue[i].code)

\* The deadline of a hold is no earlier than the press plus hold_ms, and once
\* it was found to have passed no unread release can be older than that.
DeadlineInv ==
    /\ held = Power /\ pending => due_ms >= since + HoldMs
    /\ held \in Volumes =>
        due_ms >= stepped + RepeatMs \/ due_ms >= stepped + HoldMs
    /\ pc = "timeout" =>
        /\ held # NoKey /\ pending /\ now >= due_ms
        /\ held = Power =>
            \A i \in 1..Len(queue) :
                queue[i].code = held /\ queue[i].value = 0
                    => queue[i].time >= since + HoldMs

\* Short of an overflow, the release that ends the press in `held' is in the
\* buffer until it is decoded.
LiftedInv ==
    held # NoKey /\ ~lost /\ lifted # Never =>
        \E i \in 1..Len(queue) :
            queue[i].code = held /\ queue[i].value = 0 /\ queue[i].time = lifted

IInv == TypeOK /\ OutcomeInv /\ HeldIsHeld /\ QueueInv /\ DeadlineInv /\ LiftedInv
=============================================================================

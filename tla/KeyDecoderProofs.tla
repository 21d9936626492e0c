-------------------------- MODULE KeyDecoderProofs --------------------------
(***************************************************************************)
(* Proofs about the key decoder, for every keypad, threshold, repeat       *)
(* period and buffer size.                                                 *)
(***************************************************************************)
EXTENDS KeyDecoder, TLAPS

LEMMA PairIsSeq ==
    ASSUME NEW S, NEW a \in S, NEW b \in S
    PROVE  <<a, b>> \in Seq(S)
  OBVIOUS

\* The steps of the keypad: a key goes down, comes up or autorepeats.
KeypadStep == \E k \in Keys : KeyDown(k) \/ KeyUp(k) \/ Autorepeat(k)

\* All a keypad step does: one transition, and its event handed to evdev.
Posted(k, v) ==
    /\ Post(Event(k, v)) /\ Event(k, v) \in Events
    /\ edges' = edges + 1
    /\ v = 1 => down' = down \cup {k}
    /\ v = 0 => down' = down \ {k}
    /\ v = 2 => down' = down
    /\ lifted' = IF v = 0 /\ k = held /\ lifted = Never THEN now ELSE lifted
    /\ UNCHANGED <<now, lit, pc, held, held_repeats, announced, pending,
                   due_ms, since, clicks, holds, acted, stepped>>

LEMMA KeypadPosts ==
    ASSUME TypeOK, KeypadStep
    PROVE  \E k \in Keys, v \in 0..2 : Posted(k, v)
  <1>1. PICK k \in Keys : KeyDown(k) \/ KeyUp(k) \/ Autorepeat(k)
    BY DEF KeypadStep
  <1>2. \A v \in 0..2 : Event(k, v) \in Events
    BY DEF Event, Events, TypeOK
  <1>3. CASE KeyDown(k)
    BY <1>2, <1>3 DEF KeyDown, decoder, Posted
  <1>4. CASE KeyUp(k)
    BY <1>2, <1>4 DEF KeyUp, decoder, Posted
  <1>5. CASE Autorepeat(k)
    BY <1>2, <1>5 DEF Autorepeat, decoder, Posted
  <1> QED
    BY <1>1, <1>3, <1>4, <1>5

-----------------------------------------------------------------------------
(***************************************************************************)
(* Types.                                                                  *)
(***************************************************************************)

\* Flags stay flags.
LEMMA FlagsStep == FlagsOK /\ [Next]_vars => FlagsOK'
  <1> SUFFICES ASSUME FlagsOK PROVE [Next]_vars => FlagsOK'
    OBVIOUS
  <1>1. ASSUME NEW k \in Keys, KeyDown(k) \/ KeyUp(k) \/ Autorepeat(k)
        PROVE  FlagsOK'
    BY <1>1 DEF KeyDown, KeyUp, Autorepeat, Post, FlagsOK, decoder
  <1>2. CASE Tick \/ LitElsewhere
    BY <1>2 DEF Tick, LitElsewhere, FlagsOK, decoder, history
  <1>3. CASE PollReadable \/ PollTimeout
    BY <1>3 DEF PollReadable, PollTimeout, FlagsOK, decoder, history
  <1>4. CASE RepeatStep
    BY <1>4 DEF RepeatStep, keys_deliver, FlagsOK
  <1>10. CASE AnnounceHold
    BY <1>10 DEF AnnounceHold, keys_deliver, FlagsOK
  <1>5. ASSUME NEW e, Press(e) PROVE FlagsOK'
    <2>1. held_repeats' \in BOOLEAN
      BY <1>5 DEF Press
    <2>2. acted' \in BOOLEAN
      BY <1>5 DEF Press, Fresh
    <2>3. lit' \in BOOLEAN
      BY <1>5 DEF Press
    <2>4. announced' \in BOOLEAN /\ pending' \in BOOLEAN /\ lost' \in BOOLEAN
      BY <1>5 DEF Press, Fresh
    <2> QED
      BY <2>1, <2>2, <2>3, <2>4 DEF FlagsOK
  <1>6. ASSUME NEW e, Release(e) PROVE FlagsOK'
    BY <1>6 DEF Release, keys_deliver, FlagsOK
  <1>7. ASSUME NEW e, Ignore(e) PROVE FlagsOK'
    BY <1>7 DEF Ignore, FlagsOK, decoder, history
  <1>8. CASE Restart
    BY <1>8 DEF Restart, FlagsOK
  <1>9. CASE UNCHANGED vars
    BY <1>9 DEF vars, FlagsOK, decoder, history
  <1> QED
    BY <1>1, <1>2, <1>3, <1>4, <1>5, <1>6, <1>7, <1>8, <1>9, <1>10
       DEF Next, Daemon, keys_timeout, keys_readable

\* TypeOK is inductive.
LEMMA TypeStep == TypeOK /\ [Next]_vars => TypeOK'
  <1> SUFFICES ASSUME TypeOK, FlagsOK' PROVE [Next]_vars => TypeOK'
    BY FlagsStep DEF TypeOK
  <1>1. CASE KeypadStep
    <2>1. PICK k \in Keys, v \in 0..2 : Posted(k, v)
      BY <1>1, KeypadPosts
    <2>2. Event(SynDropped, 0) \in Events
      BY DEF Event, Events, TypeOK
    <2>3. <<Event(SynDropped, 0), Event(k, v)>> \in Seq(Events)
      BY <2>1, <2>2, PairIsSeq DEF Posted
    <2>4. queue' \in Seq(Events)
      <3>1. \/ queue' = Append(queue, Event(k, v))
            \/ queue' = <<Event(SynDropped, 0), Event(k, v)>>
        BY <2>1 DEF Posted, Post
      <3>2. Append(queue, Event(k, v)) \in Seq(Events)
        BY <2>1 DEF Posted, TypeOK
      <3> QED
        BY <2>3, <3>1, <3>2
    <2>5. down' \subseteq Keys
      <3>1. v = 0 \/ v = 1 \/ v = 2
        OBVIOUS
      <3> QED
        BY <2>1, <3>1 DEF Posted, TypeOK
    <2>6. now' \in Nat /\ edges' \in Nat /\ due_ms' \in Nat /\ since' \in Nat
          /\ clicks' \in Nat /\ holds' \in Nat /\ stepped' \in Nat
          /\ lifted' \in Nat \cup {Never}
      BY <2>1 DEF Posted, TypeOK
    <2> QED
      BY <2>1, <2>4, <2>5, <2>6 DEF Posted, TypeOK
  <1>2. CASE Tick \/ LitElsewhere
    BY <1>2 DEF Tick, LitElsewhere, TypeOK, env, decoder, history
  <1>3. CASE PollReadable \/ PollTimeout
    BY <1>3 DEF PollReadable, PollTimeout, TypeOK, env, decoder, history
  <1>4. CASE keys_timeout
    <2>1. pc' = "wait" /\ UNCHANGED <<env, queue>>
      BY <1>4 DEF keys_timeout
    <2>2. CASE RepeatStep
      BY <2>1, <2>2, ConstantsAssumption DEF RepeatStep, keys_deliver, wake_guard, TypeOK, env
    <2>3. CASE AnnounceHold
      BY <2>1, <2>3 DEF AnnounceHold, keys_deliver, wake_guard, TypeOK, env
    <2> QED
      BY <1>4, <2>2, <2>3 DEF keys_timeout
  <1>5. CASE keys_readable
    <2> DEFINE ev == Head(queue)
    <2>1. ev \in Events /\ queue' \in Seq(Events)
      BY <1>5 DEF keys_readable, TypeOK
    <2>2. pc' = "wait" /\ UNCHANGED env
      BY <1>5 DEF keys_readable
    <2>3. CASE Press(ev)
      <3>1. lifted' \in Nat \cup {Never}
        <4>1. Tail(queue) \in Seq(Events) /\ lifted' \in LiftedIn(Tail(queue), ev.code)
          BY <1>5, <2>3 DEF keys_readable, TypeOK, Press, Fresh
        <4>2. \A i \in 1..Len(Tail(queue)) : Tail(queue)[i].time \in Nat
          <5>1. \A i \in 1..Len(Tail(queue)) : Tail(queue)[i] \in Events
            BY <4>1
          <5> QED
            BY <5>1 DEF Events
        <4>3. \A x \in LiftedIn(Tail(queue), ev.code) :
                 x # Never => \E i \in 1..Len(Tail(queue)) : x = Tail(queue)[i].time
          BY Zenon DEF LiftedIn
        <4> QED
          BY <4>1, <4>2, <4>3
      <3> QED
        BY <2>1, <2>2, <2>3, <3>1, ConstantsAssumption
           DEF Press, Fresh, TypeOK, env, Events
    <2>4. CASE Release(ev)
      <3>1. /\ held' = NoKey /\ due_ms' = due_ms /\ since' = since /\ lifted' = Never
            /\ clicks' \in Nat /\ holds' \in Nat /\ stepped' \in Nat
        BY <2>4 DEF Release, keys_deliver, wake_guard, TypeOK
      <3> QED
        BY <2>1, <2>2, <3>1 DEF TypeOK, env
    <2>5. CASE Ignore(ev)
      BY <2>1, <2>2, <2>5 DEF Ignore, TypeOK, env, decoder, history
    <2> QED
      BY <1>5, <2>3, <2>4, <2>5 DEF keys_readable
  <1>6. CASE Restart
    BY <1>6 DEF Restart, TypeOK, env
  <1>7. CASE UNCHANGED vars
    BY <1>7 DEF vars, TypeOK, env, decoder, history
  <1> QED
    BY <1>1, <1>2, <1>3, <1>4, <1>5, <1>6, <1>7 DEF Next, Daemon, KeypadStep

-----------------------------------------------------------------------------
(***************************************************************************)
(* The outcome of a press.                                                 *)
(***************************************************************************)

\* No step gives a press a second outcome.
LEMMA OutcomeStep ==
    TypeOK /\ OutcomeInv /\ [Next]_vars => OutcomeInv'
  <1> SUFFICES ASSUME TypeOK, OutcomeInv PROVE [Next]_vars => OutcomeInv'
    OBVIOUS
  <1>1. CASE KeypadStep
    <2>1. PICK k \in Keys, v \in 0..2 : Posted(k, v)
      BY <1>1, KeypadPosts
    <2> QED
      BY <2>1 DEF Posted, OutcomeInv, ClickXorHold
  <1>2. CASE Tick \/ LitElsewhere \/ PollReadable \/ PollTimeout \/ UNCHANGED vars
    BY <1>2 DEF Tick, LitElsewhere, PollReadable, PollTimeout, vars,
                decoder, history, OutcomeInv, ClickXorHold
  <1>3. CASE keys_timeout
    <2>1. held # NoKey /\ pending
      BY <1>3 DEF keys_timeout
    <2>2. CASE held_repeats /\ RepeatStep
      BY <2>1, <2>2, ConstantsAssumption
         DEF RepeatStep, keys_deliver, wake_guard, OutcomeInv, ClickXorHold, TypeOK, Keys
    <2>3. CASE ~held_repeats /\ AnnounceHold
      BY <2>1, <2>3, ConstantsAssumption
         DEF AnnounceHold, keys_deliver, wake_guard, OutcomeInv, ClickXorHold, TypeOK, Keys
    <2> QED
      BY <1>3, <2>2, <2>3 DEF keys_timeout
  <1>4. CASE keys_readable
    <2> DEFINE ev == Head(queue)
    <2>1. CASE Press(ev)
      <3>1. ~announced' /\ pending'
        BY <2>1 DEF Press
      <3>2. clicks' = 0 /\ holds' = 0
        BY <2>1 DEF Press, Fresh
      <3>3. held_repeats' <=> held' \in Volumes
        BY <2>1 DEF Press
      <3>4. acted' <=> held' \in Volumes
        BY <2>1 DEF Press, Fresh
      <3> QED
        BY <3>1, <3>2, <3>3, <3>4 DEF OutcomeInv, ClickXorHold
    <2>2. CASE Release(ev)
      BY <2>2, ConstantsAssumption
         DEF Release, keys_deliver, wake_guard, OutcomeInv, ClickXorHold, TypeOK, Keys
    <2>3. CASE Ignore(ev)
      BY <2>3 DEF Ignore, decoder, history, OutcomeInv, ClickXorHold
    <2> QED
      BY <1>4, <2>1, <2>2, <2>3 DEF keys_readable
  <1>5. CASE Restart
    BY <1>5 DEF Restart, OutcomeInv, ClickXorHold
  <1> QED
    BY <1>1, <1>2, <1>3, <1>4, <1>5 DEF Next, Daemon, KeypadStep

-----------------------------------------------------------------------------
(***************************************************************************)
(* What the buffer says about the keys.                                    *)
(***************************************************************************)

\* Reading the oldest event moves the others down by one.
LEMMA TailShifts ==
    ASSUME NEW q \in Seq(Events), q # <<>>
    PROVE  /\ Len(Tail(q)) = Len(q) - 1
           /\ \A i \in 1..Len(Tail(q)) : Tail(q)[i] = q[i + 1]
           /\ Head(q) = q[1] /\ Len(q) \in Nat \ {0}
  OBVIOUS

\* Handing over an event keeps those before it, unless the buffer overflows.
LEMMA AppendKeeps ==
    ASSUME NEW q \in Seq(Events), NEW e \in Events
    PROVE  /\ Len(Append(q, e)) = Len(q) + 1 /\ Len(q) \in Nat
           /\ \A i \in 1..Len(q) : Append(q, e)[i] = q[i]
           /\ Append(q, e)[Len(q) + 1] = e
  OBVIOUS

\* A keypad step keeps both the buffer's and the decoder's view of the keys.
LEMMA KeypadKeepsQueue ==
    ASSUME TypeOK, HeldIsHeld, QueueInv, KeypadStep
    PROVE  HeldIsHeld' /\ QueueInv'
  <1>1. PICK k \in Keys, v \in 0..2 : Posted(k, v)
    BY KeypadPosts
  <1> DEFINE e == Event(k, v)
  <1>2. e \in Events /\ e.code = k /\ e.value = v /\ e.time = now
    BY <1>1 DEF Posted, Event
  <1>3. now' = now /\ held' = held /\ now \in Nat
    BY <1>1 DEF Posted, TypeOK
  <1>4. (v = 1 => k \in down') /\ (\A x \in down : x \in down' \/ (x = k /\ v = 0))
    <2>1. v = 0 \/ v = 1 \/ v = 2
      OBVIOUS
    <2> QED
      BY <1>1, <2>1 DEF Posted
  <1>5. CASE queue' = Append(queue, e) /\ lost' = lost
    <2>1. /\ Len(queue') = Len(queue) + 1 /\ Len(queue) \in Nat
          /\ \A i \in 1..Len(queue) : queue'[i] = queue[i]
          /\ queue'[Len(queue) + 1] = e
      BY <1>2, <1>5, AppendKeeps DEF TypeOK
    <2>2. ASSUME NEW j \in Nat \ {0}, j <= Len(queue) + 1, NEW x,
                 x \in down \/ ReleasedFrom(j, x)
          PROVE  x \in down' \/ ReleasedFrom(j, x)'
      <3>1. CASE x = k /\ v = 0
        BY <1>2, <2>1, <2>2, <3>1 DEF ReleasedFrom
      <3>2. CASE ReleasedFrom(j, x)
        BY <2>1, <2>2, <3>2 DEF ReleasedFrom
      <3> QED
        BY <1>4, <2>2, <3>1, <3>2
    <2>3. HeldIsHeld'
      BY <1>3, <1>5, <2>1, <2>2 DEF HeldIsHeld
    <2>4. QueueInv'
      <3> SUFFICES ASSUME NEW i \in 1..Len(queue')
                   PROVE  /\ queue'[i].time <= now'
                          /\ queue'[i].value = 1 =>
                              queue'[i].code \in down'
                              \/ ReleasedFrom(i + 1, queue[i].code)'
        BY DEF QueueInv
      <3>1. CASE i = Len(queue) + 1
        BY <1>2, <1>3, <1>4, <2>1, <3>1
      <3>2. CASE i \in 1..Len(queue)
        <4>1. queue'[i] = queue[i] /\ queue[i].time <= now'
          BY <1>3, <2>1, <3>2 DEF QueueInv
        <4>2. ASSUME queue[i].value = 1
              PROVE  queue[i].code \in down' \/ ReleasedFrom(i + 1, queue[i].code)'
          <5>1. queue[i].code \in down \/ ReleasedFrom(i + 1, queue[i].code)
            BY <3>2, <4>2 DEF QueueInv
          <5>2. CASE queue[i].code = k /\ v = 0
            BY <1>2, <2>1, <3>2, <4>1, <5>2 DEF ReleasedFrom
          <5>3. CASE ReleasedFrom(i + 1, queue[i].code)
            BY <2>1, <3>2, <4>1, <5>3 DEF ReleasedFrom
          <5> QED
            BY <1>4, <5>1, <5>2, <5>3
        <4> QED
          BY <4>1, <4>2
      <3> QED
        BY <2>1, <3>1, <3>2
    <2> QED
      BY <2>3, <2>4
  <1>6. CASE queue' = <<Event(SynDropped, 0), e>> /\ lost'
    <2>1. HeldIsHeld'
      BY <1>6 DEF HeldIsHeld
    <2>2. /\ Len(queue') = 2 /\ queue'[2] = e
          /\ queue'[1].value = 0 /\ queue'[1].time = now
      BY <1>6 DEF Event
    <2>3. QueueInv'
      BY <1>2, <1>3, <1>4, <2>2 DEF QueueInv
    <2> QED
      BY <2>1, <2>3
  <1> QED
    BY <1>1, <1>5, <1>6 DEF Posted, Post

\* So does every other step.
LEMMA QueueStep ==
    TypeOK /\ HeldIsHeld /\ QueueInv /\ [Next]_vars => HeldIsHeld' /\ QueueInv'
  <1> SUFFICES ASSUME TypeOK, HeldIsHeld, QueueInv
               PROVE  [Next]_vars => HeldIsHeld' /\ QueueInv'
    OBVIOUS
  <1>1. CASE KeypadStep
    BY <1>1, KeypadKeepsQueue
  <1>2. CASE Tick
    <2>1. now' = now + 1 /\ UNCHANGED <<down, queue, held, lost>>
      BY <1>2 DEF Tick, decoder, history
    <2>2. \A i \in 1..Len(queue) : queue[i].time \in Nat
      <3>1. \A i \in 1..Len(queue) : queue[i] \in Events
        BY DEF TypeOK
      <3> QED
        BY <3>1 DEF Events
    <2>3. \A i \in 1..Len(queue) : queue[i].time <= now + 1
      BY <2>2 DEF QueueInv, TypeOK
    <2>4. QueueInv'
      BY <2>1, <2>3 DEF QueueInv, ReleasedFrom
    <2> QED
      BY <2>1, <2>4 DEF HeldIsHeld, ReleasedFrom
  <1>3. CASE UNCHANGED <<now, down, queue, held, lost>>
    BY <1>3 DEF HeldIsHeld, QueueInv, ReleasedFrom
  <1>4. CASE LitElsewhere \/ PollReadable \/ PollTimeout \/ UNCHANGED vars
    BY <1>3, <1>4 DEF LitElsewhere, PollReadable, PollTimeout, vars, env,
                      decoder, history
  <1>5. CASE keys_timeout
    BY <1>3, <1>5 DEF keys_timeout, RepeatStep, AnnounceHold, env
  <1>6. CASE keys_readable
    <2> DEFINE ev == Head(queue)
    <2>1. queue # <<>> /\ queue' = Tail(queue) /\ UNCHANGED <<now, down>>
      BY <1>6 DEF keys_readable, env
    <2>2. /\ Len(queue') = Len(queue) - 1 /\ Len(queue) \in Nat \ {0}
          /\ \A i \in 1..Len(queue') : queue'[i] = queue[i + 1]
          /\ ev = queue[1]
      BY <2>1, TailShifts DEF TypeOK
    <2>3. QueueInv'
      <3> SUFFICES ASSUME NEW i \in 1..Len(queue')
                   PROVE  /\ queue'[i].time <= now'
                          /\ queue'[i].value = 1 =>
                              queue'[i].code \in down'
                              \/ ReleasedFrom(i + 1, queue[i].code)'
        BY DEF QueueInv
      <3>1. i + 1 \in 1..Len(queue) /\ queue'[i] = queue[i + 1]
        BY <2>2
      <3>2. queue'[i].time <= now'
        BY <2>1, <3>1 DEF QueueInv
      <3>3. ASSUME queue'[i].value = 1
            PROVE  queue'[i].code \in down' \/ ReleasedFrom(i + 1, queue[i].code)'
        <4>1. queue[i + 1].code \in down \/ ReleasedFrom(i + 2, queue[i + 1].code)
          BY <3>1, <3>3 DEF QueueInv
        <4>2. CASE ReleasedFrom(i + 2, queue[i + 1].code)
          <5>1. PICK m \in (i + 2)..Len(queue) :
                       queue[m].code = queue[i + 1].code /\ queue[m].value = 0
            BY <4>2 DEF ReleasedFrom
          <5>2. m - 1 \in (i + 1)..Len(queue') /\ queue'[m - 1] = queue[m]
            BY <2>2, <5>1
          <5> QED
            BY <3>1, <5>1, <5>2 DEF ReleasedFrom
        <4> QED
          BY <2>1, <3>1, <4>1, <4>2
      <3> QED
        BY <3>2, <3>3
    <2>4. ASSUME NEW x, ReleasedFrom(2, x) PROVE ReleasedFrom(1, x)'
      <3>1. PICK m \in 2..Len(queue) : queue[m].code = x /\ queue[m].value = 0
        BY <2>4 DEF ReleasedFrom
      <3>2. m - 1 \in 1..Len(queue') /\ queue'[m - 1] = queue[m]
        BY <2>2, <3>1
      <3> QED
        BY <3>1, <3>2 DEF ReleasedFrom
    <2>5. HeldIsHeld'
      <3>1. CASE Press(ev)
        <4>1. held' = queue[1].code /\ queue[1].value = 1
          BY <2>2, <3>1 DEF Press
        <4>2. queue[1].code \in down \/ ReleasedFrom(2, queue[1].code)
          BY <2>2, <4>1 DEF QueueInv
        <4> QED
          BY <2>1, <2>4, <4>1, <4>2 DEF HeldIsHeld, ReleasedFrom
      <3>2. CASE Release(ev)
        BY <3>2 DEF Release, HeldIsHeld
      <3>3. CASE Ignore(ev)
        <4>1. held' = held /\ lost' = lost
          BY <3>3 DEF Ignore, decoder, history
        <4>2. ~(queue[1].code = held /\ queue[1].value = 0 /\ held # NoKey)
          <5>1. held # NoKey => held \in {Power} \cup Volumes
            BY DEF TypeOK
          <5>2. \/ queue[1].code \notin {Power} \cup Volumes
                \/ queue[1].value = 2
                \/ queue[1].code # held
            BY <2>2, <3>3 DEF Ignore
          <5> QED
            BY <5>1, <5>2
        <4>3. ReleasedFrom(1, held) /\ held # NoKey => ReleasedFrom(2, held)
          BY <2>2, <4>2 DEF ReleasedFrom
        <4>4. ReleasedFrom(2, held) =>
                \E i \in 1..Len(queue') : queue'[i].code = held /\ queue'[i].value = 0
          BY <2>4 DEF ReleasedFrom
        <4>5. held # NoKey /\ ~lost => held \in down \/ ReleasedFrom(2, held)
          BY <4>3 DEF HeldIsHeld
        <4> QED
          BY <2>1, <4>1, <4>4, <4>5 DEF HeldIsHeld, ReleasedFrom
      <3> QED
        BY <1>6, <3>1, <3>2, <3>3 DEF keys_readable
    <2> QED
      BY <2>3, <2>5
  <1>7. CASE Restart
    BY <1>7 DEF Restart, HeldIsHeld, QueueInv
  <1> QED
    BY <1>1, <1>2, <1>4, <1>5, <1>6, <1>7 DEF Next, Daemon, KeypadStep

-----------------------------------------------------------------------------
(***************************************************************************)
(* Deadlines.                                                              *)
(***************************************************************************)

\* NoKey and Power are not volume keys.
LEMMA KeysApart == Power \notin Volumes /\ NoKey \notin Volumes /\ NoKey # Power
  BY ConstantsAssumption DEF Keys

\* An event handed over after the deadline passed is not older than the
\* threshold of the hold that is about to be announced.
LEMMA KeypadKeepsDeadline ==
    ASSUME TypeOK, DeadlineInv, KeypadStep
    PROVE  DeadlineInv'
  <1>1. PICK k \in Keys, v \in 0..2 : Posted(k, v)
    BY KeypadPosts
  <1> DEFINE e == Event(k, v)
  <1>2. e \in Events /\ e.code = k /\ e.time = now
    BY <1>1 DEF Posted, Event
  <1>3. UNCHANGED <<now, pc, held, pending, due_ms, since, stepped>>
    BY <1>1 DEF Posted
  <1>4. ASSUME pc = "timeout", held = Power
        PROVE  \A i \in 1..Len(queue') :
                 queue'[i].code = held /\ queue'[i].value = 0
                    => queue'[i].time >= since + HoldMs
    <2>1. now >= since + HoldMs
      BY <1>4, ConstantsAssumption DEF DeadlineInv, TypeOK
    <2>2. CASE queue' = Append(queue, e)
      <3>1. /\ Len(queue') = Len(queue) + 1 /\ Len(queue) \in Nat
            /\ \A i \in 1..Len(queue) : queue'[i] = queue[i]
            /\ queue'[Len(queue) + 1] = e
        BY <1>2, <2>2, AppendKeeps DEF TypeOK
      <3> QED
        BY <1>2, <1>4, <2>1, <3>1 DEF DeadlineInv
    <2>3. CASE queue' = <<Event(SynDropped, 0), e>>
      <3>1. Len(queue') = 2 /\ queue'[2] = e /\ queue'[1].time = now
        BY <2>3 DEF Event
      <3> QED
        BY <1>2, <2>1, <3>1
    <2> QED
      BY <1>1, <2>2, <2>3 DEF Posted, Post
  <1> QED
    BY <1>3, <1>4 DEF DeadlineInv

\* DeadlineInv is kept by every step.
LEMMA DeadlineStep ==
    TypeOK /\ OutcomeInv /\ QueueInv /\ DeadlineInv /\ [Next]_vars => DeadlineInv'
  <1> SUFFICES ASSUME TypeOK, OutcomeInv, QueueInv, DeadlineInv
               PROVE  [Next]_vars => DeadlineInv'
    OBVIOUS
  <1>1. CASE KeypadStep
    BY <1>1, KeypadKeepsDeadline
  <1>2. CASE Tick
    <2>1. now' = now + 1 /\ UNCHANGED <<queue, pc, held, pending, due_ms, since, stepped>>
      BY <1>2 DEF Tick, decoder, history
    <2> QED
      BY <2>1 DEF DeadlineInv, TypeOK
  <1>3. CASE UNCHANGED <<now, queue, pc, held, pending, due_ms, since, stepped>>
    BY <1>3 DEF DeadlineInv
  <1>4. CASE LitElsewhere \/ UNCHANGED vars
    BY <1>3, <1>4 DEF LitElsewhere, vars, env, decoder, history
  <1>5. CASE PollReadable \/ PollTimeout
    BY <1>5 DEF PollReadable, PollTimeout, env, decoder, history, DeadlineInv
  <1>6. CASE keys_timeout
    <2>1. held # NoKey /\ pc' = "wait" /\ (held_repeats <=> held \in Volumes)
      BY <1>6 DEF keys_timeout, OutcomeInv
    <2>2. CASE held_repeats /\ RepeatStep
      <3>1. held \in Volumes /\ held # Power
        BY <2>1, <2>2, KeysApart
      <3>2. held' = held /\ due_ms' = now + RepeatMs /\ stepped' = now
        BY <2>2, <3>1 DEF RepeatStep, keys_deliver
      <3> QED
        BY <2>1, <3>1, <3>2, ConstantsAssumption DEF DeadlineInv, TypeOK
    <2>3. CASE ~held_repeats /\ AnnounceHold
      <3>1. held \notin Volumes
        BY <2>1, <2>3
      <3>2. held' = held /\ ~pending'
        BY <2>3 DEF AnnounceHold
      <3> QED
        BY <2>1, <3>1, <3>2 DEF DeadlineInv
    <2> QED
      BY <1>6, <2>2, <2>3 DEF keys_timeout
  <1>7. CASE keys_readable
    <2> DEFINE ev == Head(queue)
    <2>1. pc' = "wait" /\ queue # <<>>
      BY <1>7 DEF keys_readable
    <2>2. ev.time \in Nat /\ ev.time <= now
      <3>1. ev = queue[1] /\ Len(queue) \in Nat \ {0} /\ ev \in Events
        BY <2>1, TailShifts DEF TypeOK
      <3> QED
        BY <3>1 DEF QueueInv, Events
    <2>3. CASE Press(ev)
      <3>1. held' = ev.code /\ due_ms' = now + HoldMs /\ since' = ev.time
            /\ (ev.code \in Volumes => stepped' = now)
        BY <2>3 DEF Press, Fresh
      <3> QED
        BY <2>1, <2>2, <3>1, ConstantsAssumption DEF DeadlineInv, TypeOK
    <2>4. CASE Release(ev)
      BY <2>1, <2>4, KeysApart DEF Release, DeadlineInv
    <2>5. CASE Ignore(ev)
      BY <2>1, <2>5 DEF Ignore, decoder, history, DeadlineInv
    <2> QED
      BY <1>7, <2>3, <2>4, <2>5 DEF keys_readable
  <1>8. CASE Restart
    BY <1>8, KeysApart DEF Restart, DeadlineInv
  <1> QED
    BY <1>1, <1>2, <1>4, <1>5, <1>6, <1>7, <1>8 DEF Next, Daemon, KeypadStep

-----------------------------------------------------------------------------
(***************************************************************************)
(* The release of the press that is held.                                  *)
(***************************************************************************)

\* The buffer q holds a release of k from time t.
ReleasedAt(q, k, t) ==
    \E i \in 1..Len(q) : q[i].code = k /\ q[i].value = 0 /\ q[i].time = t

\* A time that was read off the buffer is the time of a release in it.
LEMMA LiftedIsReleased ==
    ASSUME NEW q, NEW k, NEW t \in LiftedIn(q, k), t # Never
    PROVE  ReleasedAt(q, k, t)
  BY Zenon DEF LiftedIn, ReleasedAt

\* LiftedInv is kept by every step.
LEMMA LiftedStep ==
    TypeOK /\ LiftedInv /\ [Next]_vars => LiftedInv'
  <1> SUFFICES ASSUME TypeOK, LiftedInv PROVE [Next]_vars => LiftedInv'
    OBVIOUS
  <1>0. LiftedInv <=> (held # NoKey /\ ~lost /\ lifted # Never
                         => ReleasedAt(queue, held, lifted))
    BY DEF LiftedInv, ReleasedAt
  <1>1. CASE KeypadStep
    <2>1. PICK k \in Keys, v \in 0..2 : Posted(k, v)
      BY <1>1, KeypadPosts
    <2> DEFINE e == Event(k, v)
    <2>2. e \in Events /\ e.code = k /\ e.value = v /\ e.time = now /\ held' = held
      BY <2>1 DEF Posted, Event
    <2>3. CASE queue' = Append(queue, e) /\ lost' = lost
      <3>1. /\ Len(queue') = Len(queue) + 1 /\ Len(queue) \in Nat
            /\ \A i \in 1..Len(queue) : queue'[i] = queue[i]
            /\ queue'[Len(queue) + 1] = e
        BY <2>2, <2>3, AppendKeeps DEF TypeOK
      <3>2. CASE lifted' = lifted
        BY <1>0, <2>2, <2>3, <3>1, <3>2 DEF LiftedInv, ReleasedAt
      <3>3. CASE v = 0 /\ k = held /\ lifted' = now
        BY <2>2, <3>1, <3>3 DEF LiftedInv
      <3> QED
        BY <2>1, <3>2, <3>3 DEF Posted
    <2>4. CASE lost'
      BY <2>4 DEF LiftedInv
    <2> QED
      BY <2>1, <2>3, <2>4 DEF Posted, Post
  <1>2. CASE UNCHANGED <<queue, held, lifted, lost>>
    BY <1>2 DEF LiftedInv
  <1>3. CASE Tick \/ LitElsewhere \/ PollReadable \/ PollTimeout \/ UNCHANGED vars
    BY <1>2, <1>3 DEF Tick, LitElsewhere, PollReadable, PollTimeout, vars,
                      decoder, history
  <1>4. CASE keys_timeout
    BY <1>2, <1>4 DEF keys_timeout, RepeatStep, AnnounceHold
  <1>5. CASE keys_readable
    <2> DEFINE ev == Head(queue)
    <2>1. queue # <<>> /\ queue' = Tail(queue)
      BY <1>5 DEF keys_readable
    <2>2. CASE Press(ev)
      <3>1. held' = ev.code /\ lifted' \in LiftedIn(queue', ev.code)
        BY <2>1, <2>2 DEF Press, Fresh
      <3>2. lifted' # Never => ReleasedAt(queue', held', lifted')
        BY <3>1, LiftedIsReleased
      <3> QED
        BY <3>2 DEF LiftedInv, ReleasedAt
    <2>3. CASE Release(ev)
      BY <2>3 DEF Release, LiftedInv
    <2>4. CASE Ignore(ev)
      <3>1. UNCHANGED <<held, lifted, lost>>
        BY <2>4 DEF Ignore, decoder, history
      <3>2. /\ Len(queue') = Len(queue) - 1 /\ Len(queue) \in Nat \ {0}
            /\ \A i \in 1..Len(queue') : queue'[i] = queue[i + 1]
            /\ ev = queue[1]
        BY <2>1, TailShifts DEF TypeOK
      <3>3. held # NoKey => ~(queue[1].code = held /\ queue[1].value = 0)
        <4>1. held # NoKey => held \in {Power} \cup Volumes
          BY DEF TypeOK
        <4> QED
          BY <2>4, <3>2, <4>1 DEF Ignore
      <3>4. ASSUME held # NoKey, ReleasedAt(queue, held, lifted)
            PROVE  ReleasedAt(queue', held, lifted)
        <4>1. PICK m \in 1..Len(queue) : queue[m].code = held /\ queue[m].value = 0
                                         /\ queue[m].time = lifted
          BY <3>4 DEF ReleasedAt
        <4>2. m - 1 \in 1..Len(queue') /\ queue'[m - 1] = queue[m]
          BY <3>2, <3>3, <3>4, <4>1
        <4> QED
          BY <4>1, <4>2 DEF ReleasedAt
      <3> QED
        BY <1>0, <3>1, <3>4 DEF LiftedInv, ReleasedAt
    <2> QED
      BY <1>5, <2>2, <2>3, <2>4 DEF keys_readable
  <1>6. CASE Restart
    BY <1>6 DEF Restart, LiftedInv
  <1> QED
    BY <1>1, <1>3, <1>4, <1>5, <1>6 DEF Next, Daemon, KeypadStep

-----------------------------------------------------------------------------
(***************************************************************************)
(* Theorems.                                                               *)
(***************************************************************************)

LEMMA InitInv == Init => IInv
  <1> SUFFICES ASSUME Init PROVE IInv
    OBVIOUS
  <1>1. FlagsOK
    BY DEF Init, FlagsOK
  <1>2. TypeOK
    BY <1>1 DEF Init, TypeOK
  <1>3. OutcomeInv /\ HeldIsHeld
    BY DEF Init, OutcomeInv, ClickXorHold, HeldIsHeld
  <1>4. QueueInv /\ DeadlineInv
    BY KeysApart DEF Init, QueueInv, DeadlineInv
  <1>5. LiftedInv
    BY DEF Init, LiftedInv
  <1> QED
    BY <1>2, <1>3, <1>4, <1>5 DEF IInv

\* The inductive invariant holds of every behaviour of the decoder.
THEOREM Invariance == Spec => []IInv
  <1>1. Init => IInv
    BY InitInv
  <1>2. IInv /\ [Next]_vars => IInv'
    BY TypeStep, OutcomeStep, QueueStep, DeadlineStep, LiftedStep DEF IInv
  <1> QED
    BY <1>1, <1>2, PTL DEF Spec

\* Every variable of the decoder keeps its type, whatever the keys, the clock
\* and the buffer do.
THEOREM TypeCorrect == Spec => []TypeOK
  <1>1. IInv => TypeOK
    BY DEF IInv
  <1> QED
    BY <1>1, Invariance, PTL

\* keys_timeout and keys_readable never give one press both a click and a hold,
\* nor either of them twice.
THEOREM ClickXorHoldAlways == Spec => []ClickXorHold
  <1>1. IInv => ClickXorHold
    BY DEF IInv, OutcomeInv
  <1> QED
    BY <1>1, Invariance, PTL

\* keys_readable does not lose track of a key: short of evdev dropping events,
\* a key the decoder takes for held is down or its release is waiting.
THEOREM HeldIsHeldAlways == Spec => []HeldIsHeld
  <1>1. IInv => HeldIsHeld
    BY DEF IInv
  <1> QED
    BY <1>1, Invariance, PTL

\* However late the loop serves a deadline, keys_timeout announces no hold for
\* a press that was released before hold_ms, short of evdev dropping events
\* after that press: then the release itself may be lost.
THEOREM ShortPressIsNoHoldAlways == Spec => ShortPressIsNoHold
  <1> DEFINE A == holds' > holds /\ ~lost =>
                    lifted = Never \/ lifted >= since + HoldMs
  <1>1. ASSUME IInv, [Next]_vars PROVE [A]_vars
    <2>1. CASE keys_timeout /\ held = Power
      <3> SUFFICES ASSUME ~lost, lifted # Never PROVE lifted >= since + HoldMs
        OBVIOUS
      <3>1. held # NoKey /\ pc = "timeout"
        BY <2>1 DEF keys_timeout
      <3>2. PICK i \in 1..Len(queue) :
                   queue[i].code = held /\ queue[i].value = 0 /\ queue[i].time = lifted
        BY <1>1, <3>1 DEF IInv, LiftedInv
      <3> QED
        BY <1>1, <2>1, <3>1, <3>2 DEF IInv, DeadlineInv
    <2>2. CASE keys_timeout /\ held # Power
      <3>1. holds' = holds
        BY <2>2 DEF keys_timeout, RepeatStep, AnnounceHold, keys_deliver
      <3> QED
        BY <1>1, <3>1 DEF IInv, TypeOK
    <2>3. CASE Press(Head(queue))
      <3>1. holds' = 0 /\ holds \in Nat
        BY <1>1, <2>3 DEF Press, Fresh, IInv, TypeOK
      <3> QED
        BY <3>1
    <2>4. CASE Restart
      <3>1. holds' = 0 /\ holds \in Nat
        BY <1>1, <2>4 DEF Restart, IInv, TypeOK
      <3> QED
        BY <3>1
    <2>5. CASE holds' = holds
      BY <1>1, <2>5 DEF IInv, TypeOK
    <2>6. CASE KeypadStep
      BY <2>5, <2>6 DEF KeypadStep, KeyDown, KeyUp, Autorepeat
    <2>7. CASE Tick \/ LitElsewhere \/ PollReadable \/ PollTimeout
      BY <2>5, <2>7 DEF Tick, LitElsewhere, PollReadable, PollTimeout, history
    <2>8. CASE Release(Head(queue)) \/ Ignore(Head(queue))
      <3>1. holds' = holds
        BY <2>8 DEF Release, Ignore, keys_deliver, wake_guard, history
      <3> QED
        BY <2>5, <3>1
    <2> QED
      BY <1>1, <2>1, <2>2, <2>3, <2>4, <2>6, <2>7, <2>8
         DEF Next, Daemon, keys_readable, KeypadStep
  <1> QED
    BY <1>1, Invariance, PTL DEF Spec, ShortPressIsNoHold

\* keys_timeout re-arms from the present, so a loop that was held up does not
\* make up for missed repeats of a volume key with a burst.
THEOREM NoBurstAlways == Spec => NoBurst
  <1> DEFINE A == keys_timeout /\ held \in Volumes
                    => now >= stepped + RepeatMs \/ now >= stepped + HoldMs
  <1>1. ASSUME IInv PROVE A
    BY <1>1, ConstantsAssumption DEF keys_timeout, IInv, DeadlineInv, TypeOK
  <1> QED
    BY <1>1, Invariance, PTL DEF Spec, NoBurst

\* keys_readable never ends a press that has done nothing at all.
THEOREM PressActsAlways == Spec => PressActs
  <1> DEFINE A == keys_readable /\ held # NoKey /\ held' = NoKey => acted'
  <1>1. ASSUME IInv PROVE A
    <2> SUFFICES ASSUME keys_readable, held # NoKey, held' = NoKey PROVE acted'
      OBVIOUS
    <2>1. ~Ignore(Head(queue))
      BY DEF Ignore, decoder
    <2>2. ~Press(Head(queue))
      BY ConstantsAssumption DEF Press, Keys
    <2>3. Release(Head(queue))
      BY <2>1, <2>2 DEF keys_readable
    <2>4. CASE ~held_repeats /\ ~announced
      BY <2>3, <2>4 DEF Release, keys_deliver
    <2>5. CASE held_repeats \/ announced
      BY <1>1, <2>3, <2>5 DEF Release, IInv, OutcomeInv
    <2> QED
      BY <2>4, <2>5
  <1> QED
    BY <1>1, Invariance, PTL DEF Spec, PressActs
=============================================================================

----------------------------- MODULE PanelLoop ------------------------------
(***************************************************************************)
(* main() of panel.c and the one child it keeps: the epoll loop over the   *)
(* stats timer, the keyboard, the key socket and the pipe of `tailscale    *)
(* status', whose drain reads until end of file on a pipe that blocks.     *)
(*                                                                         *)
(* What a key does is PanelViews', what the socket carries KeySocket's,    *)
(* how a frame is drawn Dashboard's; here a key may quit the panel,        *)
(* and a frame is the list of ports and the clients it samples.  A peer's  *)
(* line begins with "1", "0" (for "100."), a line ends with "nl".          *)
(***************************************************************************)
EXTENDS Collectors, FiniteSets

CONSTANTS
    Outputs,    \* what tailscale may write
    Tables,     \* contents of /proc/net/tcp and tcp6, pairs of sequences
    Port,       \* the port of a service
    MaxConns,   \* MAX_CONNS
    PortsBuf,   \* the size of the line of ports
    LineBuf,    \* the size of ts_buf
    ReadBuf,    \* the size of a read of the pipe
    Period      \* stats intervals between two children

ASSUME ConstantsAssumption ==
    /\ \A out \in Outputs : out \in Seq(STRING)
    /\ \A t \in Tables, k \in {1, 2} : t[k] \in Seq([state : STRING, port : Nat])
    /\ MaxConns \in Nat /\ PortsBuf \in Nat \ {0}
    /\ LineBuf \in Nat /\ LineBuf > 2       \* room for the prefix
    /\ ReadBuf \in Nat \ {0} /\ Period \in Nat \ {0}

None == -1
Stdin == 0
Fds == 1..3     \* the descriptors left for the socket and the pipe
Timer == 4      \* tfd
NoFrame == [ports |-> Nothing, clients |-> 0]

VARIABLES
    once,           \* cfg.once
    pc,             \* where main is
    batch,          \* events returned by epoll_wait that are not handled yet
    leave,          \* stop_requested or quitting
    due,            \* the stats timer has expired
    tick,
    sock_fd, ts_fd, registered_ts,
    registered,     \* the descriptors epoll watches, besides timer and stdin
    child,          \* "none", "running", its standard output "closed", or "dead"
    togo, code,     \* what the child has still to write; its exit status
    pipe,           \* written and not read yet
    ts_buf, ts_count, peers,
    proc, frame,    \* the tables sampled and the frame made of them
    said            \* (history) what the child wrote, and the last one that succeeded

loop == <<once, pc, batch, leave, due, tick>>
fds  == <<sock_fd, ts_fd, registered_ts, registered>>
kid  == <<child, togo, code, pipe, said>>
line == <<ts_buf, ts_count, peers>>
shot == <<proc, frame>>
vars == <<loop, fds, kid, line, shot>>

Init ==
    /\ once \in BOOLEAN
    /\ pc = "start" /\ batch = {} /\ leave = FALSE
    /\ due = FALSE /\ tick = 0
    /\ sock_fd \in {None} \cup (IF once THEN {} ELSE {1})    \* keys_connect
    /\ registered = {sock_fd} \ {None}
    /\ ts_fd = None /\ registered_ts = None
    /\ child = "none" /\ togo = <<>> /\ code = 0 /\ pipe = <<>>
    /\ ts_buf = <<>> /\ ts_count = 0 /\ peers = None
    /\ proc = <<<<>>, <<>>>> /\ frame = NoFrame
    /\ said = [now |-> <<>>, last |-> <<>>]

\* The kernel hands out the lowest descriptor that is free.
Lowest(used) == CHOOSE f \in Fds \ used : \A g \in Fds \ used : f <= g

-----------------------------------------------------------------------------
(***************************************************************************)
(* The child                                                               *)
(***************************************************************************)

\* tailscale_start: nothing while a child is there, or if pipe2 or fork fails;
\* else a child that will write out.
tailscale_start_same_line(ok, out) ==
    IF child # "none" \/ ~ok
    THEN UNCHANGED <<ts_fd, child, togo, pipe, said, ts_buf, ts_count>>
    ELSE /\ ts_fd' = Lowest({sock_fd})
         /\ child' = "running" /\ togo' = out /\ pipe' = <<>>
         /\ said' = [said EXCEPT !.now = out]
         /\ ts_count' = 0 /\ UNCHANGED ts_buf
tailscale_start(ok, out) ==
    IF child # "none" \/ ~ok
    THEN UNCHANGED <<ts_fd, child, togo, pipe, said, ts_buf, ts_count>>
    ELSE /\ ts_fd' = Lowest({sock_fd})
         /\ child' = "running" /\ togo' = out /\ pipe' = <<>>
         /\ said' = [said EXCEPT !.now = out]
         /\ ts_count' = 0 /\ ts_buf' = <<>>

\* The child writes any part of what is left, closes its output, exits.
ChildWrites(k) ==
    /\ child = "running" /\ k <= Len(togo)
    /\ pipe' = pipe \o SubSeq(togo, 1, k)
    /\ togo' = SubSeq(togo, k + 1, Len(togo))
    /\ UNCHANGED <<loop, fds, child, code, said, line, shot>>
ChildCloses ==
    /\ child = "running" /\ togo = <<>> /\ child' = "closed"
    /\ UNCHANGED <<loop, fds, togo, code, pipe, said, line, shot>>
ChildExits(status) ==
    /\ child = "closed" /\ child' = "dead" /\ code' = status
    /\ UNCHANGED <<loop, fds, togo, pipe, said, line, shot>>

\* tailscale_drain: one character of what read returned.
Char(l, c) ==
    IF c = "nl"
    THEN [buf |-> <<>>,
          count |-> l.count + (IF Take(l.buf, 2) = <<"1", "0">> THEN 1 ELSE 0)]
    ELSE IF Len(l.buf) + 1 < LineBuf THEN [l EXCEPT !.buf = Append(@, c)] ELSE l

\* All of them, one after the other.
Drained(l, chunk) ==
    LET after[k \in 0..Len(chunk)] == IF k = 0 THEN l ELSE Char(after[k - 1], chunk[k])
    IN after[Len(chunk)]

\* A read that returns something.
DrainReads ==
    /\ pc = "drain" /\ pipe # <<>>
    /\ LET chunk == Take(pipe, ReadBuf)
           l == Drained([buf |-> ts_buf, count |-> ts_count], chunk)
       IN /\ ts_buf' = l.buf /\ ts_count' = l.count
          /\ pipe' = SubSeq(pipe, Len(chunk) + 1, Len(pipe))
    /\ UNCHANGED <<loop, fds, child, togo, code, said, peers, shot>>

\* End of file: main holds no end to write to.
DrainEnds_write_end_open ==
    /\ pc = "drain" /\ pipe = <<>> /\ child = "none"
    /\ pc' = "reap"
    /\ UNCHANGED <<once, batch, leave, due, tick, fds, kid, line, shot>>
DrainEnds ==
    /\ pc = "drain" /\ pipe = <<>> /\ child \in {"closed", "dead"}
    /\ pc' = "reap"
    /\ UNCHANGED <<once, batch, leave, due, tick, fds, kid, line, shot>>

\* waitpid, and the count of a child that succeeded.
Reap ==
    /\ pc = "reap" /\ child = "dead"
    /\ peers' = IF code = 0 THEN ts_count ELSE peers
    /\ said' = IF code = 0 THEN [said EXCEPT !.last = said.now] ELSE said
    /\ ts_fd' = None /\ child' = "none" /\ code' = 0
    /\ pc' = IF once THEN "sample" ELSE "batch"
    /\ UNCHANGED <<once, batch, leave, due, tick, sock_fd, registered_ts,
                   registered, togo, pipe, ts_buf, ts_count, shot>>

-----------------------------------------------------------------------------
(***************************************************************************)
(* The loop                                                                *)
(***************************************************************************)

\* keys_connect, which may find no daemon, once a child has its pipe.
keys_connect(up) ==
    IF sock_fd = None /\ up
    THEN /\ sock_fd' = Lowest({ts_fd'})
         /\ registered' = registered \cup {sock_fd'}
    ELSE UNCHANGED <<sock_fd, registered>>

\* Up to the first frame.  Under --once the child is waited for first.
Start(ok, out) ==
    /\ pc = "start"
    /\ tailscale_start(ok, out)
    /\ pc' = IF once /\ ts_fd' # None THEN "drain" ELSE "sample"
    /\ UNCHANGED <<once, batch, leave, due, tick, sock_fd, registered_ts, registered,
                   code, peers, shot>>

\* build_dashboard_body: scan the tables and list what they hold.
Sample(tcp, tcp6) ==
    /\ pc = "sample" /\ pc' = "shown"
    /\ proc' = <<tcp, tcp6>>
    /\ LET conns == scan_tcp(tcp, tcp6, MaxConns)
       IN frame' = [ports   |-> listening_ports(conns, PortsBuf),
                    clients |-> clients_on(conns, Port)]
    /\ UNCHANGED <<once, batch, leave, due, tick, fds, kid, line>>

\* The frame is drawn.
Shown ==
    /\ pc = "shown" /\ pc' = (IF once THEN "done" ELSE "batch")
    /\ proc' = <<<<>>, <<>>>> /\ frame' = NoFrame
    /\ UNCHANGED <<once, batch, leave, due, tick, fds, kid, line>>

\* The head of the loop: its condition, and a pipe that is new is registered.
LoopHead ==
    /\ pc = "batch" /\ batch = {}
    /\ IF ~leave /\ ts_fd # None /\ ts_fd # registered_ts
       THEN registered' = registered \cup {ts_fd} /\ registered_ts' = ts_fd
       ELSE UNCHANGED <<registered, registered_ts>>
    /\ pc' = IF leave THEN "done" ELSE "enter"
    /\ UNCHANGED <<once, batch, leave, due, tick, sock_fd, ts_fd, kid, line, shot>>

\* epoll_wait is entered; a signal before this is not noticed by it.
Enter ==
    /\ pc = "enter" /\ pc' = "poll"
    /\ UNCHANGED <<once, batch, leave, due, tick, fds, kid, line, shot>>

\* It returns what is ready, and with it whatever the keyboard and the socket
\* have: a key, or the socket's end.
Ready ==
    (IF due THEN {Timer} ELSE {})
        \cup {f \in registered : f = ts_fd /\ (pipe # <<>> \/ child # "running")}
Maybe == {Stdin} \cup {f \in registered : f = sock_fd}
Poll(more) ==
    /\ pc = "poll" /\ pc' = "batch"
    /\ more \subseteq Maybe /\ batch' = Ready \cup more /\ batch' # {}
    /\ UNCHANGED <<once, leave, due, tick, fds, kid, line, shot>>

\* The stats interval; dash is whether the view is the dashboard.
HandleTimer(ok, out, up, dash) ==
    /\ pc = "batch" /\ Timer \in batch
    /\ batch' = batch \ {Timer} /\ due' = FALSE
    /\ tick' = (tick + 1) % Period
    /\ IF tick' = 0 THEN tailscale_start(ok, out)
       ELSE UNCHANGED <<ts_fd, child, togo, pipe, said, ts_buf, ts_count>>
    /\ keys_connect(up)
    /\ pc' = IF dash THEN "sample" ELSE "batch"
    /\ UNCHANGED <<once, leave, registered_ts, code, peers, shot>>

\* A key, from the keyboard or as a token, which may ask to quit.
Key(quits) ==
    /\ leave' = (leave \/ quits)
    /\ UNCHANGED <<once, pc, due, tick, fds, kid, line, shot>>
HandleStdin(quits) ==
    /\ pc = "batch" /\ Stdin \in batch /\ batch' = batch \ {Stdin}
    /\ Key(quits)
HandleToken ==
    /\ pc = "batch" /\ sock_fd \in batch /\ batch' = batch \ {sock_fd}
    /\ Key(FALSE)

\* The daemon has closed the socket.
HandleHangup ==
    /\ pc = "batch" /\ sock_fd \in batch /\ batch' = batch \ {sock_fd}
    /\ registered' = registered \ {sock_fd} /\ sock_fd' = None
    /\ UNCHANGED <<once, pc, leave, due, tick, ts_fd, registered_ts, kid, line, shot>>

\* The pipe: it is taken out of the set, and drained.
HandlePipe_still_registered ==
    /\ pc = "batch" /\ ts_fd \in batch /\ batch' = batch \ {ts_fd}
    /\ registered' = registered \ {ts_fd} /\ UNCHANGED registered_ts
    /\ pc' = "drain"
    /\ UNCHANGED <<once, leave, due, tick, sock_fd, ts_fd, kid, line, shot>>
HandlePipe ==
    /\ pc = "batch" /\ ts_fd \in batch /\ batch' = batch \ {ts_fd}
    /\ registered' = registered \ {ts_fd} /\ registered_ts' = None
    /\ pc' = "drain"
    /\ UNCHANGED <<once, leave, due, tick, sock_fd, ts_fd, kid, line, shot>>

-----------------------------------------------------------------------------
\* The timer expires; it is not set under --once.
Clock ==
    /\ ~once /\ ~due /\ due' = TRUE
    /\ UNCHANGED <<once, pc, batch, leave, tick, fds, kid, line, shot>>

\* SIGTERM, SIGINT or SIGHUP: epoll_wait is interrupted, and nothing else is.
Signal ==
    /\ ~once /\ ~leave /\ pc \notin {"start", "done"}
    /\ leave' = TRUE
    /\ pc' = IF pc = "poll" THEN "batch" ELSE pc
    /\ UNCHANGED <<once, batch, due, tick, fds, kid, line, shot>>

Main ==
    \/ \E ok \in BOOLEAN, out \in Outputs : Start(ok, out)
    \/ \E ok, up, dash \in BOOLEAN, out \in Outputs : HandleTimer(ok, out, up, dash)
    \/ \E t \in Tables : Sample(t[1], t[2])
    \/ Shown \/ LoopHead \/ Enter \/ HandleToken \/ HandleHangup \/ HandlePipe
    \/ \E quits \in BOOLEAN : HandleStdin(quits)
    \/ DrainReads \/ DrainEnds \/ Reap
    \/ Ready # {} /\ \E more \in SUBSET Maybe : Poll(more)

Child == (\E k \in 1..Len(togo) : ChildWrites(k)) \/ ChildCloses \/ (\E status \in {0, 1} : ChildExits(status))

Next ==
    \/ Main \/ Child \/ Clock \/ Signal
    \/ \E more \in SUBSET Maybe : Poll(more)

Spec == Init /\ [][Next]_vars

\* main is scheduled, its timer is periodic, and `tailscale status' ends.
FairSpec == Spec /\ WF_vars(Main) /\ WF_vars(Clock) /\ WF_vars(Child)

-----------------------------------------------------------------------------
\* The complete lines of out that begin like a peer's.
PeerLines(out) ==
    Cardinality({i \in 1..(Len(out) - 1) :
        /\ i = 1 \/ out[i - 1] = "nl"
        /\ out[i] = "1" /\ out[i + 1] = "0"
        /\ \E j \in i..Len(out) : out[j] = "nl"})

\* The peers shown are those of the last child that succeeded, however its
\* output was cut into reads, whatever line an earlier child left unfinished
\* and however long a line was.
PeersRight == peers # None => peers = PeerLines(said.last)

\* The room a list of these ports takes: a digit and a space for each, a digit
\* more for those of two digits and more, and so on; and no first space.
Width(ports) ==
    LET above(k) == Cardinality({p \in ports : p >= k})
    IN 2 * Cardinality(ports) + above(10) + above(100) + above(1000) + above(10000) - 1

\* The ports listed are listening, each once and in order; when neither the
\* connections nor the line are too many, they are all there, of both
\* tables, none is cut, and every client is counted.
FrameRight ==
    pc = "shown" =>
        LET all   == proc[1] \o proc[2]
            ports == frame.ports.shown
            open  == {all[i].port : i \in {j \in DOMAIN all : all[j].state = "listen"}}
            fits  == Len(all) <= MaxConns
        IN /\ ToSet(ports) \subseteq open
           /\ \A i \in 2..Len(ports) : ports[i - 1] < ports[i]
           /\ fits /\ Width(open) < PortsBuf => ToSet(ports) = open /\ ~frame.ports.cut
           /\ fits => frame.clients =
                  Cardinality({i \in DOMAIN all :
                                  all[i].state = "established" /\ all[i].port = Port})

\* A child that was started is read and reaped, whatever other descriptors
\* came and went meanwhile: the peers never stop being refreshed.
ChildReaped == ts_fd # None ~> (ts_fd = None \/ pc = "done")

\* A request to stop ends the loop, also when it comes between the check of
\* the flag and the wait, or in the middle of a drain.
StopServed == leave ~> pc = "done"
=============================================================================

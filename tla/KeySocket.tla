----------------------------- MODULE KeySocket ------------------------------
(***************************************************************************)
(* The key daemon (keys_command in panel.c), the unix socket it hands      *)
(* decoded keys out on, and the panels that come and go at the other end.  *)
(*                                                                         *)
(* The daemon handles one batch of epoll events after the other.  A batch  *)
(* is an array of descriptor NUMBERS, fixed when epoll_wait returns:       *)
(* an earlier handler of the batch may close a descriptor and a later one  *)
(* may get its number again from accept4.  What decoding a key yields is   *)
(* the subject of KeyDecoder; here a key event is a choice of token.       *)
(***************************************************************************)
EXTENDS Integers, Sequences, SequencesExt, FiniteSets

CONSTANTS
    Panels,       \* panel processes, alive or not
    NoConn,       \* no connection
    MaxFd,        \* highest descriptor number the daemon uses
    NConns,       \* bound on connections that exist at once
    SockBuf,      \* tokens the socket buffers before a write blocks
    MaxStarts,    \* bound on the number of panel starts
    MaxRestarts,  \* bound on the number of daemon starts
    MaxKeys       \* bound on the number of key events and deadlines

ASSUME ConstantsAssumption ==
    /\ MaxFd \in Nat /\ MaxFd >= 4
    /\ NConns \in Nat /\ NoConn \notin 1..NConns
    /\ SockBuf \in Nat \ {0}
    /\ MaxStarts \in Nat /\ MaxRestarts \in Nat /\ MaxKeys \in Nat

keys_fd   == 1
listen_fd == 2
ClientFds == 3..MaxFd
NoFd      == -1
Conns     == 1..NConns
Tokens    == {"click", "hold", "step"}
NoToken   == "none"

VARIABLES
    up,           \* the daemon runs
    launches,     \* daemon starts so far
    fdtab,        \* its descriptor table: client descriptor -> connection
    keys_client,
    backlog,      \* connections waiting for accept4, oldest first
    rdl,          \* epoll's ready list, in the order descriptors became ready
    batch,        \* events[] not handled yet
    pc,           \* "wait", "handle" or "send"
    token,        \* the token being sent, if one is
    evq,          \* unread events of the evdev node
    keys,         \* key events and deadlines so far
    lit           \* backlight_level() > 0

VARIABLES
    alive,        \* alive[p]: panel p runs
    starts,       \* panel starts so far
    sock,         \* sock[p]: the connection behind p's sock_fd
    inbuf         \* inbuf[c]: tokens written and not read

daemon == <<launches, fdtab, keys_client, batch, pc, token>>
input  == <<evq, keys>>
panels == <<alive, starts, sock>>
vars   == <<up, daemon, backlog, rdl, input, lit, panels, inbuf>>

-----------------------------------------------------------------------------
PeerClosed(c)   == \A p \in Panels : sock[p] # c
OpenFds         == {f \in ClientFds : fdtab[f] # NoConn}
ServerClosed(c) == c \notin ToSet(backlog) /\ \A f \in OpenFds : fdtab[f] # c
UnusedConns     == {c \in Conns : PeerClosed(c) /\ ServerClosed(c)}
LowestFreeFd    == CHOOSE f \in ClientFds \ OpenFds :
                       \A g \in ClientFds \ OpenFds : f <= g

\* What a level-triggered epoll reports: an event to read, a connection to
\* accept, the end of file of a client (a panel never writes).
Readable(f) ==
    \/ f = keys_fd /\ evq > 0
    \/ f = listen_fd /\ backlog # <<>>
    \/ f \in OpenFds /\ PeerClosed(fdtab[f])

Ready == {f \in {keys_fd, listen_fd} \cup ClientFds : Readable(f)}

\* The elements of s that are in S, in their order.
Kept(s, S) ==
    LET keep    == {i \in DOMAIN s : s[i] \in S}
        rank(i) == Cardinality({j \in keep : j <= i})
    IN  [n \in 1..Cardinality(keep) |-> s[CHOOSE i \in keep : rank(i) = n]]

\* The ready list when descriptor f is closed, and when f wakes it.
Closed(f) == Kept(rdl, ToSet(rdl) \ {f})
Roused(f) == IF up /\ f \notin ToSet(rdl) THEN Append(rdl, f) ELSE rdl

Init ==
    /\ up = FALSE /\ launches = 0
    /\ fdtab = [f \in ClientFds |-> NoConn] /\ keys_client = NoFd
    /\ backlog = <<>> /\ rdl = <<>> /\ batch = <<>>
    /\ pc = "wait" /\ token = NoToken
    /\ evq = 0 /\ keys = 0 /\ lit \in BOOLEAN
    /\ alive = [p \in Panels |-> FALSE] /\ starts = 0
    /\ sock = [p \in Panels |-> NoConn]
    /\ inbuf = [c \in Conns |-> 0]

-----------------------------------------------------------------------------
(***************************************************************************)
(* The panels.                                                             *)
(***************************************************************************)

\* keys_connect: refused while no daemon listens, else the connection waits
\* in the backlog.
keys_connect(p) ==
    IF up
    THEN \E c \in UnusedConns :
            /\ c = CHOOSE d \in UnusedConns : \A e \in UnusedConns : d <= e
            /\ sock' = [sock EXCEPT ![p] = c]
            /\ inbuf' = [inbuf EXCEPT ![c] = 0]
            /\ backlog' = Append(backlog, c)
            /\ rdl' = Roused(listen_fd)
    ELSE UNCHANGED <<sock, inbuf, backlog, rdl>>

PanelStart(p) ==
    /\ ~alive[p] /\ starts < MaxStarts
    /\ alive' = [alive EXCEPT ![p] = TRUE]
    /\ starts' = starts + 1
    /\ keys_connect(p)
    /\ UNCHANGED <<up, daemon, input, lit>>

\* The tick of a panel that has lost the daemon.
PanelTick(p) ==
    /\ alive[p] /\ sock[p] = NoConn
    /\ keys_connect(p)
    /\ UNCHANGED <<up, daemon, input, lit, alive, starts>>

\* The panel reads tokens, all there are (sixteen at a time), and acts on
\* them, which may switch the display; once they are read, the end of file of
\* a closed connection makes it close its end.
PanelRead_keeps_sock(p) ==
    LET c == sock[p] IN
    /\ c # NoConn /\ inbuf[c] > 0
    /\ inbuf' = [inbuf EXCEPT ![c] = 0]
    /\ lit' \in BOOLEAN
    /\ UNCHANGED <<up, daemon, backlog, rdl, input, alive, starts, sock>>
PanelRead(p) ==
    LET c == sock[p] IN
    /\ c # NoConn
    /\ \/ /\ inbuf[c] > 0
          /\ inbuf' = [inbuf EXCEPT ![c] = 0]
          /\ lit' \in BOOLEAN
          /\ UNCHANGED sock
       \/ /\ inbuf[c] = 0 /\ ServerClosed(c)
          /\ sock' = [sock EXCEPT ![p] = NoConn]
          /\ UNCHANGED <<inbuf, lit>>
    /\ UNCHANGED <<up, daemon, backlog, rdl, input, alive, starts>>

\* The panel ends, with tty1's login shell or by a key; the kernel closes
\* its socket with what is in its buffer, which makes the daemon's end readable.
PanelExit(p) ==
    /\ alive[p]
    /\ alive' = [alive EXCEPT ![p] = FALSE]
    /\ sock' = [sock EXCEPT ![p] = NoConn]
    /\ rdl' = IF \E f \in OpenFds : fdtab[f] = sock[p]
              THEN Roused(CHOOSE f \in OpenFds : fdtab[f] = sock[p])
              ELSE rdl
    /\ inbuf' = [c \in Conns |-> IF c = sock[p] THEN 0 ELSE inbuf[c]]
    /\ UNCHANGED <<up, daemon, backlog, input, lit, starts>>

-----------------------------------------------------------------------------
(***************************************************************************)
(* The daemon.                                                             *)
(***************************************************************************)

\* An event of the evdev node.
KeyEvent ==
    /\ keys < MaxKeys /\ keys' = keys + 1
    /\ evq' = IF up THEN evq + 1 ELSE evq
    /\ rdl' = Roused(keys_fd)
    /\ UNCHANGED <<up, daemon, backlog, lit, panels, inbuf>>

\* epoll_wait: the ready list is polled in its order; what is still ready is
\* the batch and, level-triggered, stays on the list.
epoll_wait_edge ==
    /\ up /\ pc = "wait" /\ ToSet(rdl) \cap Ready # {}
    /\ batch' = Kept(rdl, Ready) /\ rdl' = <<>>
    /\ pc' = "handle"
    /\ UNCHANGED <<up, launches, fdtab, keys_client, backlog, token, input,
                   lit, panels, inbuf>>
epoll_wait ==
    /\ up /\ pc = "wait" /\ ToSet(rdl) \cap Ready # {}
    /\ batch' = Kept(rdl, Ready) /\ rdl' = batch'
    /\ pc' = "handle"
    /\ UNCHANGED <<up, launches, fdtab, keys_client, backlog, token, input,
                   lit, panels, inbuf>>

\* Where the loop goes on after an event with b left of its batch.
Resume(b) == IF b = <<>> THEN "wait" ELSE "handle"

\* keys_deliver up to the write: wake_guard swallows a key on a dark display
\* unless it is a hold; either way the display is lit afterwards.
Deliver(t, b) ==
    /\ lit' = TRUE
    /\ IF lit \/ t = "hold"
       THEN pc' = "send" /\ token' = t
       ELSE pc' = Resume(b) /\ UNCHANGED token

\* keys_readable: one event, which yields at most one token.
HandleKeys ==
    /\ up /\ pc = "handle" /\ Head(batch) = keys_fd
    /\ evq > 0 /\ evq' = evq - 1
    /\ batch' = Tail(batch)
    /\ \/ \E t \in Tokens \ {"hold"} : Deliver(t, Tail(batch))
       \/ pc' = Resume(Tail(batch)) /\ UNCHANGED <<lit, token>>
    /\ UNCHANGED <<up, launches, fdtab, keys_client, backlog, rdl, keys,
                   panels, inbuf>>

\* keys_timeout, when epoll_wait returns nothing: a hold or a repeated step.
HandleTimeout ==
    /\ up /\ pc = "wait" /\ ToSet(rdl) \cap Ready = {}
    /\ keys < MaxKeys /\ keys' = keys + 1
    /\ \E t \in {"hold", "step"} : Deliver(t, <<>>)
    /\ UNCHANGED <<up, launches, fdtab, keys_client, backlog, rdl, batch, evq,
                   panels, inbuf>>

\* The fallback of keys_deliver: without a panel the power key is the on/off
\* switch of the display, which is lit here unless a panel has switched it.
Fallback == lit' = IF token = "click" THEN ~lit ELSE lit

\* The write of keys_deliver.  It blocks while the buffer of a live panel is
\* full, and fails (EPIPE, SIGPIPE is ignored) when the panel has gone.
SendToken_keeps_client ==
    /\ up /\ pc = "send" /\ pc' = Resume(batch) /\ token' = NoToken
    /\ \/ /\ keys_client = NoFd
          /\ Fallback
          /\ UNCHANGED <<fdtab, keys_client, rdl, inbuf>>
       \/ /\ keys_client # NoFd /\ PeerClosed(fdtab[keys_client])
          /\ UNCHANGED <<lit, fdtab, keys_client, rdl, inbuf>>
       \/ /\ keys_client # NoFd /\ ~PeerClosed(fdtab[keys_client])
          /\ inbuf[fdtab[keys_client]] < SockBuf
          /\ inbuf' = [inbuf EXCEPT ![fdtab[keys_client]] = @ + 1]
          /\ UNCHANGED <<lit, fdtab, keys_client, rdl>>
    /\ UNCHANGED <<up, launches, backlog, batch, input, panels>>
SendToken_leaks ==
    /\ up /\ pc = "send" /\ pc' = Resume(batch) /\ token' = NoToken
    /\ \/ /\ keys_client = NoFd
          /\ Fallback
          /\ UNCHANGED <<fdtab, keys_client, rdl, inbuf>>
       \/ /\ keys_client # NoFd /\ PeerClosed(fdtab[keys_client])
          /\ keys_client' = NoFd
          /\ Fallback
          /\ UNCHANGED <<fdtab, rdl, inbuf>>
       \/ /\ keys_client # NoFd /\ ~PeerClosed(fdtab[keys_client])
          /\ inbuf[fdtab[keys_client]] < SockBuf
          /\ inbuf' = [inbuf EXCEPT ![fdtab[keys_client]] = @ + 1]
          /\ UNCHANGED <<lit, fdtab, keys_client, rdl>>
    /\ UNCHANGED <<up, launches, backlog, batch, input, panels>>
SendToken ==
    /\ up /\ pc = "send" /\ pc' = Resume(batch) /\ token' = NoToken
    /\ \/ /\ keys_client = NoFd
          /\ Fallback
          /\ UNCHANGED <<fdtab, keys_client, rdl, inbuf>>
       \/ /\ keys_client # NoFd /\ PeerClosed(fdtab[keys_client])
          /\ fdtab' = [fdtab EXCEPT ![keys_client] = NoConn]
          /\ keys_client' = NoFd
          /\ rdl' = Closed(keys_client)
          /\ Fallback
          /\ UNCHANGED inbuf
       \/ /\ keys_client # NoFd /\ ~PeerClosed(fdtab[keys_client])
          /\ inbuf[fdtab[keys_client]] < SockBuf
          /\ inbuf' = [inbuf EXCEPT ![fdtab[keys_client]] = @ + 1]
          /\ UNCHANGED <<lit, fdtab, keys_client, rdl>>
    /\ UNCHANGED <<up, launches, backlog, batch, input, panels>>

\* accept4 takes the lowest free descriptor while the displaced client's is
\* still open; then that one is closed and the new one joins the epoll set,
\* ready at once if its panel has already gone.
HandleListen ==
    /\ up /\ pc = "handle" /\ Head(batch) = listen_fd
    /\ batch' = Tail(batch) /\ pc' = Resume(batch')
    /\ backlog # <<>> /\ backlog' = Tail(backlog)
    /\ ClientFds \ OpenFds # {} /\ keys_client' = LowestFreeFd
    /\ fdtab' = [f \in ClientFds |->
                    IF f = LowestFreeFd THEN Head(backlog)
                    ELSE IF f = keys_client THEN NoConn ELSE fdtab[f]]
    /\ rdl' = LET kept == Closed(keys_client)
              IN IF PeerClosed(Head(backlog)) THEN Append(kept, LowestFreeFd) ELSE kept
    /\ UNCHANGED <<up, launches, token, input, lit, panels, inbuf>>

\* An event of the client: a blocking read, which only returns once the panel
\* has gone, whatever connection the number stood for in epoll_wait.
HandleClient_ignores_eof ==
    /\ up /\ pc = "handle" /\ Head(batch) = keys_client
    /\ batch' = Tail(batch) /\ pc' = Resume(batch')
    /\ PeerClosed(fdtab[keys_client])
    /\ UNCHANGED <<up, launches, fdtab, keys_client, backlog, rdl, token, input,
                   lit, panels, inbuf>>
HandleClient ==
    /\ up /\ pc = "handle" /\ Head(batch) = keys_client
    /\ batch' = Tail(batch) /\ pc' = Resume(batch')
    /\ PeerClosed(fdtab[keys_client])
    /\ fdtab' = [fdtab EXCEPT ![keys_client] = NoConn]
    /\ keys_client' = NoFd
    /\ rdl' = Closed(keys_client)
    /\ UNCHANGED <<up, launches, backlog, token, input, lit, panels, inbuf>>

\* An event of a descriptor the batch has closed already.
HandleStale ==
    /\ up /\ pc = "handle" /\ Head(batch) \notin {keys_fd, listen_fd, keys_client}
    /\ batch' = Tail(batch) /\ pc' = Resume(batch')
    /\ UNCHANGED <<up, launches, fdtab, keys_client, backlog, rdl, token,
                   input, lit, panels, inbuf>>

\* The daemon stops, wherever it is: the kernel closes its descriptors and
\* the connections nobody accepted, and its unread events are gone.
DaemonExit ==
    /\ up /\ launches < MaxRestarts /\ up' = FALSE
    /\ fdtab' = [f \in ClientFds |-> NoConn] /\ keys_client' = NoFd
    /\ backlog' = <<>> /\ rdl' = <<>> /\ batch' = <<>>
    /\ pc' = "wait" /\ token' = NoToken /\ evq' = 0
    /\ UNCHANGED <<launches, keys, lit, panels, inbuf>>

\* keys_command up to its loop, under Restart=always.
DaemonStart ==
    /\ ~up /\ up' = TRUE /\ launches' = launches + 1
    /\ UNCHANGED <<fdtab, keys_client, batch, pc, token, backlog, rdl, input,
                   lit, panels, inbuf>>

DaemonStep ==
    \/ epoll_wait \/ HandleKeys \/ SendToken
    \/ HandleListen \/ HandleClient \/ HandleStale

Next ==
    \/ \E p \in Panels : PanelStart(p) \/ PanelTick(p) \/ PanelRead(p) \/ PanelExit(p)
    \/ KeyEvent \/ DaemonStep \/ HandleTimeout \/ DaemonExit \/ DaemonStart

Spec == Init /\ [][Next]_vars

\* The daemon is scheduled and restarted by systemd; a panel's timer fires
\* and its socket is read.  Nobody owes a key, a start or an exit.
FairSpec ==
    /\ Spec
    /\ WF_vars(DaemonStep) /\ WF_vars(DaemonStart)
    /\ \A p \in Panels : WF_vars(PanelTick(p)) /\ WF_vars(PanelRead(p))

-----------------------------------------------------------------------------
(***************************************************************************)
(* Properties.                                                             *)
(***************************************************************************)

\* The daemon keeps no client descriptor open but the one it serves, however
\* often panels displace each other or die: it can run for the whole uptime.
NoLeak == OpenFds = {keys_client} \ {NoFd}

\* "With nothing connected the power key is still the on/off switch": a click
\* is never written to a connection nobody can read when no panel is alive.
PowerFallsBack ==
    [][SendToken /\ token = "click" /\ (\A p \in Panels : ~alive[p])
        => lit' = ~lit]_vars

Served(p) == keys_client # NoFd /\ sock[p] # NoConn /\ fdtab[keys_client] = sock[p]

\* The daemon is blocked in the read of a live panel: an event of a client it
\* has closed, taken for one of the connection that got the number.
Wedged ==
    /\ up /\ pc = "handle" /\ Head(batch) = keys_client
    /\ ~PeerClosed(fdtab[keys_client])

\* A panel that stays is served, also when another one displaces it and after
\* every restart of the daemon, unless the daemon gets wedged.
PanelServed ==
    \A p \in Panels : alive[p] ~> (Served(p) \/ ~alive[p] \/ Wedged)

\* The client the daemon serves has gone.
Gone == keys_client # NoFd /\ PeerClosed(fdtab[keys_client])

\* A panel that has gone is noticed without a key being pressed, whether it
\* died while it was served, before it was accepted, or between accept4 and
\* epoll_ctl: the daemon neither keeps its descriptor nor spins on it.
GoneIsNoticed == Gone ~> (~Gone \/ Wedged)

\* A key event is decoded, or lost with the daemon: no order of displacements,
\* failed writes and full buffers but the wedge leaves it unread.
KeysRead == evq > 0 ~> (evq = 0 \/ Wedged)

\* The daemon "owns the evdev node and its grab for the whole uptime": a key
\* event never stays unread.
KeysServed == evq > 0 ~> evq = 0
=============================================================================

----------------------------- MODULE Collectors -----------------------------
(***************************************************************************)
(* The readings and formats of panel.c's dashboard, as operators: what a   *)
(* meter computes from its counters, and which entries of a table reach    *)
(* the line that lists them.  A formatted text is the tuple of the numbers *)
(* it is printed from; an entry of a list is its name and its width.       *)
(***************************************************************************)
EXTENDS Integers, Sequences, SequencesExt

\* C's division and remainder, which round towards zero.
Quot(a, b) == IF a < 0 THEN -((-a) \div b) ELSE a \div b
Rem(a, b)  == a - b * Quot(a, b)

-----------------------------------------------------------------------------
(***************************************************************************)
(* Meters                                                                  *)
(***************************************************************************)

human_kb(k) ==
    IF k >= 1048576
    THEN <<"G", k \div 1048576, ((k % 1048576) * 10) \div 1048576>>
    ELSE IF k >= 1024 THEN <<"M", k \div 1024>> ELSE <<"K", k>>

duration(s) ==
    IF s >= 86400 THEN <<"d", s \div 86400, (s % 86400) \div 3600, (s % 3600) \div 60>>
    ELSE IF s >= 3600 THEN <<"h", s \div 3600, (s % 3600) \div 60>>
    ELSE <<"m", s \div 60, s % 60>>

\* The columns of a bar of width w that are filled, and its colour.
Clamp(x, w) == IF x > w THEN w ELSE IF x < 0 THEN 0 ELSE x
bar_filled(v, m, w) == Clamp(IF m > 0 THEN Quot(v * w, m) ELSE 0, w)
bar_colour(v, m) ==
    LET pct == IF m > 0 THEN Quot(v * 100, m) ELSE 0
    IN IF pct >= 90 THEN "red" ELSE IF pct >= 70 THEN "yellow" ELSE "green"

\* Busy time since the previous sample, in percent of all time since.
cpu_percent(busy, total, prev_busy, prev_total) ==
    LET dt == total - prev_total
        db == busy - prev_busy
    IN IF dt > 0 THEN Quot(db * 100, dt) ELSE 0

\* The highest of the cores' frequencies, in GHz and hundredths.
cpu_ghz(khz) ==
    LET top == FoldLeft(LAMBDA a, b : IF b > a THEN b ELSE a, 0, khz)
    IN <<top \div 1000000, (top % 1000000) \div 10000>>

temp_c(milli) == Quot(milli, 1000)

\* The range of consumed endurance, from the two banks' estimates.
emmc_life(a, b) ==
    LET v == IF a > b THEN a ELSE b
    IN IF v \in 1..15 THEN <<(v - 1) * 10, v * 10>> ELSE <<"?">>

\* Hours and minutes the charge lasts, or takes; nothing when it cannot say.
endurance(charge, raw_ma, full, flow) ==
    LET ma   == (IF raw_ma < 0 THEN -raw_ma ELSE raw_ma) \div 10
        left == IF flow = "charging" THEN full - charge ELSE charge
        mins == (left * 60) \div (ma * 1000)
    IN IF flow = "full" \/ ma <= 5 \/ left <= 0 THEN <<>>
       ELSE <<mins \div 60, mins % 60>>

\* Use% as df has it: rounded up, of what a non-root writer can reach.
disk_pct(blocks, bfree, bavail) ==
    LET used == blocks - bfree
        denom == used + bavail
    IN IF denom = 0 THEN 0 ELSE (used * 100 + denom - 1) \div denom

\* The octets of an address as /proc/net prints it, lowest byte first.
format_v4(a) == [i \in 1..4 |-> (a \div 256^(i - 1)) % 256]

\* The first route to everywhere, or none.
default_gateway(routes) ==
    LET default == SelectSeq(routes, LAMBDA r : r.dest = 0)
    IN IF default = <<>> THEN <<>> ELSE format_v4(default[1].gw)

\* iface_addr: the ones a mask of w bits begins with.
prefix_len(mask, w) ==
    FoldLeft(LAMBDA o, b : IF o.ones /\ (mask \div 2^b) % 2 = 1
                           THEN [o EXCEPT !.n = @ + 1] ELSE [o EXCEPT !.ones = FALSE],
             [n |-> 0, ones |-> TRUE], [i \in 1..w |-> w - i]).n

-----------------------------------------------------------------------------
(***************************************************************************)
(* Lists                                                                   *)
(***************************************************************************)

\* Entries are printed one after the other into a buffer of n bytes.  One that
\* does not fit leaves what fits of it behind the others, until a later one
\* that does is printed over it.
Nothing == [len |-> 0, shown |-> <<>>, cut |-> FALSE]
Put(out, e, sep, n) ==
    LET w == e.width + (IF out.len > 0 THEN sep ELSE 0)
    IN IF w < n - out.len
       THEN [len |-> out.len + w, shown |-> Append(out.shown, e.name), cut |-> FALSE]
       ELSE [out EXCEPT !.cut = (out.len + 1 < n)]
Listed(entries, sep, n) ==
    LET out[i \in 0..Len(entries)] ==
            IF i = 0 THEN Nothing ELSE Put(out[i - 1], entries[i], sep, n)
    IN out[Len(entries)]

\* A line on which no entry fits, or that has none, says "-".
OrDash(out) == IF out.len = 0 THEN Nothing ELSE out

Entry(name, width) == [name |-> name, width |-> width]

\* failed_units and tty_sessions print every entry they are given.
failed_units(ids, n) == Listed(ids, 1, n)
tty_sessions(records, n) ==
    OrDash(Listed(SelectSeq(records, LAMBDA u : u.type = "USER_PROCESS"), 0, n))

\* scan_tcp: both tables, up to MAX_CONNS connections.
Take(s, k) == SubSeq(s, 1, IF Len(s) < k THEN Len(s) ELSE k)
scan_tcp(tcp, tcp6, max_conns) == Take(tcp \o tcp6, max_conns)

OnPort(c, port) == c.state = "established" /\ c.port = port
clients_on(conns, port) ==
    LET c[i \in 0..Len(conns)] ==
            IF i = 0 THEN 0 ELSE c[i - 1] + (IF OnPort(conns[i], port) THEN 1 ELSE 0)
    IN c[Len(conns)]
peers_on(conns, port, n) ==
    LET on == SelectSeq(conns, LAMBDA c : OnPort(c, port))
    IN Listed([i \in DOMAIN on |-> on[i].peer], 1, n)

\* The digits of a port.
Digits(p) ==
    IF p < 10 THEN 1 ELSE IF p < 100 THEN 2 ELSE IF p < 1000 THEN 3 ELSE IF p < 10000 THEN 4 ELSE 5

\* The ports that listen, in the order of the tables.
Ports(conns) ==
    LET ports[i \in 0..Len(conns)] ==
            IF i = 0 THEN <<>>
            ELSE IF conns[i].state = "listen" THEN Append(ports[i - 1], conns[i].port)
            ELSE ports[i - 1]
    IN ports[Len(conns)]

\* qsort() with cmp_int; p is a permutation, because it is onto.
qsort(s) ==
    LET p == CHOOSE p \in Surjection(1..Len(s), 1..Len(s)) :
                 \A i, j \in 1..Len(s) : i < j => s[p[i]] <= s[p[j]]
    IN [i \in 1..Len(s) |-> s[p[i]]]

\* A sorted sequence without the entries equal to the one before.
Beside(o, x) == IF Len(o) > 0 /\ o[Len(o)] = x THEN o ELSE Append(o, x)
Unrepeated(s) ==
    LET o[i \in 0..Len(s)] == IF i = 0 THEN <<>> ELSE Beside(o[i - 1], s[i])
    IN o[Len(s)]

listening_ports_unsorted(conns, n) ==
    LET ports == Unrepeated(Ports(conns))
    IN OrDash(Listed([i \in DOMAIN ports |-> Entry(ports[i], Digits(ports[i]))], 1, n))
listening_ports(conns, n) ==
    LET ports == Unrepeated(qsort(Ports(conns)))
    IN OrDash(Listed([i \in DOMAIN ports |-> Entry(ports[i], Digits(ports[i]))], 1, n))

\* Processes with memory of their own and a readable name, the largest first
\* (equally large ones in the order qsort leaves them).
scan_procs(procs, max) ==
    SortSeq(Take(SelectSeq(procs, LAMBDA p : p.rss > 0 /\ p.readable), max),
            LAMBDA p, q : p.rss > q.rss)
top_rss(procs, max, max_top, n) ==
    LET top == Take(scan_procs(procs, max), max_top)
    IN Listed([i \in DOMAIN top |-> top[i].text], 0, n)

\* The users in sshd's process names: each once, up to max of them.
ssh_users(names, max, n) ==
    LET once == FoldLeft(LAMBDA o, x : IF Len(o) = max \/ x \in ToSet(o) THEN o ELSE Append(o, x),
                         <<>>, names)
    IN OrDash(Listed(once, 1, n))

-----------------------------------------------------------------------------
(***************************************************************************)
(* Log sources                                                             *)
(***************************************************************************)

\* load_journal: from the log_lines-th entry before the tail to the tail.  The
\* loop formats an entry before it asks for the next one: of a journal without
\* a matching entry there is one line, of nothing.
load_journal(entries, log_lines) ==
    LET first == IF Len(entries) > log_lines THEN Len(entries) - log_lines + 1 ELSE 1
    IN IF entries = <<>> THEN <<"of nothing">> ELSE SubSeq(entries, first, Len(entries))

\* load_kmsg: the records that have a header and a text; one that was
\* overwritten while it was read is skipped.
load_kmsg(records) ==
    LET texts == SelectSeq(records, LAMBDA r : r # "overwritten" /\ r # "malformed")
    IN IF texts = <<>> THEN <<"no entries">> ELSE texts

load_processes(procs, max) ==
    LET top == Take(scan_procs(procs, max), 40)
    IN <<"heading">> \o [i \in DOMAIN top |-> top[i].pid]
=============================================================================

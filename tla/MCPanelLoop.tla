---------------------------- MODULE MCPanelLoop -----------------------------
(* PanelLoop for TLC, and its readings compared with what they stand for   *)
(* on every small input.                                                   *)
EXTENDS PanelLoop

SomeOutputs == {<<"1", "0", "0", "nl", "1">>, <<"0", "nl">>}

\* Two listeners and a client in any order over the tables, a port that
\* listens in both, more connections or ports than there is room for, none.
L7  == [state |-> "listen", port |-> 7]
L22 == [state |-> "listen", port |-> 22]
L80 == [state |-> "listen", port |-> 80]
C22 == [state |-> "established", port |-> 22]
SomeTables ==
    {<<<<>>, <<>>>>, <<<<L80, L7>>, <<L22>>>>, <<<<L22, C22>>, <<L7>>>>,
     <<<<L22>>, <<L7, L22>>>>, <<<<C22>>, <<C22, L7>>>>, <<<<C22, L22, C22>>, <<L7>>>>}

-----------------------------------------------------------------------------
UpTo(S, k) == UNION {[1..n -> S] : n \in 0..k}
Sum(f) == FoldFunction(+, 0, f)

\* Entries of some widths in a buffer of n bytes: what is counted as printed
\* fits with its terminator, and when everything fits everything is there.
ASSUME ListedRight ==
    \A widths \in UpTo(1..3, 3), sep \in 0..1, n \in 1..9 :
        LET entries == [i \in DOMAIN widths |-> Entry(i, widths[i])]
            out     == Listed(entries, sep, n)
            room    == Sum(widths) + sep * (Len(widths) - 1)
        IN /\ out.len < n
           /\ out.len = Sum([i \in DOMAIN out.shown |-> widths[out.shown[i]]])
                           + (IF out.shown = <<>> THEN 0 ELSE sep * (Len(out.shown) - 1))
           /\ widths # <<>> /\ room < n => Len(out.shown) = Len(widths) /\ ~out.cut

\* The room of a list of ports is that of their digits and of what separates them.
ASSUME WidthRight ==
    \A ports \in SUBSET {0, 9, 10, 99, 100, 999, 1000, 9999, 10000, 65535} :
        Width(ports) = MapThenSumSet(LAMBDA p : Digits(p) + 1, ports) - 1

\* The largest processes first, none that is larger left out, and none twice.
ASSUME TopRight ==
    \A rss \in UpTo(0..2, 3), k \in 0..3 :
        LET procs == [i \in DOMAIN rss |-> [pid |-> i, rss |-> rss[i], readable |-> i # 2]]
            seen  == {i \in DOMAIN rss : rss[i] > 0 /\ i # 2}
            top   == Take(scan_procs(procs, 3), k)
        IN /\ {top[i].pid : i \in DOMAIN top} \subseteq seen
           /\ Len(top) = IF Cardinality(seen) < k THEN Cardinality(seen) ELSE k
           /\ \A i, j \in DOMAIN top : i < j => top[i].rss >= top[j].rss /\ top[i].pid # top[j].pid
           /\ \A p \in seen \ {top[i].pid : i \in DOMAIN top}, i \in DOMAIN top :
                 rss[p] <= top[i].rss

\* Every user once, in the order of the processes.
ASSUME UsersRight ==
    \A names \in UpTo({"a", "b", "c"}, 4) :
        LET out == ssh_users([i \in DOMAIN names |-> Entry(names[i], 1)], 16, 64)
        IN ToSet(out.shown) = ToSet(names) /\ Len(out.shown) = Cardinality(ToSet(names))

\* A journal with entries shows the last log_lines of them; one with none
\* shows a line all the same.
ASSUME JournalRight ==
    \A n \in 0..5, k \in 1..3 :
        LET got == load_journal([i \in 1..n |-> i], k)
            m   == IF n < k THEN n ELSE k
        IN IF n = 0 THEN Len(got) = 1 ELSE got = [i \in 1..m |-> n - m + i]

\* The prefix of a netmask is the one it was made from.
ASSUME PrefixRight ==
    \A w \in {4, 8}, p \in 0..8 : p <= w => prefix_len(2^w - 2^(w - p), w) = p

\* The bytes of an address, in both orders, around each byte's boundary.
ASSUME OctetsRight ==
    \A a, b, c, d \in {0, 1, 127} :
        format_v4(a + 256 * (b + 256 * (c + 256 * d))) = <<a, b, c, d>>

\* A size is printed to the tenth of its unit, never more than there is.
ASSUME SizeRight ==
    \A k \in {0, 1, 1023, 1024, 1025, 1048575, 1048576, 1153433, 1153434, 2097151, 2097152} :
        LET h == human_kb(k)
            t == CASE h[1] = "G" -> h[2] * 10 + h[3] [] OTHER -> h[2]
            u == CASE h[1] = "G" -> 1048576 [] h[1] = "M" -> 1024 [] OTHER -> 1
            s == IF h[1] = "G" THEN 10 ELSE 1
        IN t * u <= k * s /\ k * s < (t + 1) * u

\* The charge lasts the hours and minutes shown, and not a minute more.
ASSUME EnduranceRight ==
    \A charge \in {1, 500, 1000, 60000}, raw \in {-4000, -60, -59, 59, 60, 1230} :
        LET e  == endurance(charge, raw, 100000, "discharging")
            ma == (IF raw < 0 THEN -raw ELSE raw) \div 10
        IN IF ma <= 5 THEN e = <<>>
           ELSE /\ e[2] \in 0..59
                /\ (e[1] * 60 + e[2]) * ma * 1000 <= charge * 60
                /\ charge * 60 < (e[1] * 60 + e[2] + 1) * ma * 1000
=============================================================================

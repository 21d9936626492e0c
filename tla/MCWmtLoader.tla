---------------------------- MODULE MCWmtLoader -----------------------------
(* Directories for TLC: fine ones, and for each way a search can end badly *)
(* one that has it: nothing found, more than there is room for, a file     *)
(* without a header.                                                       *)
EXTENDS WmtLoader

Dir(r, p, s) == [ram |-> r, patch |-> p, short |-> s]

SampleDirs ==
    {Dir({1, 2}, {1, 2}, {}), Dir({3}, {2, 3}, {}), Dir({}, {1, 2}, {}), Dir({1}, {}, {}),
     Dir({1, 2, 3}, {1}, {}), Dir({1}, {1, 2, 3}, {}), Dir({1, 2}, {1}, {2}), Dir({1}, {1, 2}, {2})}
=============================================================================

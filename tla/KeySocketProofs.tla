--------------------------- MODULE KeySocketProofs --------------------------
(***************************************************************************)
(* The key daemon and its socket, for any number of panels, descriptors,   *)
(* connections, restarts and keys: no descriptor leaks, no wake-up is      *)
(* lost, and without a panel a click still switches the display.           *)
(***************************************************************************)
EXTENDS KeySocket, TLAPS, FiniteSetTheorems, WellFoundedInduction

-----------------------------------------------------------------------------
(***************************************************************************)
(* A set of numbers has a least one, which the kernel gives to accept4.    *)
(***************************************************************************)

LEMMA Least ==
    ASSUME NEW T \in SUBSET Nat, T # {}
    PROVE  \E m \in T : \A n \in T : m <= n
  <1> DEFINE R == OpToRel(<, Nat)
  <1>1. IsWellFoundedOn(R, Nat)
    BY NatLessThanWellFounded, Zenon
  <1>2. \A x, y \in Nat : x < y => <<x, y>> \in R
    BY Zenon DEF OpToRel
  <1> HIDE DEF R
  <1>3. T \subseteq Nat
    OBVIOUS
  <1>4. PICK x \in T : \A y \in T : ~ (<<y, x>> \in R)
    BY <1>1, <1>3, WFMin, Zenon
  <1>5. \A y \in T : ~ (y < x)
    BY <1>2, <1>3, <1>4, Zenon
  <1> QED
    BY <1>3, <1>5

-----------------------------------------------------------------------------
(***************************************************************************)
(* The ready list as a set.                                                *)
(***************************************************************************)

\* Filtering a sequence keeps what it should and nothing else.
LEMMA KeptSet ==
    ASSUME NEW D, NEW s \in Seq(D), NEW S
    PROVE  Kept(s, S) \in Seq(D) /\ ToSet(Kept(s, S)) = ToSet(s) \cap S
  <1> DEFINE keep == {i \in DOMAIN s : s[i] \in S}
             upto(i) == {j \in keep : j <= i}
             rank == [i \in keep |-> Cardinality(upto(i))]
             n == Cardinality(keep)
             pick(m) == CHOOSE i \in keep : Cardinality(upto(i)) = m
  <1>1. DOMAIN s = 1..Len(s) /\ Len(s) \in Nat
    OBVIOUS
  <1>2. IsFiniteSet(keep) /\ n \in Nat /\ keep \subseteq Nat
    <2>1. IsFiniteSet(1..Len(s)) /\ keep \in SUBSET (1..Len(s))
      BY <1>1, FS_Interval
    <2>2. IsFiniteSet(keep)
      BY <2>1, FS_Subset
    <2> QED
      BY <1>1, <2>1, <2>2, FS_CardinalityType
  <1> HIDE DEF keep
  <1>3. ASSUME NEW i \in keep PROVE rank[i] \in 1..n /\ IsFiniteSet(upto(i))
    <2>1. upto(i) \in SUBSET keep
      OBVIOUS
    <2>2. IsFiniteSet(upto(i)) /\ Cardinality(upto(i)) <= n
      BY <1>2, <2>1, FS_Subset
    <2>3. i \in upto(i)
      BY <1>2
    <2>4. Cardinality(upto(i)) \in Nat /\ Cardinality(upto(i)) # 0
      <3>1. upto(i) # {}
        BY <2>3
      <3> HIDE DEF upto
      <3> QED
        BY <2>2, <3>1, FS_CardinalityType, FS_EmptySet
    <2> QED
      BY <1>2, <2>2, <2>4
  <1>4. ASSUME NEW i \in keep, NEW j \in keep, i < j PROVE rank[i] # rank[j]
    <2>1. upto(i) \in SUBSET upto(j)
      <3>1. i \in Nat /\ j \in Nat /\ \A m \in keep : m \in Nat
        BY <1>2
      <3>2. \A m \in keep : m <= i => m <= j
        BY <1>4, <3>1
      <3> QED
        BY <3>2, Zenon
    <2>2. j \in upto(j) /\ j \notin upto(i)
      BY <1>2, <1>4
    <2>3. upto(i) # upto(j)
      BY <2>2
    <2>4. Cardinality(upto(j)) # Cardinality(upto(i))
      BY <1>3, <2>1, <2>3, FS_Subset
    <2> QED
      BY <2>4
  <1>5. \A i, j \in keep : rank[i] = rank[j] => i = j
    BY <1>2, <1>4
  <1>6. rank \in Injection(keep, 1..n)
    BY <1>3, <1>5 DEF Injection, IsInjective
  <1>7. IsFiniteSet(1..n) /\ Cardinality(1..n) = n
    BY <1>2, FS_Interval
  <1>8. rank \in Surjection(keep, 1..n)
    BY <1>6, <1>7, FS_Injection
  <1>9. \A m \in 1..n : \E i \in keep : rank[i] = m
    BY <1>8 DEF Surjection
  <1>10. \A i \in keep : rank[i] = Cardinality(upto(i))
    OBVIOUS
  <1> HIDE DEF rank, upto
  <1>11. \A m \in 1..n : \E i \in keep : Cardinality(upto(i)) = m
    BY <1>9, <1>10
  <1>12. \A m \in 1..n : pick(m) \in keep /\ Cardinality(upto(pick(m))) = m
    BY <1>11, Zenon
  <1>13. \A i \in keep : rank[i] \in 1..n /\ pick(rank[i]) = i
    BY <1>3, <1>5, <1>12, <1>10, Zenon
  <1> HIDE DEF pick, n
  <1>14. Kept(s, S) = [m \in 1..n |-> s[pick(m)]]
    BY Zenon DEF Kept, keep, upto, pick, n
  <1>15. \A m \in 1..n : s[pick(m)] \in D /\ s[pick(m)] \in S
    BY <1>1, <1>12 DEF keep
  <1>16. Kept(s, S) \in Seq(D) /\ DOMAIN Kept(s, S) = 1..n
    BY <1>2, <1>14, <1>15
  <1>17. ToSet(s) \cap S = {s[i] : i \in keep}
    BY <1>1 DEF ToSet, keep
  <1>18. ToSet(Kept(s, S)) = {s[pick(m)] : m \in 1..n}
    BY <1>14, <1>16 DEF ToSet
  <1>19. {s[pick(m)] : m \in 1..n} = {s[i] : i \in keep}
    BY <1>12, <1>13, Zenon
  <1> QED
    BY <1>16, <1>17, <1>18, <1>19

-----------------------------------------------------------------------------
(***************************************************************************)
(* The inductive invariant.                                                *)
(***************************************************************************)

Descriptors == {keys_fd, listen_fd} \cup ClientFds

TypeOK ==
    /\ fdtab \in [ClientFds -> Conns \cup {NoConn}]
    /\ keys_client \in ClientFds \cup {NoFd}
    /\ backlog \in Seq(Conns)
    /\ rdl \in Seq(Descriptors)
    /\ evq \in Nat
    /\ sock \in [Panels -> Conns \cup {NoConn}]
    /\ DOMAIN alive = Panels

\* A panel that has ended holds no connection.
DeadInv == \A p \in Panels : sock[p] # NoConn => alive[p]

\* Whatever the daemon is doing, what it must still see is on the ready list;
\* while it is down there is nothing to see.
WakeInv == up => Ready \subseteq ToSet(rdl)
DownInv == ~up => evq = 0 /\ backlog = <<>> /\ OpenFds = {}

IInv == TypeOK /\ NoLeak /\ DeadInv /\ WakeInv /\ DownInv

LEMMA Numbers ==
    /\ \A f \in ClientFds : f \in Int /\ f # keys_fd /\ f # listen_fd /\ f # NoFd
    /\ NoConn \notin Conns
  BY ConstantsAssumption DEF ClientFds, keys_fd, listen_fd, NoFd, Conns

LEMMA InitInv == Init => IInv
  <1> SUFFICES ASSUME Init PROVE IInv
    OBVIOUS
  <1> USE DEF Init
  <1>1. TypeOK
    <2>1. backlog \in Seq(Conns) /\ rdl \in Seq(Descriptors)
      BY DEF Init
    <2> QED
      BY <2>1 DEF TypeOK
  <1>2. OpenFds = {}
    BY DEF OpenFds
  <1>3. NoLeak
    BY <1>2 DEF NoLeak
  <1>4. DeadInv
    BY DEF DeadInv
  <1>5. WakeInv
    BY DEF WakeInv
  <1>6. DownInv
    BY <1>2 DEF DownInv
  <1> QED
    BY <1>1, <1>3, <1>4, <1>5, <1>6 DEF IInv

\* The served descriptor is the open one.
LEMMA ServedIsOpen ==
    ASSUME IInv, keys_client # NoFd
    PROVE  keys_client \in ClientFds /\ fdtab[keys_client] \in Conns /\ OpenFds = {keys_client}
  <1>1. OpenFds = {keys_client} /\ keys_client \in ClientFds
    BY DEF IInv, NoLeak, TypeOK
  <1> QED
    BY <1>1 DEF OpenFds, IInv, TypeOK

LEMMA RousedSet ==
    ASSUME TypeOK, NEW f \in Descriptors
    PROVE  /\ Roused(f) \in Seq(Descriptors)
           /\ ToSet(rdl) \subseteq ToSet(Roused(f))
           /\ up => f \in ToSet(Roused(f))
  <1>1. rdl \in Seq(Descriptors)
    BY DEF TypeOK
  <1>2. CASE up /\ f \notin ToSet(rdl)
    <2>1. Roused(f) = Append(rdl, f)
      BY <1>2 DEF Roused
    <2>2. Append(rdl, f) \in Seq(Descriptors) /\ DOMAIN Append(rdl, f) = 1..(Len(rdl) + 1)
          /\ Append(rdl, f)[Len(rdl) + 1] = f /\ \A i \in 1..Len(rdl) : Append(rdl, f)[i] = rdl[i]
      BY <1>1
    <2>3. DOMAIN rdl = 1..Len(rdl) /\ Len(rdl) \in Nat
      BY <1>1
    <2>4. Len(rdl) + 1 \in 1..(Len(rdl) + 1) /\ 1..Len(rdl) \subseteq 1..(Len(rdl) + 1)
      BY <2>3
    <2> QED
      BY <2>1, <2>2, <2>3, <2>4, Zenon DEF ToSet
  <1>3. CASE ~ (up /\ f \notin ToSet(rdl))
    <2>1. Roused(f) = rdl
      BY <1>3 DEF Roused
    <2> QED
      BY <1>1, <1>3, <2>1
  <1> QED
    BY <1>2, <1>3

LEMMA ClosedSet ==
    ASSUME TypeOK, NEW f
    PROVE  Closed(f) \in Seq(Descriptors) /\ ToSet(Closed(f)) = ToSet(rdl) \ {f}
  <1>1. rdl \in Seq(Descriptors)
    BY DEF TypeOK
  <1>2. Closed(f) \in Seq(Descriptors) /\ ToSet(Closed(f)) = ToSet(rdl) \cap (ToSet(rdl) \ {f})
    BY <1>1, KeptSet DEF Closed
  <1> QED
    BY <1>2

-----------------------------------------------------------------------------
(***************************************************************************)
(* Every step keeps it.                                                    *)
(***************************************************************************)

LEMMA Quiet ==
    ASSUME IInv, UNCHANGED <<up, fdtab, keys_client, backlog, rdl, evq, sock, alive>>
    PROVE  IInv'
  BY DEF IInv, TypeOK, NoLeak, OpenFds, DeadInv, WakeInv, DownInv, Ready, Readable, PeerClosed

\* A panel without a connection connects.
LEMMA ConnectStep ==
    ASSUME IInv, NEW p \in Panels, sock[p] = NoConn, keys_connect(p),
           UNCHANGED <<up, fdtab, keys_client, evq>>,
           DOMAIN alive' = Panels, alive'[p], \A q \in Panels : alive[q] => alive'[q]
    PROVE  IInv'
  <1>1. CASE up
    <2>1. PICK c \in UnusedConns :
             /\ sock' = [sock EXCEPT ![p] = c]
             /\ backlog' = Append(backlog, c)
             /\ rdl' = Roused(listen_fd)
      BY <1>1 DEF keys_connect
    <2>2. c \in Conns /\ c # NoConn /\ \A q \in Panels : sock[q] # c
      BY Numbers DEF UnusedConns, PeerClosed
    <2>3. OpenFds' = OpenFds
      BY DEF OpenFds
    <2>4. /\ rdl' \in Seq(Descriptors) /\ ToSet(rdl) \subseteq ToSet(rdl')
          /\ listen_fd \in ToSet(rdl')
      BY <1>1, <2>1, RousedSet DEF IInv, Descriptors
    <2>5. TypeOK'
      BY <2>1, <2>2, <2>4 DEF IInv, TypeOK
    <2>6. NoLeak'
      BY <2>3 DEF IInv, NoLeak
    <2>7. sock'[p] = c /\ \A q \in Panels \ {p} : sock'[q] = sock[q]
      BY <2>1 DEF IInv, TypeOK
    <2>8. DeadInv'
      BY <2>7 DEF IInv, DeadInv
    <2>10. WakeInv'
      <3>1. ASSUME NEW f \in Ready', f # listen_fd PROVE f \in Ready
        <4>1. CASE f \in OpenFds /\ PeerClosed(fdtab[f])'
          <5>1. \A q \in Panels : sock[q] # fdtab[f]
            BY <2>7, <4>1 DEF PeerClosed, OpenFds
          <5> QED
            BY <4>1, <5>1 DEF Ready, Readable, PeerClosed, OpenFds
        <4>2. CASE ~ (f \in OpenFds /\ PeerClosed(fdtab[f])')
          BY <2>3, <3>1, <4>2 DEF Ready, Readable, PeerClosed
        <4> QED
          BY <4>1, <4>2
      <3> QED
        BY <1>1, <2>4, <3>1 DEF IInv, WakeInv
    <2>11. DownInv'
      BY <1>1 DEF DownInv
    <2> QED
      BY <2>5, <2>6, <2>8, <2>10, <2>11 DEF IInv
  <1>2. CASE ~ up
    <2>1. UNCHANGED <<sock, backlog, rdl>>
      BY <1>2 DEF keys_connect
    <2>2. TypeOK' /\ NoLeak'
      BY <2>1 DEF IInv, TypeOK, NoLeak, OpenFds
    <2>3. DeadInv'
      BY <2>1 DEF IInv, DeadInv
    <2>4. WakeInv' /\ DownInv'
      BY <1>2, <2>1 DEF IInv, WakeInv, DownInv, OpenFds
    <2> QED
      BY <2>2, <2>3, <2>4 DEF IInv
  <1> QED
    BY <1>1, <1>2

\* The daemon closes its client.
LEMMA CloseStep ==
    ASSUME IInv, up, fdtab' = [fdtab EXCEPT ![keys_client] = NoConn],
           keys_client' = NoFd, rdl' = Closed(keys_client),
           UNCHANGED <<up, backlog, evq, sock, alive>>
    PROVE  IInv'
  <1>1. \A f \in ClientFds : fdtab'[f] = IF f = keys_client THEN NoConn ELSE fdtab[f]
    BY DEF IInv, TypeOK
  <1>2. OpenFds' = {}
    BY <1>1 DEF IInv, NoLeak, OpenFds
  <1>3. rdl' \in Seq(Descriptors) /\ ToSet(rdl') = ToSet(rdl) \ {keys_client}
    BY ClosedSet DEF IInv
  <1>4. TypeOK'
    BY <1>3 DEF IInv, TypeOK
  <1>5. NoLeak' /\ DeadInv'
    BY <1>2 DEF IInv, NoLeak, DeadInv
  <1>6. WakeInv'
    <2>1. ASSUME NEW f \in Ready' PROVE f \in Ready /\ f \in {keys_fd, listen_fd}
      BY <1>2 DEF Ready, Readable
    <2>2. keys_client \notin {keys_fd, listen_fd}
      BY Numbers DEF IInv, TypeOK, NoFd, keys_fd, listen_fd
    <2> QED
      BY <1>3, <2>1, <2>2 DEF IInv, WakeInv
  <1>7. DownInv'
    BY DEF DownInv
  <1> QED
    BY <1>4, <1>5, <1>6, <1>7 DEF IInv

\* A connection is accepted and the client it displaces closed.
LEMMA ListenStep == IInv /\ HandleListen => IInv'
  <1> SUFFICES ASSUME IInv, HandleListen PROVE IInv'
    OBVIOUS
  <1> DEFINE new == LowestFreeFd
  <1>1. /\ up /\ backlog # <<>> /\ backlog' = Tail(backlog) /\ ClientFds \ OpenFds # {}
        /\ keys_client' = new
        /\ fdtab' = [f \in ClientFds |->
                        IF f = new THEN Head(backlog)
                        ELSE IF f = keys_client THEN NoConn ELSE fdtab[f]]
        /\ rdl' = IF PeerClosed(Head(backlog)) THEN Append(Closed(keys_client), new)
                  ELSE Closed(keys_client)
        /\ UNCHANGED <<up, evq, sock, alive>>
    BY DEF HandleListen, input, panels
  <1>2. new \in ClientFds
    <2>1. ClientFds \ OpenFds \in SUBSET Nat
      BY ConstantsAssumption DEF ClientFds
    <2>2. \E f \in ClientFds \ OpenFds : \A g \in ClientFds \ OpenFds : f <= g
      BY <1>1, <2>1, Least
    <2> QED
      BY <2>2, Zenon DEF LowestFreeFd
  <1> HIDE DEF new
  <1>3. Head(backlog) \in Conns /\ Tail(backlog) \in Seq(Conns) /\ Head(backlog) # NoConn
    BY <1>1, Numbers DEF IInv, TypeOK
  <1>4. OpenFds' = {new}
    BY <1>1, <1>2, <1>3 DEF IInv, NoLeak, OpenFds
  <1>5. Closed(keys_client) \in Seq(Descriptors) /\ ToSet(Closed(keys_client)) = ToSet(rdl) \ {keys_client}
    BY ClosedSet DEF IInv
  <1>6. /\ rdl' \in Seq(Descriptors) /\ ToSet(rdl) \ {keys_client} \subseteq ToSet(rdl')
        /\ PeerClosed(Head(backlog)) => new \in ToSet(rdl')
    <2> DEFINE c == Closed(keys_client)
    <2> HIDE DEF c
    <2>0. c \in Seq(Descriptors) /\ ToSet(c) = ToSet(rdl) \ {keys_client} /\ new \in Descriptors
      BY <1>2, <1>5 DEF c, Descriptors
    <2>1. /\ Append(c, new) \in Seq(Descriptors) /\ DOMAIN Append(c, new) = 1..(Len(c) + 1)
          /\ Append(c, new)[Len(c) + 1] = new /\ \A i \in 1..Len(c) : Append(c, new)[i] = c[i]
      BY <2>0
    <2>2. DOMAIN c = 1..Len(c) /\ Len(c) \in Nat
      BY <2>0
    <2>3. Len(c) + 1 \in 1..(Len(c) + 1) /\ 1..Len(c) \subseteq 1..(Len(c) + 1)
      BY <2>2
    <2>4. ToSet(c) \subseteq ToSet(Append(c, new)) /\ new \in ToSet(Append(c, new))
      BY <2>1, <2>2, <2>3, Zenon DEF ToSet
    <2>5. rdl' = IF PeerClosed(Head(backlog)) THEN Append(c, new) ELSE c
      BY <1>1 DEF c
    <2> QED
      BY <2>0, <2>1, <2>4, <2>5
  <1>7. TypeOK'
    BY <1>1, <1>2, <1>3, <1>6 DEF IInv, TypeOK
  <1>8. NoLeak' /\ DeadInv'
    BY <1>1, <1>2, <1>4, Numbers DEF IInv, NoLeak, DeadInv
  <1>9. WakeInv'
    <2>1. fdtab'[new] = Head(backlog)
      BY <1>1, <1>2
    <2>2. ASSUME NEW f \in Ready' PROVE f \in ToSet(rdl')
      <3>1. CASE f \in OpenFds'
        <4>1. f = new /\ f \notin {keys_fd, listen_fd}
          BY <1>2, <1>4, <3>1, Numbers
        <4>2. PeerClosed(Head(backlog))
          BY <1>1, <2>1, <2>2, <4>1 DEF Ready, Readable, PeerClosed
        <4> QED
          BY <1>6, <4>1, <4>2
      <3>2. CASE f \notin OpenFds'
        <4>1. f \in {keys_fd, listen_fd} /\ f \in Ready
          BY <1>1, <2>2, <3>2 DEF Ready, Readable
        <4>2. f # keys_client
          BY <4>1, Numbers DEF IInv, TypeOK, NoFd, keys_fd, listen_fd
        <4> QED
          BY <1>1, <1>6, <4>1, <4>2 DEF IInv, WakeInv
      <3> QED
        BY <3>1, <3>2
    <2> QED
      BY <2>2 DEF WakeInv
  <1>10. DownInv'
    BY <1>1 DEF DownInv
  <1> QED
    BY <1>7, <1>8, <1>9, <1>10 DEF IInv

\* A panel ends: its connection, if it has one, is the daemon's to close.
LEMMA ExitStep ==
    ASSUME IInv, NEW p \in Panels, PanelExit(p)
    PROVE  IInv'
  <1>1. /\ alive' = [alive EXCEPT ![p] = FALSE] /\ sock' = [sock EXCEPT ![p] = NoConn]
        /\ rdl' = IF \E f \in OpenFds : fdtab[f] = sock[p]
                  THEN Roused(CHOOSE f \in OpenFds : fdtab[f] = sock[p])
                  ELSE rdl
        /\ UNCHANGED <<up, fdtab, keys_client, backlog, evq>>
    BY DEF PanelExit, daemon, input
  <1>2. OpenFds' = OpenFds /\ OpenFds \subseteq ClientFds
    BY <1>1 DEF OpenFds
  <1>3. \A f, g \in OpenFds : f = g
    BY DEF IInv, NoLeak
  <1>4. /\ rdl' \in Seq(Descriptors) /\ ToSet(rdl) \subseteq ToSet(rdl')
        /\ \A f \in OpenFds : up /\ fdtab[f] = sock[p] => f \in ToSet(rdl')
    <2>1. CASE \E f \in OpenFds : fdtab[f] = sock[p]
      <3>1. PICK f \in OpenFds : fdtab[f] = sock[p]
        BY <2>1
      <3>2. (CHOOSE g \in OpenFds : fdtab[g] = sock[p]) = f
        BY <1>3, <3>1
      <3>3. rdl' = Roused(f) /\ f \in Descriptors
        BY <1>1, <1>2, <2>1, <3>2 DEF Descriptors
      <3> QED
        BY <1>3, <3>3, RousedSet DEF IInv
    <2>2. CASE ~ \E f \in OpenFds : fdtab[f] = sock[p]
      BY <1>1, <2>2 DEF IInv, TypeOK
    <2> QED
      BY <2>1, <2>2
  <1>5. sock'[p] = NoConn /\ \A q \in Panels \ {p} : sock'[q] = sock[q] /\ alive'[q] = alive[q]
    BY <1>1 DEF IInv, TypeOK
  <1>6. TypeOK'
    BY <1>1, <1>4 DEF IInv, TypeOK
  <1>7. NoLeak' /\ DownInv'
    BY <1>1, <1>2 DEF IInv, NoLeak, DownInv
  <1>8. DeadInv'
    BY <1>5 DEF IInv, DeadInv
  <1>9. WakeInv'
    <2> SUFFICES ASSUME up, NEW f \in Ready' PROVE f \in ToSet(rdl')
      BY <1>1 DEF WakeInv
    <2>1. CASE f \in OpenFds /\ PeerClosed(fdtab[f])' /\ fdtab[f] # sock[p]
      <3>1. \A q \in Panels : sock[q] # fdtab[f]
        BY <1>1, <1>5, <2>1 DEF PeerClosed
      <3>2. f \in Ready
        BY <2>1, <3>1 DEF Ready, Readable, PeerClosed, OpenFds
      <3> QED
        BY <1>4, <3>2 DEF IInv, WakeInv
    <2>2. CASE f \in OpenFds /\ fdtab[f] = sock[p]
      BY <1>4, <2>2
    <2>3. CASE ~ (f \in OpenFds /\ PeerClosed(fdtab[f])')
      <3>1. f \in Ready
        BY <1>1, <1>2, <2>3 DEF Ready, Readable, PeerClosed
      <3> QED
        BY <1>4, <3>1 DEF IInv, WakeInv
    <2> QED
      BY <2>1, <2>2, <2>3
  <1> QED
    BY <1>6, <1>7, <1>8, <1>9 DEF IInv

LEMMA ReadStep ==
    ASSUME IInv, NEW p \in Panels, PanelRead(p)
    PROVE  IInv'
  <1>1. UNCHANGED <<up, fdtab, keys_client, backlog, rdl, evq, alive>>
    BY DEF PanelRead, daemon, input
  <1>2. CASE UNCHANGED sock
    BY <1>1, <1>2, Quiet
  <1>3. CASE ~ UNCHANGED sock
    <2>1. sock' = [sock EXCEPT ![p] = NoConn] /\ ServerClosed(sock[p])
      BY <1>3 DEF PanelRead
    <2>2. OpenFds' = OpenFds /\ \A f \in OpenFds : fdtab[f] # sock[p]
      BY <1>1, <2>1 DEF OpenFds, ServerClosed
    <2>3. sock'[p] = NoConn /\ \A q \in Panels \ {p} : sock'[q] = sock[q]
      BY <2>1 DEF IInv, TypeOK
    <2>4. TypeOK'
      BY <1>1, <2>1 DEF IInv, TypeOK
    <2>5. NoLeak' /\ DownInv' /\ DeadInv'
      BY <1>1, <2>2, <2>3 DEF IInv, NoLeak, DownInv, DeadInv
    <2>6. WakeInv'
      <3>1. ASSUME NEW f \in Ready' PROVE f \in Ready
        <4>1. CASE f \in OpenFds /\ PeerClosed(fdtab[f])'
          <5>1. \A q \in Panels : sock[q] # fdtab[f]
            BY <1>1, <2>2, <2>3, <4>1 DEF PeerClosed
          <5> QED
            BY <4>1, <5>1 DEF Ready, Readable, PeerClosed, OpenFds
        <4>2. CASE ~ (f \in OpenFds /\ PeerClosed(fdtab[f])')
          BY <1>1, <2>2, <3>1, <4>2 DEF Ready, Readable, PeerClosed
        <4> QED
          BY <4>1, <4>2
      <3> QED
        BY <1>1, <3>1 DEF IInv, WakeInv
    <2> QED
      BY <2>4, <2>5, <2>6 DEF IInv
  <1> QED
    BY <1>2, <1>3

LEMMA PanelStep ==
    ASSUME IInv, NEW p \in Panels,
           PanelStart(p) \/ PanelTick(p) \/ PanelRead(p) \/ PanelExit(p)
    PROVE  IInv'
  <1>1. CASE PanelStart(p)
    <2>1. /\ keys_connect(p) /\ ~ alive[p] /\ alive' = [alive EXCEPT ![p] = TRUE]
          /\ UNCHANGED <<up, fdtab, keys_client, evq>>
      BY <1>1 DEF PanelStart, daemon, input
    <2>2. DOMAIN alive' = Panels /\ alive'[p] /\ \A q \in Panels \ {p} : alive'[q] = alive[q]
      BY <2>1 DEF IInv, TypeOK
    <2>3. sock[p] = NoConn
      BY <2>1 DEF IInv, DeadInv
    <2> QED
      BY <2>1, <2>2, <2>3, ConnectStep
  <1>2. CASE PanelTick(p)
    <2>1. /\ keys_connect(p) /\ alive[p] /\ sock[p] = NoConn
          /\ UNCHANGED <<up, fdtab, keys_client, evq, alive>>
      BY <1>2 DEF PanelTick, daemon, input
    <2> QED
      BY <2>1, ConnectStep DEF IInv, TypeOK
  <1> QED
    BY <1>1, <1>2, ReadStep, ExitStep

\* An event is queued, or read.
LEMMA EventStep ==
    ASSUME IInv, KeyEvent \/ HandleKeys
    PROVE  IInv'
  <1>1. UNCHANGED <<up, fdtab, keys_client, backlog, sock, alive>>
    BY DEF KeyEvent, HandleKeys, daemon, panels
  <1>2. /\ rdl' \in Seq(Descriptors) /\ ToSet(rdl) \subseteq ToSet(rdl')
        /\ evq' \in Nat /\ (~ up => evq' = evq)
        /\ up /\ evq' > 0 => keys_fd \in ToSet(rdl')
    <2>1. CASE KeyEvent
      <3>1. rdl' = Roused(keys_fd) /\ evq' = (IF up THEN evq + 1 ELSE evq) /\ evq \in Nat
        BY <2>1 DEF KeyEvent, IInv, TypeOK
      <3> QED
        BY <3>1, RousedSet DEF IInv, Descriptors
    <2>2. CASE HandleKeys
      <3>1. up /\ evq > 0 /\ evq' = evq - 1 /\ rdl' = rdl /\ evq \in Nat
        BY <2>2 DEF HandleKeys, IInv, TypeOK
      <3>2. keys_fd \in Ready
        BY <3>1 DEF Ready, Readable
      <3> QED
        BY <3>1, <3>2 DEF IInv, WakeInv, TypeOK
    <2> QED
      BY <2>1, <2>2
  <1>3. TypeOK' /\ NoLeak' /\ DeadInv' /\ DownInv'
    BY <1>1, <1>2 DEF IInv, TypeOK, NoLeak, OpenFds, DeadInv, DownInv
  <1>4. WakeInv'
    <2>1. ASSUME up, NEW f \in Ready', f # keys_fd PROVE f \in Ready
      BY <1>1, <2>1 DEF Ready, Readable, OpenFds, PeerClosed
    <2>2. keys_fd \in Ready' => evq' > 0
      BY Numbers DEF Ready, Readable, OpenFds, keys_fd, listen_fd
    <2> QED
      BY <1>1, <1>2, <2>1, <2>2 DEF IInv, WakeInv
  <1> QED
    BY <1>3, <1>4 DEF IInv

LEMMA StepInv == IInv /\ [Next]_vars => IInv'
  <1> SUFFICES ASSUME IInv, [Next]_vars PROVE IInv'
    OBVIOUS
  <1> USE DEF daemon, input, panels
  <1>1. CASE \E p \in Panels : PanelStart(p) \/ PanelTick(p) \/ PanelRead(p) \/ PanelExit(p)
    BY <1>1, PanelStep
  <1>2. CASE KeyEvent \/ HandleKeys
    BY <1>2, EventStep
  <1>3. CASE epoll_wait
    <2>1. rdl' = Kept(rdl, Ready) /\ UNCHANGED <<up, fdtab, keys_client, backlog, evq, sock, alive>>
      BY <1>3 DEF epoll_wait
    <2>2. rdl' \in Seq(Descriptors) /\ ToSet(rdl') = ToSet(rdl) \cap Ready
      BY <2>1, KeptSet DEF IInv, TypeOK
    <2>3. Ready' = Ready /\ OpenFds' = OpenFds
      BY <2>1 DEF Ready, Readable, OpenFds, PeerClosed
    <2> QED
      BY <2>1, <2>2, <2>3 DEF IInv, TypeOK, NoLeak, DeadInv, WakeInv, DownInv
  <1>4. CASE SendToken
    <2>1. CASE UNCHANGED <<fdtab, keys_client, rdl>>
      BY <1>4, <2>1, Quiet DEF SendToken
    <2> QED
      BY <1>4, <2>1, CloseStep DEF SendToken
  <1>5. CASE HandleListen
    BY <1>5, ListenStep
  <1>6. CASE HandleClient
    BY <1>6, CloseStep DEF HandleClient
  <1>7. CASE HandleStale \/ HandleTimeout
    BY <1>7, Quiet DEF HandleStale, HandleTimeout
  <1>8. CASE DaemonExit
    <2>1. /\ up' = FALSE /\ fdtab' = [f \in ClientFds |-> NoConn] /\ keys_client' = NoFd
          /\ evq' = 0 /\ UNCHANGED <<sock, alive>>
      BY <1>8 DEF DaemonExit
    <2>2. backlog' = <<>> /\ rdl' = <<>>
      BY <1>8 DEF DaemonExit
    <2>3. backlog' \in Seq(Conns) /\ rdl' \in Seq(Descriptors)
      BY <2>2
    <2>4. OpenFds' = {}
      BY <2>1 DEF OpenFds
    <2>5. TypeOK'
      BY <2>1, <2>3 DEF IInv, TypeOK
    <2>6. NoLeak' /\ DeadInv'
      BY <2>1, <2>4 DEF IInv, NoLeak, DeadInv
    <2>7. WakeInv' /\ DownInv'
      BY <2>1, <2>2, <2>4 DEF WakeInv, DownInv
    <2> QED
      BY <2>5, <2>6, <2>7 DEF IInv
  <1>9. CASE DaemonStart
    <2>1. ~ up /\ up' = TRUE /\ UNCHANGED <<fdtab, keys_client, backlog, rdl, evq, sock, alive>>
      BY <1>9 DEF DaemonStart
    <2>2. Ready' = {} /\ OpenFds' = OpenFds
      BY <2>1 DEF IInv, DownInv, Ready, Readable, OpenFds
    <2> QED
      BY <2>1, <2>2 DEF IInv, TypeOK, NoLeak, DeadInv, WakeInv, DownInv
  <1>10. CASE UNCHANGED vars
    BY <1>10, Quiet DEF vars
  <1> QED
    BY <1>1, <1>2, <1>3, <1>4, <1>5, <1>6, <1>7, <1>8, <1>9, <1>10 DEF Next, DaemonStep

-----------------------------------------------------------------------------
(***************************************************************************)
(* The theorems.                                                           *)
(***************************************************************************)

\* The daemon holds no client descriptor but the one it serves, however many
\* panels displace each other or die (keys_command, keys_deliver).
THEOREM DescriptorsDoNotLeak == Spec => []NoLeak
  <1>1. IInv => NoLeak
    BY DEF IInv
  <1> QED
    BY <1>1, InitInv, StepInv, PTL DEF Spec

\* Whatever the daemon has to see is on epoll's ready list, also a panel that
\* was gone before its connection was accepted (EPOLL_CTL_ADD in keys_command):
\* the safety half of GoneIsNoticed.
THEOREM WakeupsAreNotLost == Spec => []WakeInv
  <1>1. IInv => WakeInv
    BY DEF IInv
  <1> QED
    BY <1>1, InitInv, StepInv, PTL DEF Spec

\* Without a live panel every click that is not swallowed switches the
\* display, also when the write to a dead client fails (keys_deliver).
THEOREM ClicksFallBack == Spec => PowerFallsBack
  <1>1. IInv /\ SendToken /\ token = "click" /\ (\A p \in Panels : ~alive[p]) => lit' = ~lit
    <2> SUFFICES ASSUME IInv, SendToken, token = "click", \A p \in Panels : ~alive[p]
                 PROVE  lit' = ~lit
      OBVIOUS
    <2>1. ASSUME keys_client # NoFd PROVE PeerClosed(fdtab[keys_client])
      <3>1. fdtab[keys_client] # NoConn
        BY <2>1, ServedIsOpen, Numbers
      <3> QED
        BY <3>1 DEF IInv, DeadInv, PeerClosed
    <2>2. Fallback
      BY <2>1 DEF SendToken
    <2> QED
      BY <2>2 DEF Fallback
  <1> QED
    BY <1>1, InitInv, StepInv, PTL DEF Spec, PowerFallsBack
=============================================================================

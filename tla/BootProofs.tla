------------------------------- MODULE BootProofs -------------------------------
(***************************************************************************)
(* PairsDistinct and HeardAreBridged of Boot, for every number of DACs,     *)
(* sockets and addresses: what was heard is paired one to one, also when    *)
(* counting up from the base address wraps.                                *)
(***************************************************************************)
EXTENDS Boot, FiniteSetTheorems, TLAPS

\* Every DAC that was heard has one entry.
HeardInv ==
    /\ dacs \in Seq(Broadcast)
    /\ \A k \in DOMAIN dacs : dacs[k].mac \in seen
    /\ \A d \in seen : \E k \in DOMAIN dacs : dacs[k].mac = d
    /\ \A j, k \in DOMAIN dacs : dacs[j].mac = dacs[k].mac => j = k

\* The addresses are those Assigned.
AssignedInv ==
    /\ given \in CommandLines
    /\ pc \notin {"args", "exit"} => given # << >>
    /\ pc \in {"bridge", "running"} => ips = Assigned

\* The bridges so far are the first DACs with the first addresses.
BridgesInv ==
    /\ bridges \in Seq([mac : Dac, dacIp : Addr, fb4Ip : Addr, serial : Nat])
    /\ bridges # << >> => pc \in {"bridge", "running"}
    /\ \A k \in DOMAIN bridges :
         /\ k \in DOMAIN dacs /\ k \in DOMAIN ips
         /\ bridges[k].mac = dacs[k].mac
         /\ bridges[k].fb4Ip = ips[k]
         /\ bridges[k].serial = SerialOf(k)
    /\ pc = "running" => Len(bridges) = Bridged

PairInv == HeardInv /\ AssignedInv /\ BridgesInv

\* There is a socket to listen on.
SocketsInv == pc = "listen" => socks > 0

IInv == PairingTypeOK /\ PairInv /\ SocketsInv

-----------------------------------------------------------------------------
(* Counting up.                                                            *)

\* Less than a turn of the address space apart, no two addresses are the same.
LEMMA OffsetsDistinct ==
    ASSUME NEW base \in Addr, NEW j \in 0..(AddrMod - 1), NEW k \in 0..(AddrMod - 1),
           IpOffset(base, j) = IpOffset(base, k)
    PROVE  j = k
<1>1. AddrMod \in Nat \ {0}
  BY PairingAssumption
<1>2. ASSUME NEW x \in 0..(2 * AddrMod - 1)
      PROVE  x % AddrMod = IF x < AddrMod THEN x ELSE x - AddrMod
  <2>1. CASE x < AddrMod
    BY <1>1, <2>1
  <2>2. CASE x >= AddrMod
    <3>1. x - AddrMod \in 0..(AddrMod - 1)
      BY <1>1, <2>2
    <3>2. ((x - AddrMod) + AddrMod) % AddrMod = x - AddrMod
      BY <1>1, <3>1
    <3> QED
      BY <1>1, <2>2, <3>2
  <2> QED
    BY <1>1, <2>1, <2>2
<1>3. /\ base + j \in 0..(2 * AddrMod - 1)
      /\ base + k \in 0..(2 * AddrMod - 1)
      /\ base \in 0..(AddrMod - 1)
  BY <1>1 DEF Addr
<1>4. (base + j) % AddrMod = (base + k) % AddrMod
  BY DEF IpOffset
<1> QED
  BY <1>1, <1>2, <1>3, <1>4

\* There are no more entries than DACs.
LEMMA FewEnough ==
    ASSUME HeardInv
    PROVE  Len(dacs) \in 0..AddrMod
<1>1. dacs \in Seq(Broadcast) /\ Len(dacs) \in Nat /\ DOMAIN dacs = 1..Len(dacs)
  BY DEF HeardInv
<1> DEFINE f == [k \in 1..Len(dacs) |-> dacs[k].mac]
<1>2. f \in Injection(1..Len(dacs), Dac)
  <2>1. \A k \in 1..Len(dacs) : dacs[k].mac \in Dac
    <3> SUFFICES ASSUME NEW k \in 1..Len(dacs) PROVE dacs[k].mac \in Dac
      OBVIOUS
    <3>1. dacs[k] \in Broadcast
      BY <1>1
    <3> QED
      BY <3>1 DEF Broadcast
  <2> QED
    BY <1>1, <2>1 DEF HeardInv, Injection, IsInjective
<1>3. Cardinality(1..Len(dacs)) <= Cardinality(Dac)
  BY <1>2, PairingAssumption, FS_Injection
<1>4. Cardinality(1..Len(dacs)) = Len(dacs)
  BY <1>1, FS_Interval
<1>5. Cardinality(Dac) \in Nat
  BY PairingAssumption, FS_CardinalityType
<1> QED
  BY <1>1, <1>3, <1>4, <1>5, PairingAssumption

\* The assigned addresses are addresses, no two of them the same.
LEMMA AddressesDistinct ==
    ASSUME HeardInv, given \in CommandLines
    PROVE  /\ Assigned \in Seq(Addr)
           /\ \A j, k \in DOMAIN Assigned : Assigned[j] = Assigned[k] => j = k
<1>1. given \in Seq(Addr) /\ IsInjective(given)
  BY PairingAssumption 
<1>2. CASE Len(given) = 1
  <2>1. given[1] \in Addr
    BY <1>1, <1>2
  <2>2. Len(dacs) \in Nat /\ Len(dacs) <= AddrMod /\ AddrMod \in Nat \ {0}
    BY FewEnough, PairingAssumption
  <2>3. Assigned = [k \in 1..Len(dacs) |-> IpOffset(given[1], k - 1)]
    BY <1>2 DEF Assigned
  <2>4. \A k \in 1..Len(dacs) : k - 1 \in 0..(AddrMod - 1)
    BY <2>2
  <2>5. \A k \in 1..Len(dacs) : IpOffset(given[1], k - 1) \in Addr
    <3> SUFFICES ASSUME NEW k \in 1..Len(dacs) PROVE IpOffset(given[1], k - 1) \in Addr
      OBVIOUS
    <3>1. given[1] + (k - 1) \in Nat
      BY <2>1, <2>2, <2>4 DEF Addr
    <3>2. (given[1] + (k - 1)) % AddrMod \in 0..(AddrMod - 1)
      BY <2>2, <3>1
    <3> QED
      BY <3>2 DEF IpOffset, Addr
  <2>6. Assigned \in Seq(Addr) /\ DOMAIN Assigned = 1..Len(dacs)
    BY <2>2, <2>3, <2>5
  <2>7. ASSUME NEW j \in DOMAIN Assigned, NEW k \in DOMAIN Assigned, Assigned[j] = Assigned[k]
        PROVE  j = k
    <3>1. IpOffset(given[1], j - 1) = IpOffset(given[1], k - 1)
      BY <2>3, <2>6, <2>7
    <3>2. j - 1 = k - 1
      BY <2>1, <2>4, <2>6, <3>1, OffsetsDistinct
    <3> QED
      BY <2>2, <2>6, <3>2
  <2> QED
    BY <2>6, <2>7
<1>3. CASE Len(given) # 1
  BY <1>1, <1>3 DEF Assigned, IsInjective
<1> QED
  BY <1>2, <1>3

-----------------------------------------------------------------------------
(* Steps.                                                                  *)

\* A broadcast that is read adds its DAC once.
LEMMA ReceiveStep ==
    ASSUME PairingTypeOK, PairInv, Receive
    PROVE  PairInv'
<1>1. pc = "listen" /\ UNCHANGED <<given, pc, ips, bridges>>
  BY DEF Receive
<1>2. bridges = << >>
  BY <1>1 DEF PairInv, BridgesInv
<1>3. HeardInv'
  <2>1. CASE UNCHANGED <<seen, dacs>>
    BY <2>1 DEF PairInv, HeardInv
  <2>2. CASE queue[turn] # << >>
    <3> DEFINE b == Head(queue[turn])
    <3>1. b \in Broadcast
      <4>1. queue[turn] \in Seq(Broadcast)
        BY DEF PairingTypeOK
      <4> QED
        BY <2>2, <4>1
    <3>2. seen' = seen \cup {b.mac} /\ dacs' = IF Known(b) THEN dacs ELSE Append(dacs, b)
      BY <2>2 DEF Receive
    <3>3. CASE b.mac \in seen
      BY <3>2, <3>3 DEF PairInv, HeardInv, Known
    <3>4. CASE b.mac \notin seen
      <4> HIDE DEF b
      <4>1. dacs' = Append(dacs, b) /\ dacs \in Seq(Broadcast)
        BY <3>2, <3>4 DEF PairInv, HeardInv, Known
      <4>2. /\ dacs' \in Seq(Broadcast) /\ Len(dacs) \in Nat
            /\ DOMAIN dacs = 1..Len(dacs) /\ DOMAIN dacs' = 1..(Len(dacs) + 1)
            /\ \A k \in DOMAIN dacs : dacs'[k] = dacs[k]
            /\ dacs'[Len(dacs) + 1] = b
        BY <3>1, <4>1
      <4>3. \A k \in DOMAIN dacs' : dacs'[k].mac \in seen'
        BY <3>2, <4>2 DEF PairInv, HeardInv
      <4>4. \A d \in seen' : \E k \in DOMAIN dacs' : dacs'[k].mac = d
        <5> SUFFICES ASSUME NEW d \in seen' PROVE \E k \in DOMAIN dacs' : dacs'[k].mac = d
          OBVIOUS
        <5>1. CASE d \in seen
          <6>1. PICK k \in DOMAIN dacs : dacs[k].mac = d
            BY <5>1 DEF PairInv, HeardInv
          <6> QED
            BY <4>2, <6>1
        <5>2. CASE d = b.mac
          BY <4>2, <5>2
        <5> QED
          BY <3>2, <5>1, <5>2
      <4>5. \A j, k \in DOMAIN dacs' : dacs'[j].mac = dacs'[k].mac => j = k
        BY <3>4, <4>2 DEF PairInv, HeardInv
      <4> QED
        BY <4>2, <4>3, <4>4, <4>5 DEF HeardInv
    <3> QED
      BY <3>3, <3>4
  <2> QED
    BY <2>1, <2>2 DEF Receive
<1>4. AssignedInv' /\ BridgesInv'
  BY <1>1, <1>2 DEF PairInv, AssignedInv, BridgesInv
<1> QED
  BY <1>3, <1>4 DEF PairInv

\* A bridge that is started takes the next DAC and the next address.
LEMMA BridgeStep ==
    ASSUME PairInv, Bridge
    PROVE  PairInv'
<1> DEFINE k == Len(bridges) + 1
           b == [mac |-> dacs[k].mac, dacIp |-> dacs[k].ip,
                 fb4Ip |-> ips[k], serial |-> SerialOf(k)]
<1>1. /\ pc = "bridge" /\ bridges' = Append(bridges, b) /\ Len(bridges) < Bridged
      /\ UNCHANGED <<given, pc, seen, dacs, ips>>
  BY DEF Bridge
<1>2. /\ bridges \in Seq([mac : Dac, dacIp : Addr, fb4Ip : Addr, serial : Nat])
      /\ dacs \in Seq(Broadcast)
  BY DEF PairInv, HeardInv, BridgesInv
<1>3. ips \in Seq(Addr)
  BY <1>1, AddressesDistinct DEF PairInv, AssignedInv
<1>4. k \in DOMAIN dacs /\ k \in DOMAIN ips /\ k \in Nat \ {0}
  BY <1>1, <1>2, <1>3 DEF Bridged
<1>5. b \in [mac : Dac, dacIp : Addr, fb4Ip : Addr, serial : Nat]
  <2>1. dacs[k] \in Broadcast /\ ips[k] \in Addr
    BY <1>2, <1>3, <1>4
  <2>2. SerialOf(k) \in Nat
    BY <1>4 DEF SerialOf
  <2> QED
    BY <2>1, <2>2 DEF Broadcast
<1> HIDE DEF b
<1>6. /\ bridges' \in Seq([mac : Dac, dacIp : Addr, fb4Ip : Addr, serial : Nat])
      /\ DOMAIN bridges' = DOMAIN bridges \cup {k}
      /\ \A i \in DOMAIN bridges : bridges'[i] = bridges[i]
      /\ bridges'[k] = b
  BY <1>1, <1>2, <1>5
<1>7. b.mac = dacs[k].mac /\ b.fb4Ip = ips[k] /\ b.serial = SerialOf(k)
  BY DEF b
<1>8. BridgesInv'
  BY <1>1, <1>4, <1>6, <1>7 DEF PairInv, BridgesInv
<1> QED
  BY <1>1, <1>8 DEF PairInv, HeardInv, AssignedInv, Assigned

\* Every step of the whole start keeps what is paired one to one.
LEMMA PairStep == PairingTypeOK /\ PairInv /\ [Next]_vars => PairInv'
<1> SUFFICES ASSUME PairingTypeOK, PairInv, [Next]_vars PROVE PairInv'
  OBVIOUS
<1>1. CASE ReadArgs
  BY <1>1 DEF ReadArgs, PairInv, HeardInv, AssignedInv, BridgesInv, Assigned
<1>2. CASE OpenSockets
  BY <1>2 DEF OpenSockets, PairInv, HeardInv, AssignedInv, BridgesInv, Assigned
<1>3. CASE Receive
  BY <1>3, ReceiveStep
<1>4. CASE ListenEnds
  BY <1>4 DEF ListenEnds, Assigned, PairInv, HeardInv, AssignedInv, BridgesInv
<1>5. CASE Assign
  BY <1>5 DEF Assign, Assigned, PairInv, HeardInv, AssignedInv, BridgesInv
<1>6. CASE Running
  BY <1>6 DEF Running, Bridged, Assigned, PairInv, HeardInv, AssignedInv, BridgesInv
<1>7. CASE StartBridge
  BY <1>7, BridgeStep DEF StartBridge
<1>8. CASE Environment \/ UNCHANGED pairingVars
  <2>1. UNCHANGED <<given, pc, seen, dacs, ips, bridges>>
    BY <1>8 DEF Environment, Announce, Renumber, WindowPasses, pairingVars
  <2> QED
    BY <2>1 DEF PairInv, HeardInv, AssignedInv, BridgesInv, Bridged, Assigned
<1>9. UNCHANGED vars => UNCHANGED pairingVars
  BY DEF vars, pairingVars
<1> QED
  BY <1>1, <1>2, <1>3, <1>4, <1>5, <1>6, <1>7, <1>8, <1>9 DEF Next, MainThread, Main

\* Every step keeps the types.
LEMMA TypeStep == IInv /\ [Next]_vars => PairingTypeOK' /\ SocketsInv'
<1> SUFFICES ASSUME IInv, [Next]_vars PROVE PairingTypeOK' /\ SocketsInv'
  OBVIOUS
<1> USE PairingAssumption DEF IInv, SocketsInv
<1>1. CASE ReadArgs
  BY <1>1 DEF ReadArgs, PairingTypeOK
<1>2. CASE OpenSockets
  BY <1>2 DEF OpenSockets, PairingTypeOK
<1>3. CASE Receive
  <2>1. pc = "listen" /\ UNCHANGED <<given, at, renumbers, over, pc, socks, ips, bridges>>
    BY <1>3 DEF Receive
  <2>2. turn' \in 1..Sockets
    <3>1. socks \in 1..Sockets /\ turn \in 1..Sockets
      BY <2>1 DEF PairingTypeOK
    <3>2. turn % socks \in 0..(socks - 1)
      BY <3>1
    <3> QED
      BY <1>3, <3>1, <3>2 DEF Receive, NextTurn
  <2>3. queue' \in [1..Sockets -> Seq(Broadcast)] /\ seen' \in SUBSET Dac /\ dacs' \in Seq(Broadcast)
    <3>1. CASE UNCHANGED <<queue, seen, dacs>>
      BY <3>1 DEF PairingTypeOK
    <3>2. CASE queue[turn] # << >>
      <4>1. queue[turn] \in Seq(Broadcast) /\ dacs \in Seq(Broadcast)
        BY DEF PairingTypeOK
      <4>2. Head(queue[turn]) \in Broadcast /\ Tail(queue[turn]) \in Seq(Broadcast)
        BY <3>2, <4>1
      <4>3. Head(queue[turn]).mac \in Dac
        BY <4>2 DEF Broadcast
      <4>4. queue' = [queue EXCEPT ![turn] = Tail(@)]
            /\ seen' = seen \cup {Head(queue[turn]).mac}
            /\ (dacs' = dacs \/ dacs' = Append(dacs, Head(queue[turn])))
        BY <1>3, <3>2 DEF Receive
      <4>5. dacs' \in Seq(Broadcast)
        BY <4>1, <4>2, <4>4
      <4> QED
        BY <4>2, <4>3, <4>4, <4>5 DEF PairingTypeOK
    <3> QED
      BY <1>3, <3>1, <3>2 DEF Receive
  <2> QED
    BY <2>1, <2>2, <2>3 DEF PairingTypeOK
<1>4. CASE ListenEnds
  BY <1>4 DEF ListenEnds, PairingTypeOK
<1>5. CASE Assign
  <2>1. Assigned \in Seq(Addr)
    BY AddressesDistinct DEF PairInv, AssignedInv
  <2> QED
    BY <1>5, <2>1 DEF Assign, PairingTypeOK
<1>6. CASE Running
  BY <1>6 DEF Running, PairingTypeOK
<1>7. CASE StartBridge
  <2>1. bridges' \in Seq([mac : Dac, dacIp : Addr, fb4Ip : Addr, serial : Nat])
    BY PairStep DEF PairInv, BridgesInv
  <2>2. UNCHANGED <<given, at, renumbers, queue, over, pc, socks, turn, seen, dacs, ips>>
    BY <1>7 DEF StartBridge, Bridge
  <2> QED
    BY <2>1, <2>2 DEF PairingTypeOK
<1>8. ASSUME NEW d \in Dac, Announce(d) PROVE PairingTypeOK' /\ SocketsInv'
  <2>1. [mac |-> d, ip |-> at[d]] \in Broadcast
    BY DEF PairingTypeOK, Broadcast
  <2>2. \A s \in 1..Sockets :
          /\ queue[s] \in Seq(Broadcast)
          /\ Append(queue[s], [mac |-> d, ip |-> at[d]]) \in Seq(Broadcast)
    BY <2>1 DEF PairingTypeOK
  <2>3. queue' \in [1..Sockets -> Seq(Broadcast)]
    BY <1>8, <2>2 DEF Announce
  <2>4. UNCHANGED <<given, at, renumbers, over, pc, socks, turn, seen, dacs, ips, bridges>>
    BY <1>8 DEF Announce
  <2> QED
    BY <2>3, <2>4 DEF PairingTypeOK
<1>9. ASSUME NEW d \in Dac, Renumber(d) PROVE PairingTypeOK' /\ SocketsInv'
  BY <1>9 DEF Renumber, PairingTypeOK
<1>10. CASE WindowPasses
  BY <1>10 DEF WindowPasses, PairingTypeOK
<1>11. CASE UNCHANGED pairingVars
  BY <1>11 DEF pairingVars, PairingTypeOK
<1>12. UNCHANGED vars => UNCHANGED pairingVars
  BY DEF vars, pairingVars
<1> QED
  BY <1>1, <1>2, <1>3, <1>4, <1>5, <1>6, <1>7, <1>8, <1>9, <1>10, <1>11, <1>12
  DEF Next, MainThread, Main, Environment

\* There are addresses enough for all DACs, so they start with one each.
LEMMA InitInv == Init => IInv
<1> SUFFICES ASSUME Init PROVE IInv
  OBVIOUS
<1>1. at \in [Dac -> Addr]
  <2>1. PICK n \in Nat : ExistsBijection(1..n, Dac)
    BY FS_NatBijection, PairingAssumption
  <2>2. PICK f \in [1..n -> Dac] :
          /\ \A i, j \in 1..n : f[i] = f[j] => i = j
          /\ \A d \in Dac : \E i \in 1..n : f[i] = d
    BY <2>1 DEF ExistsBijection, Bijection, Injection, Surjection, IsInjective
  <2>3. n <= AddrMod
    BY <2>1, FS_CountingElements, PairingAssumption
  <2> DEFINE g == [d \in Dac |-> (CHOOSE i \in 1..n : f[i] = d) - 1]
  <2>4. ASSUME NEW d \in Dac PROVE g[d] \in 0..(AddrMod - 1) /\ f[g[d] + 1] = d
    <3> DEFINE i == CHOOSE i \in 1..n : f[i] = d
    <3>1. i \in 1..n /\ f[i] = d
      BY <2>2
    <3>2. g[d] = i - 1
      OBVIOUS
    <3> HIDE DEF i, g
    <3>3. (i - 1) + 1 = i /\ i - 1 \in 0..(AddrMod - 1)
      BY <2>3, <3>1, PairingAssumption
    <3> QED
      BY <3>1, <3>2, <3>3
  <2>5. g \in [Dac -> Addr]
    BY <2>4 DEF Addr
  <2> HIDE DEF g
  <2>6. IsInjective(g)
    <3> SUFFICES ASSUME NEW d \in Dac, NEW e \in Dac, g[d] = g[e] PROVE d = e
      BY <2>5 DEF IsInjective
    <3> QED
      BY <2>4
  <2>7. \E a \in [Dac -> Addr] : IsInjective(a)
    BY <2>5, <2>6
  <2> QED
    BY <2>7 DEF Init, PairingInit
<1>2. PairingTypeOK
  <2>1. /\ queue \in [1..Sockets -> Seq(Broadcast)] /\ dacs \in Seq(Broadcast)
        /\ ips \in Seq(Addr) /\ bridges \in Seq([mac : Dac, dacIp : Addr, fb4Ip : Addr, serial : Nat])
    BY DEF Init, PairingInit
  <2>2. /\ given \in CommandLines /\ renumbers = 0 /\ over = FALSE /\ pc = "args"
        /\ socks = 0 /\ turn = 1 /\ seen = {}
    BY DEF Init, PairingInit
  <2>3. 0 \in 0..MaxRenumber /\ 0 \in 0..Sockets /\ 1 \in 1..Sockets
    BY PairingAssumption
  <2> QED
    BY <1>1, <2>1, <2>2, <2>3 DEF PairingTypeOK
<1>3. PairInv /\ SocketsInv
  BY <1>2 DEF Init, PairingInit, PairingTypeOK, PairInv, HeardInv, AssignedInv, BridgesInv,
     SocketsInv
<1> QED
  BY <1>2, <1>3 DEF IInv

-----------------------------------------------------------------------------
\* In every state the bridges are the first DACs heard, with the addresses
\* assigned to them.
THEOREM BootInvariance == Spec => []IInv
<1>1. IInv /\ [Next]_vars => IInv'
  BY PairStep, TypeStep DEF IInv
<1> QED
  BY <1>1, InitInv, PTL DEF Spec

\* No two bridges share a DAC, an address or a serial, for any number of DACs
\* and addresses, wherever counting starts.
THEOREM OneToOne == Spec => []PairsDistinct
<1>1. IInv => PairsDistinct
  <2> SUFFICES ASSUME IInv, NEW j \in 1..Len(bridges), NEW k \in 1..Len(bridges), j # k
               PROVE  /\ bridges[j].mac # bridges[k].mac
                      /\ bridges[j].fb4Ip # bridges[k].fb4Ip
                      /\ bridges[j].serial # bridges[k].serial
    BY DEF PairsDistinct
  <2>1. /\ DOMAIN bridges = 1..Len(bridges) /\ Len(bridges) \in Nat
        /\ bridges # << >>
    BY DEF IInv, PairInv, BridgesInv
  <2>2. \A j1, k1 \in DOMAIN ips : ips[j1] = ips[k1] => j1 = k1
    BY <2>1, AddressesDistinct DEF IInv, PairInv, AssignedInv, BridgesInv
  <2>3. SerialOf(j) # SerialOf(k)
    BY SMT DEF SerialOf
  <2> QED
    BY <2>1, <2>2, <2>3 DEF IInv, PairInv, HeardInv, BridgesInv
<1> QED
  BY <1>1, BootInvariance, PTL

\* No DAC that was heard in the window is left out, unless the list is used up.
THEOREM AllHeardBridged == Spec => []HeardAreBridged
<1>1. IInv => HeardAreBridged
  <2> SUFFICES ASSUME IInv, pc = "running"
               PROVE  \/ Len(given) > 1 /\ Len(bridges) = Len(given)
                      \/ {bridges[k].mac : k \in 1..Len(bridges)} = seen
    BY DEF HeardAreBridged
  <2>1. /\ Len(bridges) = Bridged /\ ips = Assigned
        /\ DOMAIN bridges = 1..Len(bridges) /\ Len(bridges) \in Nat
        /\ DOMAIN dacs = 1..Len(dacs) /\ Len(dacs) \in Nat
    BY DEF IInv, PairInv, HeardInv, AssignedInv, BridgesInv
  <2>2. given \in Seq(Addr) /\ given # << >>
    BY PairingAssumption DEF IInv, PairInv, AssignedInv
  <2>3. Len(given) \in Nat \ {0}
    BY <2>2
  <2>4. CASE Len(bridges) = Len(dacs)
    BY <2>1, <2>4 DEF IInv, PairInv, HeardInv, BridgesInv
  <2>5. CASE Len(bridges) # Len(dacs)
    <3>1. CASE Len(given) = 1
      <4>1. Len(ips) = Len(dacs)
        BY <2>1, <3>1 DEF Assigned
      <4> QED
        BY <2>1, <2>5, <4>1 DEF Bridged
    <3>2. CASE Len(given) > 1
      <4>1. Len(given) # 1
        BY <3>2
      <4>2. Assigned = given
        BY <4>1 DEF Assigned
      <4>3. Len(ips) = Len(given)
        BY <2>1, <4>2
      <4>4. Len(bridges) = Len(given)
        BY <2>1, <2>3, <2>5, <4>3 DEF Bridged
      <4>5. Len(given) > 1 /\ Len(bridges) = Len(given)
        BY <3>2, <4>4
      <4> QED
        BY <4>5
    <3>3. Len(given) = 1 \/ Len(given) > 1
      BY <2>3, SMT
    <3> QED
      BY <3>1, <3>2, <3>3
  <2> QED
    BY <2>4, <2>5
<1> QED
  BY <1>1, BootInvariance, PTL

=============================================================================

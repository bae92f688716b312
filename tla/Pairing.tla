-------------------------------- MODULE Pairing --------------------------------
(***************************************************************************)
(* The main thread of the bridge (src/main.rs): `discover_dacs` opens its   *)
(* sockets and listens for the broadcasts of the Ether Dreams until its     *)
(* window is over, and `main` pairs the DACs it heard with the FB4          *)
(* addresses it was given, counted up from one base address or listed.     *)
(*                                                                         *)
(* Every broadcast can arrive on several sockets, again every second, and   *)
(* from another address once the DAC has got a new one.                    *)
(***************************************************************************)
EXTENDS Naturals, FiniteSets, SequencesExt

CONSTANTS
    Dac,          \* Ether Dreams, by MAC address
    Sockets,      \* addresses to listen on: all, and the link-local NIC's
    AddrMod,      \* size of the address space (2^32)
    CommandLines, \* the lists of addresses the bridge may be started with
    MaxQueue,     \* bound: datagrams in a socket's buffer
    MaxRenumber   \* bound: DACs that get a new address

Addr == 0..(AddrMod - 1)

ASSUME PairingAssumption ==
    /\ Sockets \in Nat \ {0}
    /\ AddrMod \in Nat \ {0}
    /\ MaxQueue \in Nat /\ MaxRenumber \in Nat
    /\ CommandLines \subseteq Seq(Addr)
    /\ \A list \in CommandLines : IsInjective(list)
    /\ IsFiniteSet(Dac) /\ Cardinality(Dac) <= AddrMod

Broadcast == [mac : Dac, ip : Addr]

VARIABLES
    given,      \* the addresses on the command line
    at,         \* at[d]: the address of DAC d
    renumbers,  \* changes of address so far
    queue,      \* queue[s]: datagrams waiting on socket s
    over,       \* the window is over
    pc,         \* "args", "open", "listen", "assign", "bridge", "running", "exit"
    socks,      \* number of sockets that could be opened
    turn,       \* the socket to be read next
    seen,       \* MAC addresses heard
    dacs,       \* the DACs found, in order, with the address first heard
    ips,        \* the FB4 addresses, in order
    bridges     \* the bridges started

pairingVars == <<given, at, renumbers, queue, over, pc, socks, turn, seen, dacs, ips, bridges>>

PairingTypeOK ==
    /\ given \in CommandLines
    /\ at \in [Dac -> Addr]
    /\ renumbers \in 0..MaxRenumber
    /\ queue \in [1..Sockets -> Seq(Broadcast)]
    /\ over \in BOOLEAN
    /\ pc \in {"args", "open", "listen", "assign", "bridge", "running", "exit"}
    /\ socks \in 0..Sockets
    /\ turn \in 1..Sockets
    /\ seen \in SUBSET Dac
    /\ dacs \in Seq(Broadcast)
    /\ ips \in Seq(Addr)
    /\ bridges \in Seq([mac : Dac, dacIp : Addr, fb4Ip : Addr, serial : Nat])

PairingInit ==
    /\ given \in CommandLines
    /\ at = CHOOSE a \in [Dac -> Addr] : IsInjective(a)    \* which is which does not matter
    /\ renumbers = 0
    /\ queue = [s \in 1..Sockets |-> << >>]
    /\ over = FALSE
    /\ pc = "args"
    /\ socks = 0
    /\ turn = 1
    /\ seen = {}
    /\ dacs = << >>
    /\ ips = << >>
    /\ bridges = << >>

-----------------------------------------------------------------------------
(* The DACs, the network and the clock.                                    *)

\* A DAC's status broadcast: any of the open sockets may get it.
Announce(d) ==
    /\ pc = "listen"
    /\ \E to \in SUBSET (1..socks) :
         queue' = [s \in 1..Sockets |->
                     IF s \in to /\ Len(queue[s]) < MaxQueue
                     THEN Append(queue[s], [mac |-> d, ip |-> at[d]])
                     ELSE queue[s]]
    /\ UNCHANGED <<given, at, renumbers, over, pc, socks, turn, seen, dacs, ips, bridges>>

Renumber(d) ==
    /\ pc = "listen"
    /\ renumbers < MaxRenumber
    /\ renumbers' = renumbers + 1
    /\ \E a \in Addr \ {at[e] : e \in Dac} : at' = [at EXCEPT ![d] = a]
    /\ UNCHANGED <<given, queue, over, pc, socks, turn, seen, dacs, ips, bridges>>

WindowPasses ==
    /\ pc = "listen"
    /\ ~over
    /\ over' = TRUE
    /\ UNCHANGED <<given, at, renumbers, queue, pc, socks, turn, seen, dacs, ips, bridges>>

-----------------------------------------------------------------------------
(* discover_dacs.                                                          *)

\* Without an address on the command line there is nothing to do.
ReadArgs ==
    /\ pc = "args"
    /\ pc' = IF given = << >> THEN "exit" ELSE "open"
    /\ UNCHANGED <<given, at, renumbers, queue, over, socks, turn, seen, dacs, ips, bridges>>

\* There may be no route to the link-local net, and a bind may fail: what could
\* be opened is listened on, and with nothing there are no DACs.
OpenSockets ==
    /\ pc = "open"
    /\ \E n \in 0..Sockets :
         /\ socks' = n
         /\ pc' = IF n = 0 THEN "exit" ELSE "listen"
    /\ UNCHANGED <<given, at, renumbers, queue, over, turn, seen, dacs, ips, bridges>>

\* Mutant: DACs are told apart by address.
KnownAddress(b) == \E k \in 1..Len(dacs) : dacs[k].ip = b.ip

Known(b) == b.mac \in seen

\* Mutant: a socket is read until it is empty.
NextTurnWhenEmpty ==
    IF queue[turn] = << >> THEN (turn % socks) + 1 ELSE turn

NextTurn == (turn % socks) + 1

\* One socket after the other; the deadline is looked at before the first.
Receive ==
    /\ pc = "listen"
    /\ turn = 1 => ~over
    /\ turn' = NextTurn
    /\ IF queue[turn] = << >>
       THEN UNCHANGED <<queue, seen, dacs>>
       ELSE LET b == Head(queue[turn])
            IN  /\ queue' = [queue EXCEPT ![turn] = Tail(@)]
                /\ seen' = seen \cup {b.mac}
                /\ dacs' = IF Known(b) THEN dacs ELSE Append(dacs, b)
    /\ UNCHANGED <<given, at, renumbers, over, pc, socks, ips, bridges>>

\* The window is over: the sockets are closed, with what still waits in them;
\* go on with what was found, or give up.
ListenEnds ==
    /\ pc = "listen"
    /\ turn = 1
    /\ over
    /\ pc' = IF dacs = << >> THEN "exit" ELSE "assign"
    /\ queue' = [s \in 1..Sockets |-> << >>]
    /\ UNCHANGED <<given, at, renumbers, over, socks, turn, seen, dacs, ips, bridges>>

-----------------------------------------------------------------------------
(* main.                                                                   *)

\* ip_offset, with the wrap of an unsigned addition.
IpOffset(base, n) == (base + n) % AddrMod

\* Counted up from the one address, or the list as it is.
Assigned ==
    IF Len(given) = 1
    THEN [k \in 1..Len(dacs) |-> IpOffset(given[1], k - 1)]
    ELSE given

Assign ==
    /\ pc = "assign"
    /\ ips' = Assigned
    /\ pc' = "bridge"
    /\ UNCHANGED <<given, at, renumbers, queue, over, socks, turn, seen, dacs, bridges>>

\* Mutant: the last pair is left out.
BridgedButLast == (IF Len(dacs) < Len(ips) THEN Len(dacs) ELSE Len(ips)) - 1

\* How many bridges there will be: the shorter list decides.
Bridged == IF Len(dacs) < Len(ips) THEN Len(dacs) ELSE Len(ips)

\* The serial number of the k-th bridge.
SerialOf(k) == 600000 + k - 1

Bridge ==
    /\ pc = "bridge"
    /\ Len(bridges) < Bridged
    /\ LET k == Len(bridges) + 1
       IN  bridges' = Append(bridges, [mac |-> dacs[k].mac, dacIp |-> dacs[k].ip,
                                       fb4Ip |-> ips[k], serial |-> SerialOf(k)])
    /\ UNCHANGED <<given, at, renumbers, queue, over, pc, socks, turn, seen, dacs, ips>>

Running ==
    /\ pc = "bridge"
    /\ Len(bridges) = Bridged
    /\ pc' = "running"
    /\ UNCHANGED <<given, at, renumbers, queue, over, socks, turn, seen, dacs, ips, bridges>>

-----------------------------------------------------------------------------
\* The main thread but for Bridge, which starts an emulator: see Boot.
Main == ReadArgs \/ OpenSockets \/ Receive \/ ListenEnds \/ Assign \/ Running

Environment == (\E d \in Dac : Announce(d) \/ Renumber(d)) \/ WindowPasses

-----------------------------------------------------------------------------
\* No two bridges share a DAC, an FB4 address or a serial number, however
\* often, on how many sockets and from which addresses a DAC was heard.
PairsDistinct ==
    \A j, k \in 1..Len(bridges) : j # k =>
      /\ bridges[j].mac # bridges[k].mac
      /\ bridges[j].fb4Ip # bridges[k].fb4Ip
      /\ bridges[j].serial # bridges[k].serial

\* A DAC that was heard is not forgotten: with a base address every one gets
\* its bridge, with a list as many as there are addresses, first come first.
HeardAreBridged ==
    pc = "running" =>
      \/ Len(given) > 1 /\ Len(bridges) = Len(given)
      \/ {bridges[k].mac : k \in 1..Len(bridges)} = seen

=============================================================================

-------------------------------- MODULE Segment --------------------------------
(***************************************************************************)
(* The FB4s of a network segment (Discovery) and a host that finds them,    *)
(* whose application uses the driver library's table (Manager).            *)
(***************************************************************************)
EXTENDS Manager

CONSTANTS
    Emu,      \* emulated FB4s, each with its own address
    Peer,     \* other FB4s of the segment, and other hosts
    Host      \* the machine that runs the driver library

ASSUME NodeAssumption ==
    /\ Emu \subseteq Device
    /\ Device \subseteq Emu \cup Peer
    /\ Emu \cap Peer = {}
    /\ Host \notin Emu \cup Peer
    /\ None \notin Emu \cup Peer \cup {Host}

VARIABLES inbox, group, pc, target    \* of Discovery, which fills `found`

Net == INSTANCE Discovery WITH FB4 <- Device

netVars == <<inbox, group, pc, target>>
vars    == <<discovery, found, devices, aim, inbox, group, pc, target>>

TypeOK == ManagerTypeOK /\ Net!TypeOK

Init == ManagerInit /\ Net!Init

Next ==
    \/ Net!Next /\ UNCHANGED tableVars
    \/ ManagerStep /\ UNCHANGED netVars

\* Tasks and threads run.  Not every broadcast of an emulator is lost to the
\* host or to the emulator itself, and a buffer is read in the order it was
\* filled: the datagram of every sender has its turn.
Fairness ==
    /\ \A e \in Emu :
         /\ WF_vars(Net!Responder(e) /\ UNCHANGED tableVars)
         /\ SF_vars(Net!BroadcastTo(e, {e, Host}) /\ UNCHANGED tableVars)
         /\ \A n \in Net!Node : SF_vars(Net!ReceiveFrom(e, n) /\ UNCHANGED tableVars)
         /\ \A n \in Net!Asker : SF_vars(Net!ReceiveGroup(e, n) /\ UNCHANGED tableVars)
    /\ \A d \in Device : WF_vars(NetLoop(d) /\ UNCHANGED netVars)

Spec == Init /\ [][Next]_vars /\ Fairness

-----------------------------------------------------------------------------
\* A host with discovery on finds every emulator, with
\* its serial: although datagrams are lost, emulators answer each other without
\* end, and the application may have added the address before.
Discovered ==
    \A e \in Emu :
      discovery
        ~> \E i \in DOMAIN devices : devices[i] = [ip |-> e, serial |-> TRUE]

\* A probe that reached an emulator, on :9022 or in the multicast group, is
\* answered, also while the announces and the answers of other FB4s keep coming
\* ("whenever a host probes, unicast the 0080 announce back to it").
ProbesAnswered ==
    \A e \in Emu :
      Host \in inbox[e] \cup group[e] ~> (pc[e] = "reply" /\ target[e] = Host)

=============================================================================

------------------------------- MODULE Discovery -------------------------------
(***************************************************************************)
(* Finding the emulated FB4s: the responder of each emulator                *)
(* (`discovery_responder` of src/fb4_device.rs) and the network task of a   *)
(* host (`run_net`, `parse_reply` of fb4_rust/src/discovery.rs).            *)
(*                                                                         *)
(* A socket on :9022 that is bound to its own address gets, as main.rs says *)
(* of Windows, the broadcasts of its interface: the emulator's own among    *)
(* them.  The other FB4s and hosts of the segment, which may be emulators   *)
(* like these, send what they like.  Any datagram may be lost; all of them  *)
(* are where a socket could not be opened or the group not be joined.  A    *)
(* buffer is the set of the senders whose datagrams wait in it: one more of *)
(* the same sender says nothing new.                                       *)
(***************************************************************************)
EXTENDS Naturals

CONSTANTS
    Emu,     \* emulated FB4s, each with its own address
    Peer,    \* other FB4s of the segment, and other hosts
    FB4,     \* the nodes whose announces parse: the emulators, some peers
    Host,    \* the machine that runs the driver library
    None     \* Option::None

Node == Emu \cup Peer \cup {Host}

\* The machines that query the group: this host and the others.
Asker == Node \ FB4

VARIABLES
    inbox,     \* inbox[e]: the buffer of e's :9022
    group,     \* group[e]: the buffer of e's socket in the multicast group
    pc,        \* pc[e]: the responder, "top", "disc", "mcast" or "reply"
    target,    \* target[e]: whom it is to answer in this round
    found      \* FB4s the host has heard and not put in its table

vars == <<inbox, group, pc, target, found>>

TypeOK ==
    /\ inbox \in [Emu -> SUBSET Node]
    /\ group \in [Emu -> SUBSET Asker]
    /\ pc \in [Emu -> {"top", "disc", "mcast", "reply"}]
    /\ target \in [Emu -> Node \cup {None}]
    /\ found \in SUBSET FB4

Init ==
    /\ inbox = [e \in Emu |-> {}]
    /\ group = [e \in Emu |-> {}]
    /\ pc = [e \in Emu |-> "top"]
    /\ target = [e \in Emu |-> None]
    /\ found = {}

\* A datagram of `from` gets into the :9022 buffers of the nodes in `got`; only
\* an FB4's announce parses at the host.
Arrive(from, got) ==
    /\ inbox' = [e \in Emu |-> IF e \in got THEN inbox[e] \cup {from} ELSE inbox[e]]
    /\ found' = IF Host \in got /\ from \in FB4 THEN found \cup {from} ELSE found

-----------------------------------------------------------------------------
(* The responder of an emulator.                                           *)

\* The head of the loop: when a second has passed, an announce to everybody, the
\* emulator itself included; before (`got` is empty), nothing.
BroadcastTo(e, got) ==
    /\ pc[e] = "top"
    /\ pc' = [pc EXCEPT ![e] = "disc"]
    /\ Arrive(e, got)
    /\ UNCHANGED <<group, target>>

Broadcast(e) == \E got \in SUBSET Node : BroadcastTo(e, got)

\* Mutant: the emulator answers its own broadcast.
AnsweredAll(e, n) == n

\* Anybody but the emulator itself is taken for a host.
Answered(e, n) == IF n = e THEN None ELSE n

ReceiveFrom(e, n) ==
    /\ pc[e] = "disc"
    /\ n \in inbox[e]
    /\ inbox' = [inbox EXCEPT ![e] = @ \ {n}]
    /\ target' = [target EXCEPT ![e] = Answered(e, n)]
    /\ pc' = [pc EXCEPT ![e] = IF Answered(e, n) = None THEN "mcast" ELSE "reply"]
    /\ UNCHANGED <<group, found>>

\* The read of :9022 times out.
ReceiveNone(e) ==
    /\ pc[e] = "disc"
    /\ inbox[e] = {}
    /\ pc' = [pc EXCEPT ![e] = "mcast"]
    /\ UNCHANGED <<inbox, group, target, found>>

\* Only without anybody to answer does the multicast socket get its turn.
ReceiveGroup(e, n) ==
    /\ pc[e] = "mcast"
    /\ n \in group[e]
    /\ group' = [group EXCEPT ![e] = @ \ {n}]
    /\ target' = [target EXCEPT ![e] = n]
    /\ pc' = [pc EXCEPT ![e] = "reply"]
    /\ UNCHANGED <<inbox, found>>

ReceiveGroupNone(e) ==
    /\ pc[e] = "mcast"
    /\ group[e] = {}
    /\ pc' = [pc EXCEPT ![e] = "top"]
    /\ UNCHANGED <<inbox, group, target, found>>

Reply(e) ==
    /\ pc[e] = "reply"
    /\ \E got \in SUBSET {target[e]} : Arrive(e, got)
    /\ target' = [target EXCEPT ![e] = None]
    /\ pc' = [pc EXCEPT ![e] = "top"]
    /\ UNCHANGED <<group>>

Responder(e) ==
    \/ Broadcast(e)
    \/ \E n \in Node : ReceiveFrom(e, n)
    \/ ReceiveNone(e)
    \/ \E n \in Asker : ReceiveGroup(e, n)
    \/ ReceiveGroupNone(e)
    \/ Reply(e)

-----------------------------------------------------------------------------
(* The host and the other nodes.                                           *)

\* A tick of run_net: the query to the group, then the presence announce.  The
\* other hosts query the group, too.
Query(n) ==
    /\ \E got \in SUBSET Emu :
         group' = [e \in Emu |-> IF e \in got THEN group[e] \cup {n} ELSE group[e]]
    /\ UNCHANGED <<inbox, pc, target, found>>

Presence ==
    /\ \E got \in SUBSET Emu : Arrive(Host, got)
    /\ UNCHANGED <<group, pc, target>>

\* A probe, a broadcast or an answer of a peer.
PeerSends(p) ==
    /\ \E got \in SUBSET (Emu \cup {Host}) : Arrive(p, got)
    /\ UNCHANGED <<group, pc, target>>

-----------------------------------------------------------------------------
Next ==
    \/ \E e \in Emu : Responder(e)
    \/ \E n \in Asker : Query(n)
    \/ Presence
    \/ \E p \in Peer : PeerSends(p)

=============================================================================

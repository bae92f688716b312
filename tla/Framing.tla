-------------------------------- MODULE Framing --------------------------------
(***************************************************************************)
(* The framing loop of `serve` (src/fb4_device.rs): bytes come in reads of  *)
(* any length, are appended to `buf`, and complete 40fb messages are cut    *)
(* out of it; what is left at the end waits for the next read.  Bytes that  *)
(* do not start a message are skipped.  A header that tells a size no        *)
(* message can have is never got past: the loop waits there for ever.       *)
(*                                                                         *)
(* A byte is named by the message it belongs to and its place in it; 0 is   *)
(* a byte between messages.  The header, 12 bytes in the code, is scaled    *)
(* down: its first byte is the magic, and with all of it the size is known. *)
(***************************************************************************)
EXTENDS Integers, Sequences, FiniteSetsExt

CONSTANTS
    Sizes,       \* Sizes[m]: the size the m-th message's header tells
    HeaderLen,   \* length of the header (12 in the code)
    MaxStray,    \* bound: bytes between messages
    MaxRead      \* what one read returns at most (65536 in the code)

MaxMsgs == Len(Sizes)

ASSUME FramingAssumption ==
    /\ HeaderLen \in Nat \ {0} /\ MaxStray \in Nat /\ MaxRead \in Nat \ {0}
    /\ Sizes \in Seq(Nat)

\* A message is never shorter than its header, whatever the header tells.
WireLen(m)   == Max({Sizes[m], HeaderLen})
Malformed(m) == Sizes[m] < HeaderLen

\* The messages before the first malformed one.
Sound == Min({m \in 1..MaxMsgs : Malformed(m)} \cup {MaxMsgs + 1}) - 1

Byte == [msg : 0..MaxMsgs, off : Nat]

VARIABLES
    sent,      \* messages the host has written
    stray,     \* bytes between messages written so far
    wire,      \* bytes under way
    pc,        \* "read" or "extract"
    buf,       \* the buffer
    i,         \* bytes of the buffer already dealt with
    handled    \* messages given to handle_msg

vars == <<sent, stray, wire, pc, buf, i, handled>>

TypeOK ==
    /\ sent \in 0..MaxMsgs
    /\ stray \in 0..MaxStray
    /\ wire \in Seq(Byte)
    /\ pc \in {"read", "extract"}
    /\ buf \in Seq(Byte)
    /\ i \in 0..Len(buf)
    /\ handled \in Seq(1..MaxMsgs)

Init ==
    /\ sent = 0
    /\ stray = 0
    /\ wire = << >>
    /\ pc = "read"
    /\ buf = << >>
    /\ i = 0
    /\ handled = << >>

-----------------------------------------------------------------------------
SendMessage ==
    /\ sent < MaxMsgs
    /\ sent' = sent + 1
    /\ wire' = wire \o [k \in 1..WireLen(sent + 1) |-> [msg |-> sent + 1, off |-> k]]
    /\ UNCHANGED <<stray, pc, buf, i, handled>>

SendStray ==
    /\ stray < MaxStray
    /\ stray' = stray + 1
    /\ wire' = Append(wire, [msg |-> 0, off |-> 0])
    /\ UNCHANGED <<sent, pc, buf, i, handled>>

Read ==
    /\ pc = "read"
    /\ \E n \in 1..Len(wire) :
         /\ n <= MaxRead
         /\ buf' = buf \o SubSeq(wire, 1, n)
         /\ wire' = SubSeq(wire, n + 1, Len(wire))
    /\ i' = 0
    /\ pc' = "extract"
    /\ UNCHANGED <<sent, stray, handled>>

HasHeader == i + HeaderLen <= Len(buf)
AtMagic   == buf[i + 1].off = 1

\* The size, as the header at i tells it.
Size == Sizes[buf[i + 1].msg]

\* Mutant: the told size is not looked at.
CompleteUnchecked == i + Size <= Len(buf)

Complete == Size >= HeaderLen /\ i + Size <= Len(buf)

Resync ==
    /\ pc = "extract"
    /\ HasHeader
    /\ ~AtMagic
    /\ i' = i + 1
    /\ UNCHANGED <<sent, stray, wire, pc, buf, handled>>

Extract ==
    /\ pc = "extract"
    /\ HasHeader
    /\ AtMagic
    /\ Complete
    /\ handled' = Append(handled, buf[i + 1].msg)
    /\ i' = i + Size
    /\ UNCHANGED <<sent, stray, wire, pc, buf>>

\* Mutant: the buffer is cleared.
RestCleared == << >>

Rest == SubSeq(buf, i + 1, Len(buf))

\* Nothing complete is left: the buffer is drained of what was dealt with.
Drain ==
    /\ pc = "extract"
    /\ HasHeader => AtMagic /\ ~Complete
    /\ buf' = Rest
    /\ i' = 0
    /\ pc' = "read"
    /\ UNCHANGED <<sent, stray, wire, handled>>

-----------------------------------------------------------------------------
Serve == Read \/ Resync \/ Extract \/ Drain

Next == SendMessage \/ SendStray \/ Serve

\* The thread of the connection is scheduled.
Spec == Init /\ [][Next]_vars /\ WF_vars(Serve)

-----------------------------------------------------------------------------
\* The handled messages are the first ones sent, each once and in order,
\* however the reads cut them, and the rest is still in the buffer or under
\* way, whole: no byte of a message is skipped or left behind.
Unhandled == SubSeq(buf, i + 1, Len(buf)) \o wire

NothingLost ==
    /\ \A k \in 1..Len(handled) : handled[k] = k
    /\ \A m \in (Len(handled) + 1)..sent : \E p \in 0..Len(Unhandled) :
         /\ p + WireLen(m) <= Len(Unhandled)
         /\ \A k \in 1..WireLen(m) : Unhandled[p + k] = [msg |-> m, off |-> k]

Pipe == INSTANCE MessagePipe WITH
          MaxMsgs <- Sound,
          sent    <- Min({sent, Sound}),
          handled <- Len(handled)

\* The stream of bytes and the framing loop are the pipe of messages that
\* Fb4Control takes for granted: every message before a malformed one gets
\* through, and neither that one nor anything behind it is ever handled.
IsPipe == Pipe!Spec

=============================================================================

------------------------------ MODULE HostSession ------------------------------
(***************************************************************************)
(* One `run_session` task of the driver library (fb4_rust/src/session.rs):  *)
(* it connects to an FB4, shakes hands, configures, streams the frame the   *)
(* application set last, and starts over whenever the connection breaks.    *)
(*                                                                         *)
(* While it streams, a reader task drains the TCP connection and reports    *)
(* its end by Notify::notify_waiters, which wakes the streaming loop only   *)
(* if it is waiting at that moment.  Turbo frames do not touch the TCP      *)
(* connection: of its end the loop then hears by a keep-alive that fails.   *)
(*                                                                         *)
(* The timeouts of connect and of the handshake are outcomes; the contents  *)
(* of the messages, and the clock, are those of Fb4Control and Timeline.    *)
(***************************************************************************)
EXTENDS Naturals, FiniteSets

CONSTANTS
    ConfigMsgs,   \* messages of the configuration (16 in the code)
    MaxFrame,     \* bound: frames the application sets
    MaxFaults     \* bound: failures of device, network and sockets

ASSUME BoundsAssumption ==
    ConfigMsgs \in Nat /\ MaxFrame \in Nat /\ MaxFaults \in Nat

\* The connections the task may open: each but the first follows a failure.
Conn == 1..(MaxFaults + 1)

VARIABLES
    transport,  \* the transport configured
    pc,         \* the task
    conn,       \* number of its current connection
    left,       \* configuration messages still to send
    frame,      \* the watch channel: the frame set last
    streamed,   \* the frame sent last on the current connection, 0 for none
    keepDue,    \* a second has passed since the last keep-alive
    woken,      \* the loop's `death.notified()` has completed
    host,       \* host[c]: the task's end of c: "none", "open", "half" (only
                \*   the read half is left) or "closed"
    peer,       \* peer[c]: the device's end: "none", "open", "closed" or "gone"
    unacked,    \* unacked[c]: bytes were sent that the device will not take
    broken,     \* broken[c]: the host's kernel knows that c is dead
    reader,     \* reader[c]: the reader task, "none", "reading" or "ended"
    faults      \* failures so far

taskVars == <<pc, conn, left, streamed, keepDue, woken>>
netVars  == <<host, peer, unacked, broken, reader>>
vars     == <<transport, taskVars, frame, netVars, faults>>

Streaming == {"wait", "send", "keepalive"}

TypeOK ==
    /\ transport \in {"Tcp", "UdpTurbo"}
    /\ pc \in {"start", "connect", "handshake", "reply", "config", "openUdp",
               "teardown", "backoff"} \cup Streaming
    /\ conn \in Conn \cup {0}
    /\ left \in 0..ConfigMsgs
    /\ frame \in 0..MaxFrame
    /\ streamed \in 0..MaxFrame
    /\ keepDue \in BOOLEAN
    /\ woken \in BOOLEAN
    /\ host \in [Conn -> {"none", "open", "half", "closed"}]
    /\ peer \in [Conn -> {"none", "open", "closed", "gone"}]
    /\ unacked \in [Conn -> BOOLEAN]
    /\ broken \in [Conn -> BOOLEAN]
    /\ reader \in [Conn -> {"none", "reading", "ended"}]
    /\ faults \in 0..MaxFaults

Init ==
    /\ transport \in {"Tcp", "UdpTurbo"}
    /\ pc = "start"
    /\ conn = 0
    /\ left = 0
    /\ frame = 0
    /\ streamed = 0
    /\ keepDue = FALSE
    /\ woken = FALSE
    /\ host = [c \in Conn |-> "none"]
    /\ peer = [c \in Conn |-> "none"]
    /\ unacked = [c \in Conn |-> FALSE]
    /\ broken = [c \in Conn |-> FALSE]
    /\ reader = [c \in Conn |-> "none"]
    /\ faults = 0

Fault == faults < MaxFaults /\ faults' = faults + 1

-----------------------------------------------------------------------------
(* The application.                                                        *)

SetFrame ==
    /\ frame < MaxFrame
    /\ frame' = frame + 1
    /\ UNCHANGED <<transport, taskVars, netVars, faults>>

-----------------------------------------------------------------------------
(* The session task.                                                       *)

\* The 1.5 s before the first connect, and the 2 s before every other.
Pause ==
    /\ pc \in {"start", "backoff"}
    /\ pc' = "connect"
    /\ UNCHANGED <<transport, conn, left, frame, streamed, keepDue, woken, netVars, faults>>

Connect ==
    /\ pc = "connect"
    /\ conn + 1 \in Conn
    /\ conn' = conn + 1
    /\ host' = [host EXCEPT ![conn + 1] = "open"]
    /\ peer' = [peer EXCEPT ![conn + 1] = "open"]
    /\ streamed' = 0
    /\ pc' = "handshake"
    /\ UNCHANGED <<transport, left, frame, keepDue, woken, unacked, broken, reader, faults>>

\* Refused, or 3 s without an answer.
ConnectFails ==
    /\ pc = "connect"
    /\ Fault
    /\ pc' = "backoff"
    /\ UNCHANGED <<transport, conn, left, frame, streamed, keepDue, woken, netVars>>

\* write_all on the current connection: it fails once the kernel knows.
CanWrite == ~broken[conn]

Written == unacked' = [unacked EXCEPT ![conn] = @ \/ peer[conn] # "open"]

\* An error before the stream is split: dropping it closes the connection.
Abandon ==
    /\ pc' = "backoff"
    /\ host' = [host EXCEPT ![conn] = "closed"]
    /\ UNCHANGED <<transport, conn, left, frame, streamed, keepDue, woken, peer,
                   unacked, broken, reader>>

SendHandshake ==
    /\ pc = "handshake"
    /\ CanWrite
    /\ Written
    /\ pc' = "reply"
    /\ UNCHANGED <<transport, conn, left, frame, streamed, keepDue, woken, host,
                   peer, broken, reader, faults>>

ReadReply ==
    /\ pc = "reply"
    /\ peer[conn] = "open"
    /\ left' = ConfigMsgs
    /\ pc' = "config"
    /\ UNCHANGED <<transport, conn, frame, streamed, keepDue, woken, netVars, faults>>

\* End of stream or an error; or, a fault, no reply in 1.2 s or one that the
\* single read returned cut short.
ReplyFails ==
    /\ pc = "reply"
    /\ IF peer[conn] = "open" THEN Fault ELSE UNCHANGED faults
    /\ Abandon

ConfigPending == left > 0

\* send_drain: the answer, its absence and its errors are ignored.
SendConfig ==
    /\ pc = "config"
    /\ ConfigPending
    /\ CanWrite
    /\ Written
    /\ left' = left - 1
    /\ UNCHANGED <<transport, pc, conn, frame, streamed, keepDue, woken, host,
                   peer, broken, reader, faults>>

\* The output is enabled, the stream split and the reader spawned.
EnableOutput ==
    /\ pc = "config"
    /\ left = 0
    /\ CanWrite
    /\ Written
    /\ reader' = [reader EXCEPT ![conn] = "reading"]
    /\ keepDue' = FALSE
    /\ woken' = FALSE
    /\ pc' = IF transport = "UdpTurbo" THEN "openUdp" ELSE "wait"
    /\ UNCHANGED <<transport, conn, left, frame, streamed, host, peer, broken, faults>>

SetupWriteFails ==
    /\ pc \in {"handshake", "config"}
    /\ ~CanWrite
    /\ Abandon
    /\ UNCHANGED faults

OpenUdp ==
    /\ pc = "openUdp"
    /\ pc' = "wait"
    /\ UNCHANGED <<transport, conn, left, frame, streamed, keepDue, woken, netVars, faults>>

\* Mutant: the write half is kept open.
NothingDropped == "open"

\* What is left of the connection once the write half is dropped.
WriteHalfDropped == "half"

\* The `?` leaves stream_frames with the write half; the reader lives on.
OpenUdpFails ==
    /\ pc = "openUdp"
    /\ Fault
    /\ host' = [host EXCEPT ![conn] = WriteHalfDropped]
    /\ pc' = "backoff"
    /\ UNCHANGED <<transport, conn, left, frame, streamed, keepDue, woken, peer,
                   unacked, broken, reader>>

\* The slot of the next frame has come; a notification that completed at the
\* same time is dropped with its future.
Slot ==
    /\ pc = "wait"
    /\ pc' = "send"
    /\ woken' = FALSE
    /\ UNCHANGED <<transport, conn, left, frame, streamed, keepDue, netVars, faults>>

Death ==
    /\ pc = "wait"
    /\ woken
    /\ woken' = FALSE
    /\ pc' = "teardown"
    /\ UNCHANGED <<transport, conn, left, frame, streamed, keepDue, netVars, faults>>

\* Mutant: the frame is taken once per connection.
BorrowedOnce == IF streamed = 0 THEN frame ELSE streamed

\* frame_rx.borrow()
Borrowed == frame

SendFrame ==
    /\ pc = "send"
    /\ IF transport = "Tcp" THEN CanWrite /\ Written ELSE UNCHANGED unacked
    /\ streamed' = Borrowed
    /\ pc' = "keepalive"
    /\ UNCHANGED <<transport, conn, left, frame, keepDue, woken, host, peer,
                   broken, reader, faults>>

\* A TCP write that fails; or a datagram refused, by a fault or by a device
\* that has left.
SendFrameFails ==
    /\ pc = "send"
    /\ IF transport = "Tcp"
       THEN ~CanWrite /\ UNCHANGED faults
       ELSE IF peer[conn] = "open" THEN Fault ELSE UNCHANGED faults
    /\ pc' = "teardown"
    /\ UNCHANGED <<transport, conn, left, frame, streamed, keepDue, woken, netVars>>

\* Mutant: the error of the keep-alive is ignored.
KeepAliveUnchecked ==
    /\ pc = "keepalive"
    /\ IF keepDue THEN Written ELSE UNCHANGED unacked
    /\ keepDue' = FALSE
    /\ pc' = "wait"
    /\ UNCHANGED <<transport, conn, left, frame, streamed, woken, host, peer,
                   broken, reader, faults>>

KeepAlive ==
    /\ pc = "keepalive"
    /\ keepDue => CanWrite
    /\ IF keepDue THEN Written ELSE UNCHANGED unacked
    /\ keepDue' = FALSE
    /\ pc' = "wait"
    /\ UNCHANGED <<transport, conn, left, frame, streamed, woken, host, peer,
                   broken, reader, faults>>

KeepAliveFails ==
    /\ pc = "keepalive"
    /\ keepDue
    /\ ~CanWrite
    /\ pc' = "teardown"
    /\ UNCHANGED <<transport, conn, left, frame, streamed, keepDue, woken, netVars, faults>>

\* The last "disable output" is best effort; the reader is aborted.
Teardown ==
    /\ pc = "teardown"
    /\ host' = [host EXCEPT ![conn] = "closed"]
    /\ reader' = [reader EXCEPT ![conn] = "ended"]
    /\ pc' = "backoff"
    /\ UNCHANGED <<transport, conn, left, frame, streamed, keepDue, woken, peer,
                   unacked, broken, faults>>

KeepTimer ==
    /\ pc \in Streaming
    /\ ~keepDue
    /\ keepDue' = TRUE
    /\ UNCHANGED <<transport, pc, conn, left, frame, streamed, woken, netVars, faults>>

Task ==
    \/ Pause
    \/ Connect
    \/ ConnectFails
    \/ SendHandshake
    \/ ReadReply
    \/ ReplyFails
    \/ SendConfig
    \/ EnableOutput
    \/ SetupWriteFails
    \/ OpenUdp
    \/ OpenUdpFails
    \/ Slot
    \/ Death
    \/ SendFrame
    \/ SendFrameFails
    \/ KeepAlive
    \/ KeepAliveFails
    \/ Teardown

-----------------------------------------------------------------------------
(* The reader task of connection c.                                        *)

\* Mutant: all sessions share one notification.
WakesAny(c) == pc = "wait"

\* notify_waiters: nobody hears it but a loop that waits on this connection.
Wakes(c) == c = conn /\ pc = "wait"

ReaderEnds(c) ==
    /\ reader[c] = "reading"
    /\ peer[c] = "closed" \/ broken[c]
    /\ reader' = [reader EXCEPT ![c] = "ended"]
    /\ host' = [host EXCEPT ![c] = IF @ = "half" THEN "closed" ELSE @]
    /\ woken' = (woken \/ Wakes(c))
    /\ UNCHANGED <<transport, pc, conn, left, frame, streamed, keepDue, peer,
                   unacked, broken, faults>>

-----------------------------------------------------------------------------
(* The device and the network.                                             *)

\* The device drops a connection: its host reads the end of the stream.
DeviceCloses(c) ==
    /\ peer[c] = "open"
    /\ Fault
    /\ peer' = [peer EXCEPT ![c] = "closed"]
    /\ UNCHANGED <<transport, taskVars, frame, host, unacked, broken, reader>>

\* The device loses its power or its cable, and the host reads nothing.
DeviceVanishes(c) ==
    /\ peer[c] = "open"
    /\ Fault
    /\ peer' = [peer EXCEPT ![c] = "gone"]
    /\ UNCHANGED <<transport, taskVars, frame, host, unacked, broken, reader>>

\* The device closes its end of a connection whose host has shut down its own.
DeviceSeesEnd(c) ==
    /\ peer[c] = "open"
    /\ host[c] \in {"half", "closed"}
    /\ peer' = [peer EXCEPT ![c] = "closed"]
    /\ UNCHANGED <<transport, taskVars, frame, host, unacked, broken, reader, faults>>

\* Bytes the device does not take are answered by a reset, or never
\* acknowledged: either way the kernel ends the connection.
KernelGivesUp(c) ==
    /\ unacked[c]
    /\ ~broken[c]
    /\ broken' = [broken EXCEPT ![c] = TRUE]
    /\ UNCHANGED <<transport, taskVars, frame, host, peer, unacked, reader, faults>>

-----------------------------------------------------------------------------
Next ==
    \/ SetFrame
    \/ Task
    \/ KeepTimer
    \/ \E c \in Conn :
         \/ ReaderEnds(c)
         \/ DeviceCloses(c)
         \/ DeviceVanishes(c)
         \/ DeviceSeesEnd(c)
         \/ KernelGivesUp(c)

\* Tasks are scheduled, the timer runs, kernels and devices end connections
\* that are over; nothing else is owed.
Fairness ==
    /\ WF_vars(Task)
    /\ WF_vars(KeepTimer)
    /\ \A c \in Conn :
         WF_vars(ReaderEnds(c)) /\ WF_vars(DeviceSeesEnd(c)) /\ WF_vars(KernelGivesUp(c))

Spec == Init /\ [][Next]_vars /\ Fairness

-----------------------------------------------------------------------------
\* The loop is woken only by the end of its own connection: a reader that was
\* left behind by an earlier session never tears down a working one
\* (stream_frames, `death` and `reader`).
OwnDeathOnly ==
    [][pc = "wait" /\ pc' = "teardown" => peer[conn] # "open" \/ broken[conn]]_pc

\* A connection the device has dropped is always noticed, with either
\* transport, even if the reader's notification is lost.
DeadNoticed ==
    \A c \in Conn :
      (conn = c /\ pc \in Streaming /\ peer[c] # "open") ~> (pc = "backoff" \/ conn # c)

\* "with automatic reconnection": whatever failed, the frame the application
\* set last is streamed again, on a connection the device serves.
StreamsLatest ==
    []<>(streamed = frame /\ pc \in Streaming /\ peer[conn] = "open")

\* No reader task outlives its connection for ever, not even one that
\* stream_frames left without aborting it - unless the device vanished.
ReadersEnd ==
    \A c \in Conn :
      (reader[c] = "reading" /\ conn # c)
        ~> (reader[c] = "ended" \/ peer[c] = "gone")

=============================================================================

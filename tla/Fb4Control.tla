------------------------------ MODULE Fb4Control ------------------------------
(***************************************************************************)
(* The TCP control server of one emulated FB4 (src/fb4_device.rs: the       *)
(* accept loop of `run`, `serve`, `handle_msg`, `decode_tcp_frame`) and the *)
(* hosts that talk to it (fb4_rust/src/session.rs: `session_once` and the   *)
(* TCP transport of `stream_frames`).                                       *)
(*                                                                         *)
(* Every accepted connection has a thread of its own.  A thread keeps its   *)
(* session key, its scanning flag and its acknowledgement timer in locals;  *)
(* the only state the threads share is `shared`, the frame the DAC driver   *)
(* is showing, which each of them overwrites under a mutex.                 *)
(*                                                                         *)
(* Bytes, the framing of the stream and the ciphers are abstracted: a       *)
(* message is a record, a frame is the connection it was sent on and its    *)
(* position there, and a frame decrypts to itself exactly when the thread's *)
(* key is the one it was sealed with.                                       *)
(***************************************************************************)
EXTENDS Naturals, Sequences

CONSTANTS
    Conn,                  \* connections; each is opened at most once
    Nonce,                 \* values of the host's handshake nonce A
    MaxSeq,                \* bound: the frame a connection goes on sending
    MaxInFlight,           \* bound: messages of one connection not yet handled
    None,                  \* Option::None
    NoFrame,               \* the empty point list
    Garbage,               \* points decoded from a frame with the wrong key
    Respond(_),            \* B = transform(A) ^ serial
    SessionKeybase(_, _)   \* the key base folded from A and B

Challenge == {Respond(a) : a \in Nonce}
Keybase   == {SessionKeybase(a, b) : a \in Nonce, b \in Challenge}
Frame     == [conn : Conn, seq : 1..MaxSeq]

ASSUME BoundsAssumption == MaxSeq \in Nat /\ MaxInFlight \in Nat

ASSUME DistinctAssumption ==
    /\ None \notin Nonce \cup Challenge \cup Keybase
    /\ NoFrame \notin Frame
    /\ Garbage \notin Frame
    /\ NoFrame # Garbage

Message ==
    [type : {"handshake"}, nonce : Nonce]
      \cup [type : {"frame"}, key : Keybase, frame : Frame]
      \cup [type : {"enable", "disable", "query"}]

-----------------------------------------------------------------------------
VARIABLES
    host,       \* host[c]: the host's end of c, "down", "up" or "closed"; "gone"
                \* without a word, "unanswered" once the device has written to it
    nonce,      \* nonce[c]: the A the host drew for c
    hostKey,    \* hostKey[c]: the host's key base, once it has the reply
    sent,       \* sent[c]: the frame of the application last sent on c
    output,     \* output[c]: what the host's last message asked of the output
    toDevice,   \* toDevice[c]: messages on c the thread has not handled
    reply,      \* reply[c]: the 0181 reply travelling to the host, or None
    thread,     \* thread[c]: where the thread serving c is
    chunk,      \* chunk[c]: complete messages of the last read still in `buf`
    keybase,    \* keybase[c]: the thread's session key base
    scanning,   \* scanning[c]: the thread's scanning flag
    ackDue,     \* ackDue[c]: 500 ms have passed since the last scan-out ack
    decoded,    \* decoded[c]: points decoded and not yet published
    published,  \* published[c]: history, seq of the last frame published from c
    shared      \* the frame the DAC driver shows

hostVars   == <<nonce, hostKey, sent, output>>
threadVars == <<thread, chunk, keybase, scanning, ackDue, decoded, published>>
vars       == <<host, hostVars, toDevice, reply, threadVars, shared>>

TypeOK ==
    /\ host \in [Conn -> {"down", "up", "gone", "unanswered", "closed"}]
    /\ nonce \in [Conn -> Nonce \cup {None}]
    /\ hostKey \in [Conn -> Keybase \cup {None}]
    /\ sent \in [Conn -> 0..MaxSeq]
    /\ output \in [Conn -> BOOLEAN]
    /\ toDevice \in [Conn -> Seq(Message)]
    /\ reply \in [Conn -> Challenge \cup {None}]
    /\ thread \in [Conn -> {"none", "top", "read", "handle", "publish", "ended"}]
    /\ chunk \in [Conn -> Nat]
    /\ keybase \in [Conn -> Keybase \cup {None}]
    /\ scanning \in [Conn -> BOOLEAN]
    /\ ackDue \in [Conn -> BOOLEAN]
    /\ decoded \in [Conn -> Frame \cup {NoFrame, Garbage}]
    /\ published \in [Conn -> 0..MaxSeq]
    /\ shared \in Frame \cup {NoFrame, Garbage}

Init ==
    /\ host = [c \in Conn |-> "down"]
    /\ nonce = [c \in Conn |-> None]
    /\ hostKey = [c \in Conn |-> None]
    /\ sent = [c \in Conn |-> 0]
    /\ output = [c \in Conn |-> FALSE]
    /\ toDevice = [c \in Conn |-> << >>]
    /\ reply = [c \in Conn |-> None]
    /\ thread = [c \in Conn |-> "none"]
    /\ chunk = [c \in Conn |-> 0]
    /\ keybase = [c \in Conn |-> None]
    /\ scanning = [c \in Conn |-> FALSE]
    /\ ackDue = [c \in Conn |-> FALSE]
    /\ decoded = [c \in Conn |-> NoFrame]
    /\ published = [c \in Conn |-> 0]
    /\ shared = NoFrame

-----------------------------------------------------------------------------
(* The host.                                                               *)

Serving(c) == host[c] = "up" /\ hostKey[c] # None

Send(c, m) ==
    /\ Len(toDevice[c]) < MaxInFlight
    /\ toDevice' = [toDevice EXCEPT ![c] = Append(@, m)]

Connect(c) ==
    /\ host[c] = "down"
    /\ host' = [host EXCEPT ![c] = "up"]
    /\ UNCHANGED <<nonce, hostKey, sent, output, toDevice, reply, threadVars, shared>>

\* One handshake per connection, before anything else.
SendHandshake(c) ==
    /\ host[c] = "up"
    /\ nonce[c] = None
    /\ \E a \in Nonce :
         /\ nonce' = [nonce EXCEPT ![c] = a]
         /\ Send(c, [type |-> "handshake", nonce |-> a])
    /\ UNCHANGED <<host, hostKey, sent, output, reply, threadVars, shared>>

ReadReply(c) ==
    /\ host[c] = "up"
    /\ reply[c] # None
    /\ hostKey' = [hostKey EXCEPT ![c] = SessionKeybase(nonce[c], reply[c])]
    /\ reply' = [reply EXCEPT ![c] = None]
    /\ UNCHANGED <<host, nonce, sent, output, toDevice, threadVars, shared>>

\* The application's next frame, or the last one again: a host never stops
\* streaming.
NextSeq(c) == IF sent[c] < MaxSeq THEN sent[c] + 1 ELSE MaxSeq

SendFrame(c) ==
    /\ MaxSeq > 0
    /\ Serving(c)
    /\ sent' = [sent EXCEPT ![c] = NextSeq(c)]
    /\ output' = [output EXCEPT ![c] = TRUE]
    /\ Send(c, [type |-> "frame", key |-> hostKey[c],
                frame |-> [conn |-> c, seq |-> NextSeq(c)]])
    /\ UNCHANGED <<host, nonce, hostKey, reply, threadVars, shared>>

SendEnable(c) ==
    /\ Serving(c)
    /\ output' = [output EXCEPT ![c] = TRUE]
    /\ Send(c, [type |-> "enable"])
    /\ UNCHANGED <<host, nonce, hostKey, sent, reply, threadVars, shared>>

SendDisable(c) ==
    /\ Serving(c)
    /\ output' = [output EXCEPT ![c] = FALSE]
    /\ Send(c, [type |-> "disable"])
    /\ UNCHANGED <<host, nonce, hostKey, sent, reply, threadVars, shared>>

\* Configuration commands, clock setting and keep-alives.
SendQuery(c) ==
    /\ Serving(c)
    /\ Send(c, [type |-> "query"])
    /\ UNCHANGED <<host, hostVars, reply, threadVars, shared>>

\* The host closes or the connection breaks; what the thread has not read
\* may be lost from any point on.
Leave(c, how) ==
    /\ host[c] = "up"
    /\ host' = [host EXCEPT ![c] = how]
    /\ output' = [output EXCEPT ![c] = FALSE]
    /\ reply' = [reply EXCEPT ![c] = None]
    /\ \E k \in chunk[c]..Len(toDevice[c]) :
         toDevice' = [toDevice EXCEPT ![c] = SubSeq(@, 1, k)]
    /\ UNCHANGED <<nonce, hostKey, sent, threadVars, shared>>

Close(c) == Leave(c, "closed")

\* The host loses its power or its cable: nothing tells the device.
Vanish(c) == Leave(c, "gone")

-----------------------------------------------------------------------------
(* The device: the accept loop, and one thread per connection.             *)

Accept(c) ==
    /\ host[c] # "down"
    /\ thread[c] = "none"
    /\ thread' = [thread EXCEPT ![c] = "top"]
    /\ UNCHANGED <<host, hostVars, toDevice, reply, chunk, keybase, scanning, ackDue,
                   decoded, published, shared>>

\* What is written to a host that vanished is never acknowledged: when the
\* kernel gives it up, `read` returns an error.
Write(c) ==
    host' = [host EXCEPT ![c] = IF @ = "gone" THEN "unanswered" ELSE @]

KernelGivesUp(c) ==
    /\ host[c] = "unanswered"
    /\ host' = [host EXCEPT ![c] = "closed"]
    /\ UNCHANGED <<hostVars, toDevice, reply, threadVars, shared>>

\* `last_ack` matters to a scanning thread only.
AckTimer(c) ==
    /\ scanning[c]
    /\ ~ackDue[c]
    /\ ackDue' = [ackDue EXCEPT ![c] = TRUE]
    /\ UNCHANGED <<host, hostVars, toDevice, reply, thread, chunk, keybase, scanning,
                   decoded, published, shared>>

\* The head of the loop: a scan-out ack if one is due, then the read.
Top(c) ==
    /\ thread[c] = "top"
    /\ IF scanning[c] /\ ackDue[c] THEN Write(c) ELSE UNCHANGED host
    /\ ackDue' = [ackDue EXCEPT ![c] = @ /\ ~scanning[c]]
    /\ thread' = [thread EXCEPT ![c] = "read"]
    /\ UNCHANGED <<hostVars, toDevice, reply, chunk, keybase, scanning, decoded,
                   published, shared>>

ReadTimeout(c) ==
    /\ thread[c] = "read"
    /\ host[c] # "closed"
    /\ toDevice[c] = << >>
    /\ thread' = [thread EXCEPT ![c] = "top"]
    /\ UNCHANGED <<host, hostVars, toDevice, reply, chunk, keybase, scanning, ackDue,
                   decoded, published, shared>>

\* One read returns any number of the waiting messages.
ReadChunk(c) ==
    /\ thread[c] = "read"
    /\ \E k \in 1..Len(toDevice[c]) : chunk' = [chunk EXCEPT ![c] = k]
    /\ thread' = [thread EXCEPT ![c] = "handle"]
    /\ UNCHANGED <<host, hostVars, toDevice, reply, keybase, scanning, ackDue, decoded,
                   published, shared>>

\* Mutant: the end of the stream clears the session and reads on.
EndThreadLoops(c) ==
    /\ thread' = [thread EXCEPT ![c] = "top"]
    /\ keybase' = [keybase EXCEPT ![c] = None]
    /\ toDevice' = [toDevice EXCEPT ![c] = << >>]
    /\ chunk' = [chunk EXCEPT ![c] = 0]
    /\ UNCHANGED <<host, hostVars, reply, scanning, ackDue, decoded, published, shared>>

EndThread(c) ==
    /\ thread' = [thread EXCEPT ![c] = "ended"]
    /\ toDevice' = [toDevice EXCEPT ![c] = << >>]
    /\ chunk' = [chunk EXCEPT ![c] = 0]
    /\ keybase' = [keybase EXCEPT ![c] = None]
    /\ scanning' = [scanning EXCEPT ![c] = FALSE]
    /\ ackDue' = [ackDue EXCEPT ![c] = FALSE]
    /\ UNCHANGED <<host, hostVars, reply, decoded, published, shared>>

\* Mutant: a read of 0 bytes is taken for a timeout.
PeerClosedIgnored(c) ==
    /\ thread[c] = "read"
    /\ host[c] = "closed"
    /\ toDevice[c] = << >>
    /\ thread' = [thread EXCEPT ![c] = "top"]
    /\ UNCHANGED <<host, hostVars, toDevice, reply, chunk, keybase, scanning, ackDue,
                   decoded, published, shared>>

\* `read` returns 0 bytes or an error.
PeerClosed(c) ==
    /\ thread[c] = "read"
    /\ host[c] = "closed"
    /\ toDevice[c] = << >>
    /\ EndThread(c)

Handling(c, type) ==
    /\ thread[c] = "handle"
    /\ chunk[c] > 0
    /\ Head(toDevice[c]).type = type

\* Mutant: `buf` is cleared after the first message.
ConsumeAll(c) ==
    /\ toDevice' = [toDevice EXCEPT ![c] = SubSeq(@, chunk[c] + 1, Len(@))]
    /\ chunk' = [chunk EXCEPT ![c] = 0]

\* The message leaves `buf` and the loop goes on.
Consume(c) ==
    /\ toDevice' = [toDevice EXCEPT ![c] = Tail(@)]
    /\ chunk' = [chunk EXCEPT ![c] = @ - 1]

\* A reply is written with `?`: on a connection the host has left the write
\* may fail, and that ends the thread.
ReplyFails(c) ==
    /\ \E type \in {"handshake", "enable", "query"} : Handling(c, type)
    /\ host[c] = "closed"
    /\ EndThread(c)

HandleHandshake(c) ==
    /\ Handling(c, "handshake")
    /\ LET a == Head(toDevice[c]).nonce
           b == Respond(a)
       IN  /\ keybase' = [keybase EXCEPT ![c] = SessionKeybase(a, b)]
           /\ reply' = [reply EXCEPT ![c] = IF host[c] = "up" THEN b ELSE None]
    /\ Write(c)
    /\ Consume(c)
    /\ UNCHANGED <<hostVars, thread, scanning, ackDue, decoded, published, shared>>

\* Mutant: a frame key without the sequence number never fits.
DecodeUnkeyed(key, m) == {NoFrame, Garbage}

\* Decrypting with another key yields no points, or noise that parses.
Decode(key, m) == IF key = m.key THEN {m.frame} ELSE {NoFrame, Garbage}

\* A frame is ignored until the handshake has set the key.
HandleFrame(c) ==
    /\ Handling(c, "frame")
    /\ IF keybase[c] = None
       THEN UNCHANGED <<thread, decoded>>
       ELSE /\ \E d \in Decode(keybase[c], Head(toDevice[c])) :
                 decoded' = [decoded EXCEPT ![c] = d]
            /\ thread' = [thread EXCEPT ![c] = "publish"]
    /\ Consume(c)
    /\ UNCHANGED <<host, hostVars, reply, keybase, scanning, ackDue, published, shared>>

\* Mutant: the connection that came first keeps the DAC.
AdoptedOwned(c) ==
    IF decoded[c] = NoFrame \/ (shared \in Frame /\ shared.conn # c)
    THEN shared
    ELSE decoded[c]

\* A decoded frame without points leaves the one being shown.
Adopted(c) == IF decoded[c] = NoFrame THEN shared ELSE decoded[c]

Publish(c) ==
    /\ thread[c] = "publish"
    /\ shared' = Adopted(c)
    /\ published' = [published EXCEPT ![c] =
                       IF decoded[c] \in Frame THEN decoded[c].seq ELSE @]
    /\ scanning' = [scanning EXCEPT ![c] = TRUE]
    /\ decoded' = [decoded EXCEPT ![c] = NoFrame]
    /\ thread' = [thread EXCEPT ![c] = "handle"]
    /\ UNCHANGED <<host, hostVars, toDevice, reply, chunk, keybase, ackDue>>

\* Mutant: "enable" is answered like a configuration command.
HandleEnableAsQuery(c) ==
    /\ Handling(c, "enable")
    /\ Consume(c)
    /\ UNCHANGED <<host, hostVars, reply, thread, keybase, scanning, ackDue, decoded,
                   published, shared>>

HandleEnable(c) ==
    /\ Handling(c, "enable")
    /\ scanning' = [scanning EXCEPT ![c] = TRUE]
    /\ Write(c)
    /\ Consume(c)
    /\ UNCHANGED <<hostVars, reply, thread, keybase, ackDue, decoded, published, shared>>

HandleDisable(c) ==
    /\ Handling(c, "disable")
    /\ scanning' = [scanning EXCEPT ![c] = FALSE]
    /\ Consume(c)
    /\ UNCHANGED <<host, hostVars, reply, thread, keybase, ackDue, decoded, published, shared>>

\* A query without a template for its reply is passed over.
HandleQuery(c) ==
    /\ Handling(c, "query")
    /\ Write(c) \/ UNCHANGED host
    /\ Consume(c)
    /\ UNCHANGED <<hostVars, reply, thread, keybase, scanning, ackDue, decoded,
                   published, shared>>

\* Mutant: the acknowledgement is looked at after a timeout only.
ChunkDoneReads(c) ==
    /\ thread[c] = "handle"
    /\ chunk[c] = 0
    /\ thread' = [thread EXCEPT ![c] = "read"]
    /\ UNCHANGED <<host, hostVars, toDevice, reply, chunk, keybase, scanning, ackDue,
                   decoded, published, shared>>

\* No complete message is left in `buf`: back to the head of the loop.
ChunkDone(c) ==
    /\ thread[c] = "handle"
    /\ chunk[c] = 0
    /\ thread' = [thread EXCEPT ![c] = "top"]
    /\ UNCHANGED <<host, hostVars, toDevice, reply, chunk, keybase, scanning, ackDue,
                   decoded, published, shared>>

-----------------------------------------------------------------------------
HostNext(c) ==
    \/ Connect(c)
    \/ SendHandshake(c)
    \/ ReadReply(c)
    \/ SendFrame(c)
    \/ SendEnable(c)
    \/ SendDisable(c)
    \/ SendQuery(c)
    \/ Close(c)
    \/ Vanish(c)

ThreadNext(c) ==
    \/ Accept(c)
    \/ Top(c)
    \/ ReadTimeout(c)
    \/ ReadChunk(c)
    \/ PeerClosed(c)
    \/ ReplyFails(c)
    \/ HandleHandshake(c)
    \/ HandleFrame(c)
    \/ Publish(c)
    \/ HandleEnable(c)
    \/ HandleDisable(c)
    \/ HandleQuery(c)
    \/ ChunkDone(c)

ClockNext(c) == KernelGivesUp(c) \/ AckTimer(c)

Next == \E c \in Conn : HostNext(c) \/ ThreadNext(c) \/ ClockNext(c)

Spec == Init /\ [][Next]_vars

\* The operating system schedules the threads and time passes.  Hosts owe
\* nothing, but while one has a connection it streams: the connection takes
\* a frame again and again.
FairSpec ==
    /\ Spec
    /\ \A c \in Conn :
         /\ WF_vars(ThreadNext(c))
         /\ WF_vars(KernelGivesUp(c))
         /\ WF_vars(AckTimer(c))
         /\ SF_vars(SendFrame(c))

-----------------------------------------------------------------------------
(* Safety.                                                                 *)

\* What the DAC driver is given is always a frame some host sent, with the
\* points that host drew: no thread ever decrypts a frame with a key that is
\* missing, stale or another connection's (serve, decode_tcp_frame).
NoGarbage ==
    \/ shared = NoFrame
    \/ shared \in Frame /\ shared.seq <= sent[shared.conn]

\* From the moment the host has read the 0181 reply, the key base it derived
\* from the reply and the one the thread derived from the request are the
\* same, for as long as the thread lives (handle_msg, session_once).
KeyAgreement ==
    \A c \in Conn :
      hostKey[c] # None /\ thread[c] # "ended" => keybase[c] = hostKey[c]

\* Once a thread has caught up with its host, it acknowledges scan-out exactly
\* if the host's last word was a frame or "enable" and not "disable"; with a
\* flag that lags, the host sees a device that stopped, or one that scans on.
OutputAgrees ==
    \A c \in Conn :
      /\ Serving(c)
      /\ toDevice[c] = << >>
      /\ thread[c] \in {"top", "read"}
      => scanning[c] = output[c]

\* The frames of a connection are published one by one in the order they were
\* sent: none is skipped, repeated or overtaken while the threads interleave.
FramesInOrder ==
    [][\A c \in Conn : published'[c] \in {published[c], published[c] + 1}]_published

-----------------------------------------------------------------------------
(* The inductive strengthening of the safety properties.                   *)

\* The key base both sides derive from the host's nonce.
KeyOf(c) == SessionKeybase(nonce[c], Respond(nonce[c]))

\* Nothing travels on a connection before its handshake, and a handshake
\* travels alone, before the thread has a key and the host an answer.
HandshakeInv(c) ==
    /\ nonce[c] = None =>
         /\ toDevice[c] = << >>
         /\ reply[c] = None
         /\ hostKey[c] = None
         /\ keybase[c] = None
    /\ \A i \in 1..Len(toDevice[c]) :
         toDevice[c][i].type = "handshake" =>
           /\ toDevice[c][i].nonce = nonce[c]
           /\ Len(toDevice[c]) = 1
           /\ reply[c] = None
           /\ hostKey[c] = None

\* Whatever was derived from the nonce is what the other side derives.
KeyInv(c) ==
    /\ keybase[c] # None => keybase[c] = KeyOf(c)
    /\ reply[c] # None =>
         reply[c] = Respond(nonce[c]) /\ keybase[c] = KeyOf(c) /\ host[c] = "up"
    /\ hostKey[c] # None =>
         /\ hostKey[c] = KeyOf(c)
         /\ thread[c] # "ended" => keybase[c] = KeyOf(c)

\* A frame in flight, decoded or shown is one its host sent.
FrameInv(c) ==
    /\ \A i \in 1..Len(toDevice[c]) :
         toDevice[c][i].type = "frame" =>
           /\ toDevice[c][i].key = KeyOf(c)
           /\ toDevice[c][i].frame.conn = c
           /\ toDevice[c][i].frame.seq <= sent[c]
           /\ hostKey[c] # None
    /\ decoded[c] # NoFrame =>
         decoded[c] \in Frame /\ decoded[c].conn = c /\ decoded[c].seq <= sent[c]

ThreadInv(c) ==
    /\ chunk[c] <= Len(toDevice[c])
    /\ thread[c] = "ended" => host[c] = "closed" /\ toDevice[c] = << >>

ConnInv(c) == HandshakeInv(c) /\ KeyInv(c) /\ FrameInv(c) /\ ThreadInv(c)

IInv ==
    /\ TypeOK
    /\ NoGarbage
    /\ \A c \in Conn : ConnInv(c)

-----------------------------------------------------------------------------
(* Liveness.                                                               *)

\* A frame sent on a connection that stays open reaches the DAC driver.
FrameDelivered ==
    \A c \in Conn : \A s \in 1..MaxSeq :
      sent[c] = s ~> (published[c] >= s \/ host[c] # "up")

\* A due scan-out ack is not starved by the traffic of the connection: the
\* thread comes back to the head of its loop (serve, lines 229-236).
AckNotStarved ==
    \A c \in Conn : (scanning[c] /\ ackDue[c]) ~> ~(scanning[c] /\ ackDue[c])

Lingers(c) == host[c] = "gone" /\ ~scanning[c] /\ toDevice[c] = << >>

\* The thread of a host that has left ends.  Of one that vanished only the
\* unanswered acks tell, so a thread that was not scanning stays for good.
ThreadEnds ==
    \A c \in Conn :
      host[c] \notin {"down", "up"} ~> (thread[c] = "ended" \/ Lingers(c))

\* When one host goes on streaming and the others have left, the DAC driver in
\* the end shows that host's frames: a thread that is behind, or that lingers,
\* does not bring an old picture back for good (serve, decode_tcp_frame).
LatestConnection ==
    \A c \in Conn :
      <>[](Serving(c) /\ \A o \in Conn \ {c} : host[o] # "up")
        => <>[](shared \in Frame /\ shared.conn = c)

=============================================================================

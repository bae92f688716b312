--------------------------- MODULE Fb4ControlProofs ---------------------------
(***************************************************************************)
(* Fb4Control, for every set of connections and nonces and every bound:     *)
(* type correctness, NoGarbage and KeyAgreement, then FramesInOrder and     *)
(* OutputAgrees.                                                           *)
(*                                                                         *)
(* The last two say that a thread ends up where its host wants it.  Their   *)
(* invariant is that handling what is under way leads there: from the frame *)
(* and the flag the thread has now, message by message, to those the host   *)
(* has asked for last.                                                     *)
(***************************************************************************)
EXTENDS Fb4Control, TLAPS

\* The key base of any nonce is a key base (used whenever a key is derived).
LEMMA KeybaseType ==
    ASSUME NEW a \in Nonce
    PROVE  Respond(a) \in Challenge /\ SessionKeybase(a, Respond(a)) \in Keybase
BY DEF Challenge, Keybase

\* The message a thread is handling, and the queue it leaves behind.
LEMMA HeadMessage ==
    ASSUME TypeOK, NEW c \in Conn, ThreadInv(c), NEW type, Handling(c, type)
    PROVE  /\ Head(toDevice[c]) = toDevice[c][1]
           /\ 1 \in 1..Len(toDevice[c])
           /\ Head(toDevice[c]) \in Message
           /\ Head(toDevice[c]).type = type
           /\ Tail(toDevice[c]) \in Seq(Message)
           /\ Len(Tail(toDevice[c])) = Len(toDevice[c]) - 1
           /\ \A i \in 1..Len(Tail(toDevice[c])) :
                /\ i + 1 \in 1..Len(toDevice[c])
                /\ Tail(toDevice[c])[i] = toDevice[c][i + 1]
           /\ chunk[c] - 1 \in Nat
<1>1. toDevice[c] \in Seq(Message) /\ chunk[c] \in Nat
  BY DEF TypeOK
<1>2. toDevice[c] # << >>
  BY <1>1 DEF ThreadInv, Handling
<1> QED
  BY <1>1, <1>2 DEF Handling, ThreadInv

\* A handshake and a frame carry what their kind says.
LEMMA MessageFields ==
    ASSUME NEW m \in Message
    PROVE  /\ m.type = "handshake" => m.nonce \in Nonce
           /\ m.type = "frame" => m.key \in Keybase /\ m.frame \in Frame
BY DEF Message

\* What is sent in a message of a kind keeps the queues well-typed.
LEMMA SendType ==
    ASSUME TypeOK, NEW c \in Conn, NEW m \in Message, Send(c, m)
    PROVE  toDevice' \in [Conn -> Seq(Message)]
BY DEF TypeOK, Send

\* Every action keeps the types.
LEMMA TypeStep ==
    ASSUME TypeOK, [Next]_vars, \A c \in Conn : ConnInv(c)
    PROVE  TypeOK'
<1> USE BoundsAssumption, DistinctAssumption
<1>1. CASE UNCHANGED vars
  BY <1>1 DEF TypeOK, vars, hostVars, threadVars
<1>2. CASE Next
  <2> SUFFICES ASSUME NEW c \in Conn,
                      HostNext(c) \/ ThreadNext(c) \/ ClockNext(c)
               PROVE  TypeOK'
    BY <1>2 DEF Next
  <2>1. CASE Connect(c)
    BY <2>1 DEF TypeOK, Connect, threadVars
  <2>2. CASE SendHandshake(c)
    <3>1. PICK a \in Nonce : nonce' = [nonce EXCEPT ![c] = a]
                              /\ Send(c, [type |-> "handshake", nonce |-> a])
      BY <2>2 DEF SendHandshake
    <3>2. [type |-> "handshake", nonce |-> a] \in Message
      BY DEF Message
    <3> QED
      BY <2>2, <3>1, <3>2 DEF TypeOK, SendHandshake, Send, threadVars
  <2>3. CASE ReadReply(c)
    <3>1. nonce[c] \in Nonce /\ reply[c] = Respond(nonce[c])
      BY <2>3 DEF TypeOK, ReadReply, ConnInv, HandshakeInv, KeyInv
    <3> QED
      BY <2>3, <3>1, KeybaseType DEF TypeOK, ReadReply, threadVars
  <2>4. CASE SendFrame(c)
    <3> DEFINE m == [type |-> "frame", key |-> hostKey[c],
                     frame |-> [conn |-> c, seq |-> NextSeq(c)]]
    <3>1. hostKey[c] \in Keybase /\ NextSeq(c) \in 1..MaxSeq
      BY <2>4 DEF TypeOK, SendFrame, Serving, NextSeq
    <3>2. m \in Message
      BY <3>1 DEF Message, Frame
    <3>3. Send(c, m)
      BY <2>4 DEF SendFrame
    <3>4. toDevice' \in [Conn -> Seq(Message)]
      BY <3>2, <3>3, SendType
    <3>5. /\ sent' \in [Conn -> 0..MaxSeq] /\ output' \in [Conn -> BOOLEAN]
          /\ UNCHANGED <<host, nonce, hostKey, reply, threadVars, shared>>
      BY <2>4, <3>1 DEF TypeOK, SendFrame
    <3> QED
      BY <3>4, <3>5 DEF TypeOK, threadVars
  <2>5. CASE SendEnable(c)
    <3>1. toDevice' \in [Conn -> Seq(Message)]
      <4>1. [type |-> "enable"] \in Message
        BY DEF Message
      <4> QED
        BY <2>5, <4>1, SendType DEF SendEnable
    <3>2. /\ output' \in [Conn -> BOOLEAN]
          /\ UNCHANGED <<host, nonce, hostKey, sent, reply, threadVars, shared>>
      BY <2>5 DEF TypeOK, SendEnable
    <3> QED
      BY <3>1, <3>2 DEF TypeOK, threadVars
  <2>6. CASE SendDisable(c)
    <3>1. toDevice' \in [Conn -> Seq(Message)]
      <4>1. [type |-> "disable"] \in Message
        BY DEF Message
      <4> QED
        BY <2>6, <4>1, SendType DEF SendDisable
    <3>2. /\ output' \in [Conn -> BOOLEAN]
          /\ UNCHANGED <<host, nonce, hostKey, sent, reply, threadVars, shared>>
      BY <2>6 DEF TypeOK, SendDisable
    <3> QED
      BY <3>1, <3>2 DEF TypeOK, threadVars
  <2>7. CASE SendQuery(c)
    <3>1. toDevice' \in [Conn -> Seq(Message)]
      <4>1. [type |-> "query"] \in Message
        BY DEF Message
      <4> QED
        BY <2>7, <4>1, SendType DEF SendQuery
    <3>2. UNCHANGED <<host, hostVars, reply, threadVars, shared>>
      BY <2>7 DEF SendQuery
    <3> QED
      BY <3>1, <3>2 DEF TypeOK, hostVars, threadVars
  <2>8. CASE Close(c) \/ Vanish(c)
    <3>1. PICK k \in chunk[c]..Len(toDevice[c]) :
            toDevice' = [toDevice EXCEPT ![c] = SubSeq(@, 1, k)]
      BY <2>8 DEF Close, Vanish, Leave
    <3>2. SubSeq(toDevice[c], 1, k) \in Seq(Message)
      <4>1. toDevice[c] \in Seq(Message) /\ k \in Nat /\ k <= Len(toDevice[c])
        BY <3>1 DEF TypeOK
      <4> QED
        BY <4>1
    <3>3. /\ host' \in [Conn -> {"down", "up", "gone", "unanswered", "closed"}]
          /\ reply' \in [Conn -> Challenge \cup {None}]
          /\ output' \in [Conn -> BOOLEAN]
          /\ UNCHANGED <<nonce, hostKey, sent, threadVars, shared>>
      BY <2>8 DEF TypeOK, Close, Vanish, Leave
    <3>4. toDevice' \in [Conn -> Seq(Message)]
      BY <3>1, <3>2 DEF TypeOK
    <3> QED
      BY <3>3, <3>4 DEF TypeOK, threadVars
  <2>9. CASE Accept(c)
    BY <2>9 DEF TypeOK, Accept, hostVars
  <2>10. CASE Top(c)
    BY <2>10 DEF TypeOK, Top, Write, hostVars
  <2>11. CASE ReadTimeout(c)
    BY <2>11 DEF TypeOK, ReadTimeout, hostVars
  <2>12. CASE ReadChunk(c)
    <3>1. PICK k \in 1..Len(toDevice[c]) : chunk' = [chunk EXCEPT ![c] = k]
      BY <2>12 DEF ReadChunk
    <3>2. k \in Nat
      BY <3>1 DEF TypeOK
    <3>3. /\ thread' = [thread EXCEPT ![c] = "handle"]
          /\ UNCHANGED <<host, hostVars, toDevice, reply, keybase, scanning, ackDue, decoded,
                         published, shared>>
      BY <2>12 DEF ReadChunk
    <3> QED
      BY <3>1, <3>2, <3>3 DEF TypeOK, hostVars
  <2>13. CASE PeerClosed(c)
    <3>1. EndThread(c)
      BY <2>13 DEF PeerClosed
    <3> QED
      BY <3>1 DEF TypeOK, EndThread, hostVars
  <2>14. CASE ReplyFails(c)
    <3>1. EndThread(c)
      BY <2>14 DEF ReplyFails
    <3> QED
      BY <3>1 DEF TypeOK, EndThread, hostVars
  <2>15. CASE HandleHandshake(c)
    <3> DEFINE a == Head(toDevice[c]).nonce
    <3>1. Handling(c, "handshake") /\ ThreadInv(c)
      BY <2>15 DEF HandleHandshake, ConnInv
    <3>2. Tail(toDevice[c]) \in Seq(Message) /\ chunk[c] - 1 \in Nat /\ a \in Nonce
      BY <3>1, HeadMessage, MessageFields
    <3> QED
      BY <2>15, <3>2, KeybaseType DEF TypeOK, HandleHandshake, Write, Consume, hostVars
  <2>16. CASE HandleFrame(c)
    <3> DEFINE m == Head(toDevice[c])
    <3>1. Handling(c, "frame") /\ ThreadInv(c)
      BY <2>16 DEF HandleFrame, ConnInv
    <3>2. Tail(toDevice[c]) \in Seq(Message) /\ chunk[c] - 1 \in Nat /\ m.frame \in Frame
      BY <3>1, HeadMessage, MessageFields
    <3>3. Decode(keybase[c], m) \subseteq Frame \cup {NoFrame, Garbage}
      BY <3>2 DEF Decode
    <3>4. decoded' \in [Conn -> Frame \cup {NoFrame, Garbage}]
      BY <2>16, <3>3 DEF TypeOK, HandleFrame
    <3>5. thread' \in [Conn -> {"none", "top", "read", "handle", "publish", "ended"}]
      BY <2>16 DEF TypeOK, HandleFrame
    <3> QED
      BY <2>16, <3>2, <3>4, <3>5 DEF TypeOK, HandleFrame, Consume, hostVars
  <2>17. CASE Publish(c)
    <3>1. decoded[c] \in Frame => decoded[c].seq \in 0..MaxSeq
      BY DEF Frame
    <3> QED
      BY <2>17, <3>1 DEF TypeOK, Publish, Adopted, hostVars
  <2>18. CASE HandleEnable(c)
    <3>1. Handling(c, "enable") /\ ThreadInv(c)
      BY <2>18 DEF HandleEnable, ConnInv
    <3>2. Tail(toDevice[c]) \in Seq(Message) /\ chunk[c] - 1 \in Nat
      BY <3>1, HeadMessage
    <3> QED
      BY <2>18, <3>2 DEF TypeOK, HandleEnable, Write, Consume, hostVars
  <2>19. CASE HandleDisable(c)
    <3>1. Handling(c, "disable") /\ ThreadInv(c)
      BY <2>19 DEF HandleDisable, ConnInv
    <3>2. Tail(toDevice[c]) \in Seq(Message) /\ chunk[c] - 1 \in Nat
      BY <3>1, HeadMessage
    <3> QED
      BY <2>19, <3>2 DEF TypeOK, HandleDisable, Consume, hostVars
  <2>20. CASE HandleQuery(c)
    <3>1. Handling(c, "query") /\ ThreadInv(c)
      BY <2>20 DEF HandleQuery, ConnInv
    <3>2. Tail(toDevice[c]) \in Seq(Message) /\ chunk[c] - 1 \in Nat
      BY <3>1, HeadMessage
    <3>3. host' \in [Conn -> {"down", "up", "gone", "unanswered", "closed"}]
      BY <2>20 DEF TypeOK, HandleQuery, Write
    <3> QED
      BY <2>20, <3>2, <3>3 DEF TypeOK, HandleQuery, Consume, hostVars
  <2>21. CASE ChunkDone(c)
    BY <2>21, KeybaseType DEF TypeOK, ChunkDone, hostVars, threadVars, Message, Frame
  <2>22. CASE AckTimer(c)
    BY <2>22, KeybaseType DEF TypeOK, AckTimer, hostVars, threadVars, Message, Frame
  <2>23. CASE KernelGivesUp(c)
    BY <2>23 DEF TypeOK, KernelGivesUp, hostVars, threadVars
  <2> QED
    BY <2>1, <2>2, <2>3, <2>4, <2>5, <2>6, <2>7, <2>8, <2>9, <2>10, <2>11, <2>12, <2>13, <2>14, <2>15, <2>16, <2>17, <2>18, <2>19, <2>20, <2>21, <2>22, <2>23 DEF HostNext, ThreadNext, ClockNext
<1> QED
  BY <1>1, <1>2

\* A step on one connection leaves the state of every other connection alone.
LEMMA Elsewhere ==
    ASSUME TypeOK, NEW c \in Conn, NEW d \in Conn, c # d,
           HostNext(c) \/ ThreadNext(c) \/ ClockNext(c)
    PROVE  /\ host'[d] = host[d] /\ nonce'[d] = nonce[d]
           /\ hostKey'[d] = hostKey[d] /\ sent'[d] = sent[d]
           /\ toDevice'[d] = toDevice[d] /\ reply'[d] = reply[d]
           /\ thread'[d] = thread[d] /\ chunk'[d] = chunk[d]
           /\ keybase'[d] = keybase[d] /\ decoded'[d] = decoded[d]
<1>1. CASE Connect(c)
  BY <1>1 DEF TypeOK, Connect, hostVars, threadVars
<1>2. CASE SendHandshake(c)
  BY <1>2 DEF TypeOK, SendHandshake, Send, hostVars, threadVars
<1>3. CASE ReadReply(c)
  BY <1>3 DEF TypeOK, ReadReply, hostVars, threadVars
<1>4. CASE SendFrame(c)
  BY <1>4 DEF TypeOK, SendFrame, Send, Serving, hostVars, threadVars
<1>5. CASE SendEnable(c)
  BY <1>5 DEF TypeOK, SendEnable, Send, Serving, hostVars, threadVars
<1>6. CASE SendDisable(c)
  BY <1>6 DEF TypeOK, SendDisable, Send, Serving, hostVars, threadVars
<1>7. CASE SendQuery(c)
  BY <1>7 DEF TypeOK, SendQuery, Send, Serving, hostVars, threadVars
<1>8. CASE Close(c) \/ Vanish(c)
  BY <1>8 DEF TypeOK, Close, Vanish, Leave, hostVars, threadVars
<1>9. CASE Accept(c)
  BY <1>9 DEF TypeOK, Accept, hostVars, threadVars
<1>10. CASE Top(c)
  BY <1>10 DEF TypeOK, Top, Write, hostVars, threadVars
<1>11. CASE ReadTimeout(c)
  BY <1>11 DEF TypeOK, ReadTimeout, hostVars, threadVars
<1>12. CASE ReadChunk(c)
  BY <1>12 DEF TypeOK, ReadChunk, hostVars, threadVars
<1>13. CASE PeerClosed(c)
  BY <1>13 DEF TypeOK, PeerClosed, EndThread, hostVars, threadVars
<1>14. CASE ReplyFails(c)
  BY <1>14 DEF TypeOK, ReplyFails, EndThread, hostVars, threadVars
<1>15. CASE HandleHandshake(c)
  BY <1>15 DEF TypeOK, HandleHandshake, Write, Consume, hostVars, threadVars
<1>16. CASE HandleFrame(c)
  BY <1>16 DEF TypeOK, HandleFrame, Consume, hostVars, threadVars
<1>17. CASE Publish(c)
  BY <1>17 DEF TypeOK, Publish, hostVars, threadVars
<1>18. CASE HandleEnable(c)
  BY <1>18 DEF TypeOK, HandleEnable, Write, Consume, hostVars, threadVars
<1>19. CASE HandleDisable(c)
  BY <1>19 DEF TypeOK, HandleDisable, Consume, hostVars, threadVars
<1>20. CASE HandleQuery(c)
  BY <1>20 DEF TypeOK, HandleQuery, Write, Consume, hostVars, threadVars
<1>21. CASE ChunkDone(c)
  BY <1>21 DEF TypeOK, ChunkDone, hostVars, threadVars
<1>22. CASE AckTimer(c)
  BY <1>22 DEF TypeOK, AckTimer, hostVars, threadVars
<1>23. CASE KernelGivesUp(c)
  BY <1>23 DEF TypeOK, KernelGivesUp, hostVars, threadVars
<1> QED
  BY <1>1, <1>2, <1>3, <1>4, <1>5, <1>6, <1>7, <1>8, <1>9, <1>10, <1>11, <1>12, <1>13, <1>14, <1>15, <1>16, <1>17, <1>18, <1>19, <1>20, <1>21, <1>22, <1>23 DEF HostNext, ThreadNext, ClockNext

\* A step on a connection keeps the invariant of that connection.
LEMMA ConnStep ==
    ASSUME TypeOK, TypeOK', NEW c \in Conn, ConnInv(c),
           HostNext(c) \/ ThreadNext(c) \/ ClockNext(c)
    PROVE  ConnInv(c)'
<1> USE BoundsAssumption, DistinctAssumption DEF ConnInv, HandshakeInv, KeyInv, FrameInv, ThreadInv, KeyOf
<1>1. CASE Connect(c)
  BY <1>1 DEF TypeOK, Connect, hostVars, threadVars
<1>2. CASE SendHandshake(c)
  BY <1>2 DEF TypeOK, SendHandshake, Send, hostVars, threadVars
<1>3. CASE ReadReply(c)
  BY <1>3 DEF TypeOK, ReadReply, hostVars, threadVars
<1>4. CASE SendFrame(c)
  <2> DEFINE m == [type |-> "frame", key |-> hostKey[c],
                   frame |-> [conn |-> c, seq |-> NextSeq(c)]]
             q == toDevice[c]
  <2>1. q \in Seq(Message) /\ sent[c] \in Nat /\ hostKey[c] = KeyOf(c)
    BY <1>4 DEF TypeOK, SendFrame, Serving
  <2>2. /\ toDevice'[c] = Append(q, m) /\ sent'[c] = NextSeq(c)
        /\ NextSeq(c) \in Nat /\ sent[c] <= NextSeq(c)
    BY <1>4 DEF TypeOK, SendFrame, Send, NextSeq
  <2>3. /\ Len(toDevice'[c]) = Len(q) + 1
        /\ \A i \in 1..Len(q) : toDevice'[c][i] = q[i]
        /\ toDevice'[c][Len(q) + 1] = m
    BY <2>1, <2>2
  <2>4. UNCHANGED <<host[c], nonce[c], hostKey[c], reply[c], thread[c], chunk[c],
                    keybase[c], decoded[c]>>
    BY <1>4 DEF SendFrame, threadVars
  <2>5. \A i \in 1..Len(q) : q[i].type # "handshake"
    BY <1>4 DEF SendFrame, Serving
  <2>6. HandshakeInv(c)'
    BY <1>4, <2>1, <2>2, <2>3, <2>4, <2>5 DEF SendFrame, Serving
  <2>7. hostKey'[c] # None /\ KeyOf(c)' = KeyOf(c)
    BY <1>4, <2>4 DEF SendFrame, Serving
  <2>8. ASSUME NEW i \in 1..Len(toDevice'[c]), toDevice'[c][i].type = "frame"
        PROVE  /\ toDevice'[c][i].key = KeyOf(c)
               /\ toDevice'[c][i].frame.conn = c
               /\ toDevice'[c][i].frame.seq <= sent'[c]
    <3>1. CASE i \in 1..Len(q)
      <4>1. q[i].frame.seq \in Nat /\ q[i].frame.seq <= sent[c]
        BY <2>1, <2>3, <2>8, <3>1, MessageFields DEF Frame
      <4> QED
        BY <2>1, <2>2, <2>3, <2>8, <3>1, <4>1
    <3>2. CASE i = Len(q) + 1
      BY <2>1, <2>2, <2>3, <3>2
    <3> QED
      BY <2>1, <2>3, <3>1, <3>2
  <2>9. decoded'[c] # NoFrame =>
          decoded'[c] \in Frame /\ decoded'[c].conn = c /\ decoded'[c].seq <= sent'[c]
    BY <2>1, <2>2, <2>4 DEF Frame
  <2>10. FrameInv(c)'
    BY <2>7, <2>8, <2>9
  <2>11. KeyInv(c)' /\ ThreadInv(c)'
    BY <1>4, <2>1, <2>3, <2>4 DEF TypeOK, SendFrame, Serving
  <2> QED
    BY <2>6, <2>10, <2>11
<1>5. CASE SendEnable(c) \/ SendDisable(c) \/ SendQuery(c)
  <2> DEFINE q == toDevice[c]
  <2>1. q \in Seq(Message) /\ hostKey[c] # None
    BY <1>5 DEF TypeOK, SendEnable, SendDisable, SendQuery, Serving
  <2>2. PICK m \in {[type |-> "enable"], [type |-> "disable"], [type |-> "query"]} :
          toDevice'[c] = Append(q, m)
    BY <1>5 DEF TypeOK, SendEnable, SendDisable, SendQuery, Send
  <2>3. /\ Len(toDevice'[c]) = Len(q) + 1 /\ Len(q) \in Nat
        /\ \A i \in 1..Len(q) : toDevice'[c][i] = q[i]
        /\ toDevice'[c][Len(q) + 1] = m
        /\ m.type # "handshake" /\ m.type # "frame"
    BY <2>1, <2>2
  <2>4. UNCHANGED <<host[c], nonce[c], hostKey[c], sent[c], reply[c], thread[c],
                    chunk[c], keybase[c], decoded[c]>>
    BY <1>5 DEF SendEnable, SendDisable, SendQuery, hostVars, threadVars
  <2>5. \A i \in 1..Len(toDevice'[c]) :
          \/ i \in 1..Len(q) /\ toDevice'[c][i] = q[i]
          \/ toDevice'[c][i].type \notin {"handshake", "frame"}
    BY <2>3
  <2>6. HandshakeInv(c)'
    <3>1. nonce[c] # None
      BY <2>1
    <3>2. \A i \in 1..Len(toDevice'[c]) : toDevice'[c][i].type # "handshake"
      BY <2>1, <2>5
    <3> QED
      BY <2>4, <3>1, <3>2
  <2>7. KeyInv(c)' /\ FrameInv(c)'
    BY <2>4, <2>5
  <2>8. ThreadInv(c)'
    <3>1. host[c] = "up" /\ chunk[c] \in Nat
      BY <1>5 DEF TypeOK, SendEnable, SendDisable, SendQuery, Serving
    <3> QED
      BY <2>3, <2>4, <3>1
  <2> QED
    BY <2>6, <2>7, <2>8
<1>8. CASE Close(c) \/ Vanish(c)
  <2>1. PICK k \in chunk[c]..Len(toDevice[c]) :
          toDevice' = [toDevice EXCEPT ![c] = SubSeq(@, 1, k)]
    BY <1>8 DEF Close, Vanish, Leave
  <2>2. toDevice[c] \in Seq(Message) /\ chunk[c] \in Nat /\ k \in Nat /\ k <= Len(toDevice[c])
    BY <2>1 DEF TypeOK
  <2>3. toDevice'[c] = SubSeq(toDevice[c], 1, k)
    BY <2>1 DEF TypeOK
  <2>4. /\ Len(toDevice'[c]) = k
        /\ \A i \in 1..k : i \in 1..Len(toDevice[c]) /\ toDevice'[c][i] = toDevice[c][i]
        /\ toDevice[c] = << >> => toDevice'[c] = << >>
    BY <2>2, <2>3
  <2>5. /\ UNCHANGED <<nonce[c], hostKey[c], sent[c], thread[c], chunk[c],
                       keybase[c], decoded[c]>>
        /\ host[c] = "up" /\ reply'[c] = None
    BY <1>8 DEF TypeOK, Close, Vanish, Leave, threadVars
  <2>6. HandshakeInv(c)'
    BY <2>2, <2>4, <2>5
  <2>7. KeyInv(c)'
    BY <2>5
  <2>8. FrameInv(c)'
    BY <2>4, <2>5
  <2>9. ThreadInv(c)'
    BY <2>1, <2>2, <2>4, <2>5
  <2> QED
    BY <2>6, <2>7, <2>8, <2>9
<1>9. CASE Accept(c)
  <2>1. /\ thread[c] = "none" /\ thread'[c] = "top"
        /\ UNCHANGED <<host[c], nonce[c], hostKey[c], sent[c], toDevice[c], reply[c],
                       chunk[c], keybase[c], decoded[c]>>
    BY <1>9 DEF TypeOK, Accept, hostVars
  <2> QED
    BY <2>1
<1>10. CASE Top(c)
  BY <1>10 DEF TypeOK, Top, Write, hostVars, threadVars
<1>11. CASE ReadTimeout(c)
  BY <1>11 DEF TypeOK, ReadTimeout, hostVars, threadVars
<1>12. CASE ReadChunk(c)
  BY <1>12 DEF TypeOK, ReadChunk, hostVars, threadVars
<1>13. CASE PeerClosed(c)
  BY <1>13 DEF TypeOK, PeerClosed, EndThread, hostVars, threadVars
<1>14. CASE ReplyFails(c)
  BY <1>14 DEF TypeOK, ReplyFails, EndThread, hostVars, threadVars
<1>15. CASE HandleHandshake(c)
  <2> DEFINE a == nonce[c]
  <2>1. Handling(c, "handshake")
    BY <1>15 DEF HandleHandshake
  <2>2. /\ Head(toDevice[c]).nonce = a
        /\ Len(toDevice[c]) = 1
        /\ hostKey[c] = None
        /\ toDevice[c] \in Seq(Message)
    <3>1. /\ 1 \in 1..Len(toDevice[c])
          /\ Head(toDevice[c]) = toDevice[c][1]
          /\ toDevice[c][1].type = "handshake"
      BY <2>1, HeadMessage
    <3>2. toDevice[c] \in Seq(Message)
      BY DEF TypeOK
    <3> QED
      BY <3>1, <3>2
  <2>3. Len(toDevice'[c]) = 0
    <3>1. toDevice' = [toDevice EXCEPT ![c] = Tail(@)]
      BY <1>15 DEF HandleHandshake, Consume
    <3>2. Len(Tail(toDevice[c])) = 0
      BY <2>1, <2>2, HeadMessage
    <3> QED
      BY <3>1, <3>2 DEF TypeOK
  <2>4. a \in Nonce
    <3>1. nonce[c] # None
      BY <2>2
    <3> QED
      BY <3>1 DEF TypeOK
  <2>5. /\ keybase'[c] = SessionKeybase(a, Respond(a))
        /\ reply'[c] = IF host[c] = "up" THEN Respond(a) ELSE None
        /\ chunk'[c] = chunk[c] - 1
    <3>1. /\ keybase' = [keybase EXCEPT ![c] = SessionKeybase(a, Respond(a))]
          /\ reply' = [reply EXCEPT ![c] = IF host[c] = "up" THEN Respond(a) ELSE None]
          /\ chunk' = [chunk EXCEPT ![c] = @ - 1]
      BY <1>15, <2>2 DEF HandleHandshake, Consume
    <3> QED
      BY <3>1 DEF TypeOK
  <2>6. /\ UNCHANGED <<nonce[c], hostKey[c], sent[c], thread[c], decoded[c]>>
        /\ host[c] = "up" => host'[c] = "up"
    BY <1>15 DEF TypeOK, HandleHandshake, Write, hostVars
  <2>7. chunk'[c] <= Len(toDevice'[c])
    BY <2>2, <2>3, <2>5 DEF TypeOK
  <2> QED
    BY <2>1, <2>2, <2>3, <2>4, <2>5, <2>6, <2>7 DEF Handling
<1>16. CASE HandleFrame(c)
  <2> DEFINE m == Head(toDevice[c])
             q == toDevice[c]
  <2>1. Handling(c, "frame")
    BY <1>16 DEF HandleFrame
  <2>2. /\ m = q[1]
        /\ m.key = KeyOf(c) /\ m.key \in Keybase /\ m.frame \in Frame
        /\ m.frame.conn = c /\ m.frame.seq <= sent[c]
        /\ hostKey[c] # None
    BY <2>1, HeadMessage, MessageFields
  <2>3. thread[c] = "handle" /\ keybase[c] = KeyOf(c)
    BY <2>1, <2>2 DEF Handling
  <2>4. keybase[c] # None
    BY <2>2, <2>3
  <2>5. decoded'[c] = m.frame /\ thread'[c] = "publish"
    BY <1>16, <2>2, <2>3, <2>4 DEF TypeOK, HandleFrame, Decode
  <2>6. toDevice'[c] = Tail(q) /\ chunk'[c] = chunk[c] - 1
    BY <1>16 DEF TypeOK, HandleFrame, Consume
  <2>7. UNCHANGED <<host[c], nonce[c], hostKey[c], sent[c], reply[c], keybase[c]>>
    BY <1>16 DEF HandleFrame, hostVars
  <2>8. /\ Len(toDevice'[c]) = Len(q) - 1
        /\ \A i \in 1..Len(toDevice'[c]) :
             i + 1 \in 1..Len(q) /\ toDevice'[c][i] = q[i + 1]
        /\ Len(q) \in Nat /\ chunk[c] \in Nat /\ q # << >>
    <3>1. q \in Seq(Message) /\ chunk[c] \in Nat
      BY DEF TypeOK
    <3>2. /\ Len(Tail(q)) = Len(q) - 1 /\ 1 \in 1..Len(q)
          /\ \A i \in 1..Len(Tail(q)) : i + 1 \in 1..Len(q) /\ Tail(q)[i] = q[i + 1]
      BY <2>1, HeadMessage
    <3> QED
      BY <2>6, <3>1, <3>2
  <2>9. \A i \in 1..Len(toDevice'[c]) : toDevice'[c][i].type # "handshake"
    BY <2>2, <2>8
  <2>10. HandshakeInv(c)'
    BY <2>2, <2>7, <2>8, <2>9
  <2>11. KeyInv(c)'
    BY <2>3, <2>5, <2>7
  <2>12. FrameInv(c)'
    <3>1. ASSUME NEW i \in 1..Len(toDevice'[c]), toDevice'[c][i].type = "frame"
          PROVE  /\ toDevice'[c][i].key = KeyOf(c)
                 /\ toDevice'[c][i].frame.conn = c
                 /\ toDevice'[c][i].frame.seq <= sent[c]
      BY <2>8, <3>1
    <3>2. KeyOf(c)' = KeyOf(c) /\ sent'[c] = sent[c] /\ hostKey'[c] # None
      BY <2>2, <2>7
    <3>3. decoded'[c] \in Frame /\ decoded'[c].conn = c /\ decoded'[c].seq <= sent[c]
      BY <2>2, <2>5
    <3> QED
      BY <3>1, <3>2, <3>3
  <2>13. ThreadInv(c)'
    BY <2>5, <2>6, <2>8
  <2> QED
    BY <2>10, <2>11, <2>12, <2>13
<1>17. CASE Publish(c)
  <2>1. /\ decoded'[c] = NoFrame /\ thread[c] = "publish" /\ thread'[c] = "handle"
        /\ UNCHANGED <<host[c], nonce[c], hostKey[c], sent[c], toDevice[c], reply[c],
                       chunk[c], keybase[c]>>
    BY <1>17 DEF TypeOK, Publish, hostVars
  <2>2. HandshakeInv(c)' /\ KeyInv(c)'
    BY <2>1
  <2>3. FrameInv(c)' /\ ThreadInv(c)'
    BY <2>1
  <2> QED
    BY <2>2, <2>3
<1>18. CASE HandleEnable(c) \/ HandleDisable(c) \/ HandleQuery(c)
  <2> DEFINE q == toDevice[c]
  <2>1. PICK type \in {"enable", "disable", "query"} : Handling(c, type)
    BY <1>18 DEF HandleEnable, HandleDisable, HandleQuery
  <2>2. /\ toDevice'[c] = Tail(q) /\ chunk'[c] = chunk[c] - 1
        /\ Len(q) \in Nat /\ chunk[c] \in Nat
        /\ UNCHANGED <<nonce[c], hostKey[c], sent[c], reply[c], thread[c],
                       keybase[c], decoded[c]>>
    BY <1>18 DEF TypeOK, HandleEnable, HandleDisable, HandleQuery, Consume, hostVars
  <2>3. host'[c] = host[c] \/ (host[c] = "gone" /\ host'[c] = "unanswered")
    BY <1>18 DEF TypeOK, HandleEnable, HandleDisable, HandleQuery, Write
  <2>4. /\ 1 \in 1..Len(q) /\ q[1].type = type
        /\ Len(toDevice'[c]) = Len(q) - 1
        /\ \A i \in 1..Len(toDevice'[c]) :
             i + 1 \in 1..Len(q) /\ toDevice'[c][i] = q[i + 1]
    BY <2>1, <2>2, HeadMessage
  <2>5. \A i \in 1..Len(toDevice'[c]) : toDevice'[c][i].type # "handshake"
    BY <2>2, <2>4
  <2>6. HandshakeInv(c)'
    <3>1. nonce[c] # None
      BY <2>4
    <3> QED
      BY <2>2, <2>5, <3>1
  <2>7. KeyInv(c)'
    BY <2>2, <2>3
  <2>8. FrameInv(c)'
    BY <2>2, <2>4
  <2>9. ThreadInv(c)'
    BY <2>1, <2>2, <2>4 DEF Handling
  <2> QED
    BY <2>6, <2>7, <2>8, <2>9
<1>21. CASE ChunkDone(c)
  BY <1>21 DEF TypeOK, ChunkDone, hostVars, threadVars
<1>22. CASE AckTimer(c)
  BY <1>22 DEF TypeOK, AckTimer, hostVars, threadVars
<1>23. CASE KernelGivesUp(c)
  BY <1>23 DEF TypeOK, KernelGivesUp, hostVars, threadVars
<1> QED
  BY <1>1, <1>2, <1>3, <1>4, <1>5, <1>8, <1>9, <1>10, <1>11, <1>12, <1>13, <1>14, <1>15, <1>16, <1>17, <1>18, <1>21, <1>22, <1>23 DEF HostNext, ThreadNext, ClockNext

\* Every action keeps NoGarbage: only Publish changes what is shown, and `sent`
\* only grows.
LEMMA GarbageStep ==
    ASSUME TypeOK, TypeOK', NoGarbage, NEW c \in Conn, ConnInv(c),
           HostNext(c) \/ ThreadNext(c) \/ ClockNext(c)
    PROVE  NoGarbage'
<1>1. CASE Publish(c)
  <2>1. shared' = shared \/ (shared' = decoded[c] /\ decoded[c] # NoFrame)
    BY <1>1 DEF Publish, Adopted
  <2>2. sent' = sent
    BY <1>1 DEF Publish, hostVars
  <2> QED
    BY <2>1, <2>2 DEF NoGarbage, ConnInv, FrameInv
<1>2. CASE SendFrame(c)
  <2>1. shared' = shared /\ sent' = [sent EXCEPT ![c] = NextSeq(c)]
    BY <1>2 DEF SendFrame
  <2>2. \A d \in Conn : sent[d] \in Nat /\ sent[d] <= sent'[d]
    BY <2>1, BoundsAssumption DEF TypeOK, NextSeq
  <2>3. CASE shared = NoFrame
    BY <2>1, <2>3 DEF NoGarbage
  <2>4. CASE shared \in Frame /\ shared.seq <= sent[shared.conn]
    <3>1. shared.conn \in Conn /\ shared.seq \in Nat
      BY <2>4, BoundsAssumption DEF Frame
    <3>2. sent[shared.conn] \in Nat /\ sent'[shared.conn] \in Nat
          /\ sent[shared.conn] <= sent'[shared.conn]
      BY <2>2, <3>1 DEF TypeOK
    <3>3. shared.seq <= sent'[shared.conn]
      BY <2>4, <3>1, <3>2
    <3> QED
      BY <2>1, <2>4, <3>3 DEF NoGarbage
  <2> QED
    BY <2>3, <2>4 DEF NoGarbage
<1>3. CASE ~Publish(c) /\ ~SendFrame(c)
  <2>1. shared' = shared /\ sent' = sent
    BY <1>3 DEF HostNext, ThreadNext, ClockNext, KernelGivesUp, AckTimer, Connect, SendHandshake, ReadReply,
         SendEnable, SendDisable, SendQuery, Close, Vanish, Leave, Accept, Top, ReadTimeout,
         ReadChunk, PeerClosed, ReplyFails, EndThread, HandleHandshake, HandleFrame,
         HandleEnable, HandleDisable, HandleQuery, ChunkDone, hostVars
  <2> QED
    BY <2>1 DEF NoGarbage
<1> QED
  BY <1>1, <1>2, <1>3

-----------------------------------------------------------------------------
\* The initial states satisfy the inductive invariant.
LEMMA InitInv == Init => IInv
<1> SUFFICES ASSUME Init PROVE IInv
  OBVIOUS
<1>1. TypeOK
  BY BoundsAssumption DEF Init, TypeOK
<1>2. \A c \in Conn : ConnInv(c)
  <2> SUFFICES ASSUME NEW c \in Conn PROVE ConnInv(c)
    OBVIOUS
  <2>1. /\ toDevice[c] = << >> /\ Len(toDevice[c]) = 0 /\ chunk[c] = 0
        /\ reply[c] = None /\ hostKey[c] = None /\ keybase[c] = None
        /\ decoded[c] = NoFrame /\ thread[c] = "none"
    BY DEF Init
  <2> QED
    BY <2>1 DEF ConnInv, HandshakeInv, KeyInv, FrameInv, ThreadInv
<1> QED
  BY <1>1, <1>2 DEF Init, IInv, NoGarbage

\* Every step keeps the inductive invariant.
LEMMA StepInv == IInv /\ [Next]_vars => IInv'
<1> SUFFICES ASSUME IInv, [Next]_vars PROVE IInv'
  OBVIOUS
<1>1. TypeOK'
  BY TypeStep DEF IInv
<1>2. CASE UNCHANGED vars
  BY <1>1, <1>2 DEF IInv, NoGarbage, ConnInv, HandshakeInv, KeyInv, FrameInv,
       ThreadInv, KeyOf, vars, hostVars, threadVars
<1>3. CASE Next
  <2>1. PICK c \in Conn : HostNext(c) \/ ThreadNext(c) \/ ClockNext(c)
    BY <1>3 DEF Next
  <2>2. NoGarbage'
    BY <1>1, <2>1, GarbageStep DEF IInv
  <2>3. ASSUME NEW d \in Conn PROVE ConnInv(d)'
    <3>1. CASE d = c
      BY <1>1, <2>1, <3>1, ConnStep DEF IInv
    <3>2. CASE d # c
      BY <2>1, <3>2, Elsewhere DEF IInv, ConnInv, HandshakeInv, KeyInv, FrameInv,
           ThreadInv, KeyOf
    <3> QED
      BY <3>1, <3>2
  <2> QED
    BY <1>1, <2>2, <2>3 DEF IInv
<1> QED
  BY <1>2, <1>3

\* The inductive invariant holds in every reachable state.
THEOREM Invariance == Spec => []IInv
BY InitInv, StepInv, PTL DEF Spec

\* Type correctness of the control server.
THEOREM TypeCorrect == Spec => []TypeOK
<1>1. IInv => TypeOK
  BY DEF IInv
<1> QED
  BY Invariance, <1>1, PTL

\* Whatever the number of hosts and the interleaving of their threads, the DAC
\* driver is only ever given frames that a host sent, decrypted with their key.
THEOREM NoGarbageShown == Spec => []NoGarbage
<1>1. IInv => NoGarbage
  BY DEF IInv
<1> QED
  BY Invariance, <1>1, PTL

\* A host that has read the reply and the thread serving it hold the same key.
THEOREM KeysAgree == Spec => []KeyAgreement
<1>1. IInv => KeyAgreement
  BY DEF IInv, KeyAgreement, ConnInv, KeyInv
<1> QED
  BY Invariance, <1>1, PTL

-----------------------------------------------------------------------------
(* What is under way leads a thread where its host wants it.               *)

\* What the messages of a connection are about: a frame and the output.
Outlook == [seq : 0..MaxSeq, on : BOOLEAN]

\* The frame that follows frame n on a connection.
NextOf(n) == IF n < MaxSeq THEN n + 1 ELSE MaxSeq

\* Handling message m leads from s to t; a frame must be the next one.
Handled(s, m, t) ==
    IF m.type = "frame"
    THEN m.frame.seq = NextOf(s.seq) /\ t = [seq |-> m.frame.seq, on |-> TRUE]
    ELSE t = [seq |-> s.seq,
              on  |-> m.type = "enable" \/ (m.type # "disable" /\ s.on)]

\* Handling the messages of q one after the other leads from s to t.
Leads(q, s, t) ==
    \E f \in [0..Len(q) -> Outlook] :
      /\ f[0] = s
      /\ f[Len(q)] = t
      /\ \A i \in 1..Len(q) : Handled(f[i - 1], q[i], f[i])

\* What the thread has decoded or published, and is about to acknowledge.
Now(c) == [seq |-> IF thread[c] = "publish" THEN decoded[c].seq ELSE published[c],
           on  |-> scanning[c] \/ thread[c] = "publish"]

\* What the host has asked for.
Asked(c) == [seq |-> sent[c], on |-> output[c]]

QueueInv(c) ==
    \E t \in Outlook :
      /\ Leads(toDevice[c], Now(c), t)
      /\ host[c] \in {"down", "up"} => t = Asked(c)

PublishInv(c) ==
    IF thread[c] = "publish"
    THEN decoded[c] \in Frame /\ decoded[c].seq = NextOf(published[c])
    ELSE decoded[c] = NoFrame

OrderInv(c) == QueueInv(c) /\ PublishInv(c)

-----------------------------------------------------------------------------
(* Queues.                                                                 *)

\* Nothing under way leads nowhere.
LEMMA LeadsEmpty ==
    ASSUME NEW s \in Outlook, NEW t
    PROVE  Leads(<< >>, s, t) <=> s = t
<1>1. ASSUME Leads(<< >>, s, t) PROVE s = t
  BY <1>1 DEF Leads
<1>2. ASSUME s = t PROVE Leads(<< >>, s, t)
  <2> DEFINE f == [i \in 0..0 |-> s]
  <2>1. f \in [0..Len(<< >>) -> Outlook] /\ f[0] = s /\ f[Len(<< >>)] = t
    BY <1>2
  <2>2. \A i \in 1..Len(<< >>) : Handled(f[i - 1], << >>[i], f[i])
    OBVIOUS
  <2> QED
    BY <2>1, <2>2 DEF Leads
<1> QED
  BY <1>1, <1>2

\* A message more leads one step further.
LEMMA LeadsAppend ==
    ASSUME NEW q \in Seq(Message), NEW m \in Message, NEW s, NEW t,
           NEW u \in Outlook, Leads(q, s, t), Handled(t, m, u)
    PROVE  Leads(Append(q, m), s, u)
<1>1. PICK f \in [0..Len(q) -> Outlook] :
        f[0] = s /\ f[Len(q)] = t /\ \A i \in 1..Len(q) : Handled(f[i - 1], q[i], f[i])
  BY DEF Leads
<1> DEFINE r == Append(q, m)
           g == [i \in 0..Len(r) |-> IF i <= Len(q) THEN f[i] ELSE u]
<1>2. /\ Len(q) \in Nat /\ Len(r) = Len(q) + 1 /\ r[Len(q) + 1] = m
      /\ \A i \in 1..Len(q) : r[i] = q[i]
  OBVIOUS
<1> HIDE DEF r
<1>3. g \in [0..Len(r) -> Outlook] /\ g[0] = s /\ g[Len(r)] = u
  BY <1>1, <1>2
<1>4. ASSUME NEW i \in 1..Len(r) PROVE Handled(g[i - 1], r[i], g[i])
  <2>1. CASE i <= Len(q)
    <3>1. i \in 1..Len(q) /\ g[i - 1] = f[i - 1] /\ g[i] = f[i] /\ r[i] = q[i]
      BY <1>2, <2>1
    <3> QED
      BY <1>1, <3>1
  <2>2. CASE i = Len(q) + 1
    <3>1. g[i - 1] = t /\ g[i] = u /\ r[i] = m
      BY <1>1, <1>2, <2>2
    <3> QED
      BY <3>1
  <2> QED
    BY <1>2, <2>1, <2>2
<1> QED
  BY <1>3, <1>4 DEF Leads, r

\* What a queue leads to, its head begins and its tail goes on with.
LEMMA LeadsTail ==
    ASSUME NEW q \in Seq(Message), q # << >>, NEW s, NEW t, Leads(q, s, t)
    PROVE  \E u \in Outlook : Handled(s, Head(q), u) /\ Leads(Tail(q), u, t)
<1>1. PICK f \in [0..Len(q) -> Outlook] :
        f[0] = s /\ f[Len(q)] = t /\ \A i \in 1..Len(q) : Handled(f[i - 1], q[i], f[i])
  BY DEF Leads
<1> DEFINE r == Tail(q)
           g == [i \in 0..Len(r) |-> f[i + 1]]
<1>2. /\ Len(q) \in Nat /\ Len(q) > 0 /\ Len(r) = Len(q) - 1 /\ Head(q) = q[1]
      /\ \A i \in 1..Len(r) : r[i] = q[i + 1]
  OBVIOUS
<1> HIDE DEF r
<1>3. g \in [0..Len(r) -> Outlook] /\ g[0] = f[1] /\ g[Len(r)] = t /\ f[1] \in Outlook
  BY <1>1, <1>2
<1>4. ASSUME NEW i \in 1..Len(r) PROVE Handled(g[i - 1], r[i], g[i])
  <2>1. i + 1 \in 1..Len(q) /\ g[i - 1] = f[i] /\ g[i] = f[i + 1] /\ r[i] = q[i + 1]
    BY <1>2
  <2>2. Handled(f[(i + 1) - 1], q[i + 1], f[i + 1])
    BY <1>1, <2>1
  <2>3. (i + 1) - 1 = i
    BY <1>2
  <2> QED
    BY <2>1, <2>2, <2>3
<1>5. Handled(s, Head(q), f[1])
  <2>1. 1 \in 1..Len(q)
    BY <1>2
  <2>2. Handled(f[1 - 1], q[1], f[1])
    BY <1>1, <2>1
  <2> QED
    BY <1>1, <1>2, <2>2
<1>6. Leads(r, f[1], t)
  BY <1>3, <1>4 DEF Leads
<1> QED
  BY <1>3, <1>5, <1>6 DEF r

\* Cut short, a queue leads somewhere.
LEMMA LeadsPrefix ==
    ASSUME NEW q \in Seq(Message), NEW k \in 0..Len(q), NEW s, NEW t, Leads(q, s, t)
    PROVE  \E u \in Outlook : Leads(SubSeq(q, 1, k), s, u)
<1>1. PICK f \in [0..Len(q) -> Outlook] :
        f[0] = s /\ \A i \in 1..Len(q) : Handled(f[i - 1], q[i], f[i])
  BY DEF Leads
<1> DEFINE r == SubSeq(q, 1, k)
           g == [i \in 0..Len(r) |-> f[i]]
<1>2. /\ k \in Nat /\ Len(q) \in Nat /\ k <= Len(q) /\ Len(r) = k
      /\ \A i \in 1..k : r[i] = q[i]
  OBVIOUS
<1> HIDE DEF r
<1>3. g \in [0..Len(r) -> Outlook] /\ g[0] = s /\ g[Len(r)] = f[k] /\ f[k] \in Outlook
  BY <1>1, <1>2
<1>4. ASSUME NEW i \in 1..Len(r) PROVE Handled(g[i - 1], r[i], g[i])
  <2>1. i \in 1..Len(q) /\ g[i - 1] = f[i - 1] /\ g[i] = f[i] /\ r[i] = q[i]
    BY <1>2
  <2> QED
    BY <1>1, <2>1
<1> QED
  BY <1>3, <1>4 DEF Leads, r

-----------------------------------------------------------------------------
(* Steps.                                                                  *)

\* A step that moves nothing on a connection keeps its invariant.
LEMMA NothingMoved ==
    ASSUME NEW c \in Conn, OrderInv(c),
           toDevice'[c] = toDevice[c], Now(c)' = Now(c), Asked(c)' = Asked(c),
           host'[c] = host[c] \/ host'[c] \in {"closed", "unanswered"}
             \/ (host[c] = "down" /\ host'[c] = "up"),
           PublishInv(c)'
    PROVE  OrderInv(c)'
BY DEF OrderInv, QueueInv

\* A message that the host sends leads on to what it now asks for.
LEMMA Sends ==
    ASSUME TypeOK, TypeOK', NEW c \in Conn, OrderInv(c), NEW m \in Message, Send(c, m),
           host[c] = "up", host' = host, Now(c)' = Now(c), PublishInv(c)',
           Handled(Asked(c), m, Asked(c)')
    PROVE  OrderInv(c)'
<1>1. toDevice[c] \in Seq(Message) /\ toDevice'[c] = Append(toDevice[c], m)
  BY DEF TypeOK, Send
<1>2. Leads(toDevice[c], Now(c), Asked(c))
  BY DEF OrderInv, QueueInv
<1>3. Asked(c)' \in Outlook
  BY DEF TypeOK, Asked, Outlook
<1>4. Leads(Append(toDevice[c], m), Now(c), Asked(c)')
  BY <1>1, <1>2, <1>3, LeadsAppend
<1> QED
  BY <1>1, <1>3, <1>4 DEF OrderInv, QueueInv

\* A message that the thread handles leads it to where its handler goes.
LEMMA Handles ==
    ASSUME TypeOK, TypeOK', NEW c \in Conn, OrderInv(c), ThreadInv(c),
           NEW type, Handling(c, type), Consume(c),
           host'[c] = host[c] \/ host'[c] = "unanswered", Asked(c)' = Asked(c), PublishInv(c)',
           \A u \in Outlook : Handled(Now(c), Head(toDevice[c]), u) => u = Now(c)'
    PROVE  OrderInv(c)'
<1>1. toDevice[c] \in Seq(Message) /\ toDevice[c] # << >>
  BY DEF TypeOK, Handling, ThreadInv
<1>2. toDevice'[c] = Tail(toDevice[c])
  BY DEF TypeOK, Consume
<1>3. PICK t \in Outlook : /\ Leads(toDevice[c], Now(c), t)
                           /\ host[c] \in {"down", "up"} => t = Asked(c)
  BY DEF OrderInv, QueueInv
<1>4. PICK u \in Outlook : Handled(Now(c), Head(toDevice[c]), u) /\ Leads(Tail(toDevice[c]), u, t)
  BY <1>1, <1>3, LeadsTail
<1>5. u = Now(c)'
  BY <1>4
<1>6. Leads(toDevice[c]', Now(c)', t) /\ (host'[c] \in {"down", "up"} => t = Asked(c)')
  BY <1>2, <1>3, <1>4, <1>5
<1> QED
  BY <1>6 DEF OrderInv, QueueInv

\* A thread that ends owes nothing any more.
LEMMA Ends ==
    ASSUME TypeOK, TypeOK', NEW c \in Conn, OrderInv(c), EndThread(c),
           host[c] = "closed", thread[c] # "publish"
    PROVE  OrderInv(c)'
<1>1. toDevice'[c] = << >> /\ thread'[c] = "ended" /\ host'[c] = "closed" /\ decoded' = decoded
  BY DEF TypeOK, EndThread
<1>2. PublishInv(c)'
  BY <1>1 DEF OrderInv, PublishInv
<1>3. Now(c)' \in Outlook
  <2>1. Now(c)' = [seq |-> published'[c], on |-> scanning'[c]]
    BY <1>1 DEF TypeOK, Now
  <2> QED
    BY <2>1 DEF TypeOK, Outlook
<1>4. Leads(<< >>, Now(c)', Now(c)')
  BY <1>3, LeadsEmpty
<1> QED
  BY <1>1, <1>2, <1>3, <1>4 DEF OrderInv, QueueInv

\* A step on a connection keeps the order of that connection.
LEMMA OrderStep ==
    ASSUME TypeOK, TypeOK', NEW c \in Conn, ConnInv(c), OrderInv(c),
           HostNext(c) \/ ThreadNext(c) \/ ClockNext(c)
    PROVE  OrderInv(c)'
<1>1. CASE Connect(c)
  <2>1. /\ host[c] = "down" /\ host'[c] = "up" /\ toDevice' = toDevice
        /\ UNCHANGED <<sent, output, threadVars>>
    BY <1>1 DEF TypeOK, Connect
  <2> QED
    BY <2>1, NothingMoved DEF Now, Asked, PublishInv, OrderInv, threadVars
<1>2. CASE SendHandshake(c)
  <2>1. PICK a \in Nonce : Send(c, [type |-> "handshake", nonce |-> a])
    BY <1>2 DEF SendHandshake
  <2> DEFINE m == [type |-> "handshake", nonce |-> a]
  <2>2. m \in Message
    BY DEF Message
  <2>3. host[c] = "up" /\ UNCHANGED <<host, sent, output, threadVars>>
    BY <1>2 DEF SendHandshake
  <2>4. Handled(Asked(c), m, Asked(c)')
    BY <2>3 DEF Handled, Asked, TypeOK
  <2>5. Now(c)' = Now(c) /\ PublishInv(c)'
    BY <2>3 DEF Now, PublishInv, OrderInv, threadVars
  <2> QED
    BY <2>1, <2>2, <2>3, <2>4, <2>5, Sends
<1>3. CASE ReadReply(c)
  BY <1>3, NothingMoved DEF ReadReply, Now, Asked, PublishInv, OrderInv, threadVars
<1>4. CASE SendFrame(c)
  <2> DEFINE m == [type |-> "frame", key |-> hostKey[c],
                   frame |-> [conn |-> c, seq |-> NextSeq(c)]]
  <2>1. /\ Send(c, m) /\ host[c] = "up" /\ UNCHANGED <<host, threadVars>>
        /\ sent'[c] = NextSeq(c) /\ output'[c] = TRUE /\ hostKey[c] \in Keybase
    BY <1>4 DEF TypeOK, SendFrame, Serving
  <2>2. m \in Message
    <3>1. NextSeq(c) \in 1..MaxSeq
      BY <1>4, BoundsAssumption DEF TypeOK, SendFrame, NextSeq
    <3> QED
      BY <2>1, <3>1 DEF Message, Frame
  <2>3. Handled(Asked(c), m, Asked(c)')
    BY <2>1 DEF Handled, Asked, NextSeq, NextOf
  <2>4. Now(c)' = Now(c) /\ PublishInv(c)'
    BY <2>1 DEF Now, PublishInv, OrderInv, threadVars
  <2> QED
    BY <2>1, <2>2, <2>3, <2>4, Sends
<1>5. CASE SendEnable(c) \/ SendDisable(c) \/ SendQuery(c)
  <2>1. PICK type \in {"enable", "disable", "query"} :
          /\ Send(c, [type |-> type])
          /\ type = "enable" => output'[c] = TRUE
          /\ type = "disable" => output'[c] = FALSE
          /\ type = "query" => output'[c] = output[c]
    BY <1>5 DEF TypeOK, SendEnable, SendDisable, SendQuery, hostVars
  <2> DEFINE m == [type |-> type]
  <2>2. m \in Message
    BY DEF Message
  <2>3. host[c] = "up" /\ UNCHANGED <<host, sent, threadVars>>
    BY <1>5 DEF SendEnable, SendDisable, SendQuery, Serving, hostVars
  <2>4. Handled(Asked(c), m, Asked(c)')
    <3>1. m.type = type /\ m.type # "frame" /\ sent'[c] = sent[c] /\ output[c] \in BOOLEAN
      BY <2>3 DEF TypeOK
    <3>2. output'[c] = (m.type = "enable" \/ (m.type # "disable" /\ output[c]))
      BY <2>1, <3>1
    <3> QED
      BY <3>1, <3>2 DEF Handled, Asked
  <2>5. Now(c)' = Now(c) /\ PublishInv(c)'
    BY <2>3 DEF Now, PublishInv, OrderInv, threadVars
  <2> QED
    BY <2>1, <2>2, <2>3, <2>4, <2>5, Sends
<1>6. CASE Close(c) \/ Vanish(c)
  <2>1. PICK k \in chunk[c]..Len(toDevice[c]) :
          toDevice' = [toDevice EXCEPT ![c] = SubSeq(@, 1, k)]
    BY <1>6 DEF Close, Vanish, Leave
  <2>2. toDevice[c] \in Seq(Message) /\ chunk[c] \in Nat
    BY DEF TypeOK
  <2>3. k \in 0..Len(toDevice[c]) /\ toDevice'[c] = SubSeq(toDevice[c], 1, k)
    BY <2>1, <2>2 DEF TypeOK
  <2>4. host'[c] \in {"closed", "gone"} /\ UNCHANGED threadVars
    BY <1>6 DEF TypeOK, Close, Vanish, Leave
  <2>5. \E u \in Outlook : Leads(SubSeq(toDevice[c], 1, k), Now(c), u)
    BY <2>2, <2>3, LeadsPrefix DEF OrderInv, QueueInv
  <2>6. Now(c)' = Now(c) /\ PublishInv(c)'
    BY <2>4 DEF Now, PublishInv, OrderInv, threadVars
  <2> QED
    BY <2>3, <2>4, <2>5, <2>6 DEF OrderInv, QueueInv
<1>7. CASE Accept(c) \/ ReadTimeout(c) \/ ReadChunk(c) \/ ChunkDone(c)
  <2>1. /\ thread[c] # "publish" /\ thread'[c] # "publish"
        /\ UNCHANGED <<host, hostVars, toDevice, scanning, decoded, published>>
    BY <1>7 DEF TypeOK, Accept, ReadTimeout, ReadChunk, ChunkDone
  <2> QED
    BY <2>1, NothingMoved DEF Now, Asked, PublishInv, OrderInv, hostVars
<1>8. CASE Top(c)
  <2>1. /\ thread[c] # "publish" /\ thread'[c] # "publish"
        /\ UNCHANGED <<hostVars, toDevice, scanning, decoded, published>>
        /\ host'[c] = host[c] \/ host'[c] = "unanswered"
    BY <1>8 DEF TypeOK, Top, Write
  <2> QED
    BY <2>1, NothingMoved DEF Now, Asked, PublishInv, OrderInv, hostVars
<1>9. CASE PeerClosed(c)
  BY <1>9, Ends DEF PeerClosed
<1>10. CASE ReplyFails(c)
  BY <1>10, Ends DEF ReplyFails, Handling
<1>11. CASE HandleHandshake(c) \/ HandleEnable(c) \/ HandleDisable(c) \/ HandleQuery(c)
  <2>1. PICK type \in {"handshake", "enable", "disable", "query"} :
          /\ Handling(c, type)
          /\ type = "enable" => scanning'[c] = TRUE
          /\ type = "disable" => scanning'[c] = FALSE
          /\ type \in {"handshake", "query"} => scanning'[c] = scanning[c]
    BY <1>11 DEF TypeOK, HandleHandshake, HandleEnable, HandleDisable, HandleQuery
  <2>2. /\ Consume(c) /\ UNCHANGED <<hostVars, thread, decoded, published>>
        /\ host'[c] = host[c] \/ host'[c] = "unanswered"
    BY <1>11 DEF TypeOK, HandleHandshake, HandleEnable, HandleDisable, HandleQuery, Write
  <2>3. Head(toDevice[c]).type = type /\ thread[c] = "handle" /\ scanning[c] \in BOOLEAN
    BY <2>1 DEF Handling, TypeOK
  <2>4. ASSUME NEW u \in Outlook, Handled(Now(c), Head(toDevice[c]), u)
        PROVE  u = Now(c)'
    <3>1. u = [seq |-> published[c],
               on  |-> type = "enable" \/ (type # "disable" /\ scanning[c])]
      BY <2>3, <2>4 DEF Handled, Now
    <3>2. scanning'[c] = (type = "enable" \/ (type # "disable" /\ scanning[c]))
      BY <2>1, <2>3
    <3>3. scanning'[c] \in BOOLEAN
      BY DEF TypeOK
    <3> QED
      BY <2>2, <2>3, <3>1, <3>2, <3>3 DEF Now
  <2>5. Asked(c)' = Asked(c) /\ PublishInv(c)'
    BY <2>2 DEF Asked, PublishInv, OrderInv, hostVars
  <2> QED
    BY <2>1, <2>2, <2>4, <2>5, Handles DEF ConnInv
<1>12. CASE HandleFrame(c)
  <2> DEFINE m == Head(toDevice[c])
  <2>1. Handling(c, "frame") /\ Consume(c)
        /\ UNCHANGED <<host, hostVars, keybase, scanning, published>>
    BY <1>12 DEF HandleFrame
  <2>2. m = toDevice[c][1] /\ 1 \in 1..Len(toDevice[c]) /\ m \in Message /\ m.type = "frame"
    BY <2>1, HeadMessage DEF ConnInv
  <2>3. m.key = KeyOf(c) /\ m.key \in Keybase /\ hostKey[c] # None /\ m.frame \in Frame
    BY <2>2, MessageFields DEF ConnInv, FrameInv
  <2>4. thread[c] = "handle" /\ keybase[c] = KeyOf(c) /\ keybase[c] # None
    BY <2>1, <2>3, DistinctAssumption DEF Handling, ConnInv, KeyInv
  <2>5. decoded'[c] = m.frame /\ thread'[c] = "publish"
    BY <1>12, <2>3, <2>4 DEF TypeOK, HandleFrame, Decode
  <2>6. Now(c).seq = published[c]
    BY <2>4 DEF Now
  <2>7. ASSUME NEW u \in Outlook, Handled(Now(c), m, u)
        PROVE  m.frame.seq = NextOf(published[c]) /\ u = Now(c)'
    BY <2>2, <2>5, <2>6, <2>7 DEF Handled, Now
  <2>8. \E u \in Outlook : Handled(Now(c), m, u)
    <3>1. toDevice[c] \in Seq(Message) /\ toDevice[c] # << >>
      BY <2>1 DEF TypeOK, Handling, ConnInv, ThreadInv
    <3> QED
      BY <3>1, LeadsTail DEF OrderInv, QueueInv
  <2>9. PublishInv(c)'
    BY <2>1, <2>3, <2>5, <2>7, <2>8 DEF PublishInv
  <2>10. Asked(c)' = Asked(c)
    BY <2>1 DEF Asked, hostVars
  <2> QED
    BY <2>1, <2>7, <2>9, <2>10, Handles DEF ConnInv
<1>13. CASE Publish(c)
  <2>1. /\ thread[c] = "publish" /\ thread'[c] = "handle" /\ decoded'[c] = NoFrame
        /\ decoded[c] \in Frame /\ published'[c] = decoded[c].seq /\ scanning'[c] = TRUE
        /\ UNCHANGED <<host, hostVars, toDevice>>
    BY <1>13 DEF TypeOK, Publish, OrderInv, PublishInv
  <2>2. Now(c)' = Now(c) /\ PublishInv(c)'
    BY <2>1 DEF Now, PublishInv
  <2> QED
    BY <2>1, <2>2, NothingMoved DEF Asked, hostVars
<1>14. CASE AckTimer(c) \/ KernelGivesUp(c)
  <2>1. /\ UNCHANGED <<hostVars, toDevice, thread, scanning, decoded, published>>
        /\ host'[c] = host[c] \/ host'[c] = "closed"
    BY <1>14 DEF TypeOK, AckTimer, KernelGivesUp, threadVars
  <2> QED
    BY <2>1, NothingMoved DEF Now, Asked, PublishInv, OrderInv, hostVars
<1> QED
  BY <1>1, <1>2, <1>3, <1>4, <1>5, <1>6, <1>7, <1>8, <1>9, <1>10, <1>11, <1>12, <1>13, <1>14
  DEF HostNext, ThreadNext, ClockNext

\* A step on one connection leaves the order of every other alone.
LEMMA OrderElsewhere ==
    ASSUME TypeOK, NEW c \in Conn, NEW d \in Conn, c # d, OrderInv(d),
           HostNext(c) \/ ThreadNext(c) \/ ClockNext(c)
    PROVE  OrderInv(d)' /\ published'[d] = published[d]
<1>1. /\ host'[d] = host[d] /\ sent'[d] = sent[d] /\ toDevice'[d] = toDevice[d]
      /\ thread'[d] = thread[d] /\ decoded'[d] = decoded[d]
  BY Elsewhere
<1>2. output'[d] = output[d]
  BY DEF TypeOK, HostNext, ThreadNext, ClockNext, Connect, SendHandshake, ReadReply, SendFrame,
     SendEnable, SendDisable, SendQuery, Close, Vanish, Leave, Accept, Top, ReadTimeout,
     ReadChunk, PeerClosed, ReplyFails, EndThread, HandleHandshake, HandleFrame, Publish,
     HandleEnable, HandleDisable, HandleQuery, ChunkDone, KernelGivesUp, AckTimer, hostVars
<1>3. scanning'[d] = scanning[d] /\ published'[d] = published[d]
  BY DEF TypeOK, HostNext, ThreadNext, ClockNext, Connect, SendHandshake, ReadReply, SendFrame,
     SendEnable, SendDisable, SendQuery, Close, Vanish, Leave, Accept, Top, ReadTimeout,
     ReadChunk, PeerClosed, ReplyFails, EndThread, HandleHandshake, HandleFrame, Publish,
     HandleEnable, HandleDisable, HandleQuery, ChunkDone, KernelGivesUp, AckTimer, threadVars
<1>4. Now(d)' = Now(d) /\ Asked(d)' = Asked(d)
  BY <1>1, <1>2, <1>3 DEF Now, Asked
<1> QED
  BY <1>1, <1>3, <1>4 DEF OrderInv, QueueInv, PublishInv

-----------------------------------------------------------------------------
\* In every state what is under way leads each thread to what its host asked.
THEOREM OrderInvariance == Spec => [](\A c \in Conn : OrderInv(c))
<1>1. Init => \A c \in Conn : OrderInv(c)
  <2> SUFFICES ASSUME Init, NEW c \in Conn PROVE OrderInv(c)
    OBVIOUS
  <2>1. /\ toDevice[c] = << >> /\ Now(c) = [seq |-> 0, on |-> FALSE]
        /\ Asked(c) = Now(c) /\ PublishInv(c)
    BY DEF Init, Now, Asked, PublishInv
  <2>2. Now(c) \in Outlook
    BY <2>1, BoundsAssumption DEF Outlook
  <2>3. Leads(<< >>, Now(c), Now(c))
    BY <2>2, LeadsEmpty
  <2> QED
    BY <2>1, <2>2, <2>3 DEF OrderInv, QueueInv
<1>2. IInv /\ IInv' /\ (\A c \in Conn : OrderInv(c)) /\ [Next]_vars
        => (\A c \in Conn : OrderInv(c))'
  <2> SUFFICES ASSUME IInv, IInv', \A c \in Conn : OrderInv(c), [Next]_vars,
                      NEW d \in Conn
               PROVE  OrderInv(d)'
    OBVIOUS
  <2>1. CASE UNCHANGED vars
    <3>1. OrderInv(d)
      OBVIOUS
    <3>2. UNCHANGED <<host, sent, output, toDevice, thread, scanning, decoded, published>>
      BY <2>1 DEF vars, hostVars, threadVars
    <3> QED
      BY <3>1, <3>2 DEF OrderInv, QueueInv, PublishInv, Now, Asked
  <2>2. CASE Next
    <3>1. PICK c \in Conn : HostNext(c) \/ ThreadNext(c) \/ ClockNext(c)
      BY <2>2 DEF Next
    <3>2. TypeOK /\ TypeOK' /\ ConnInv(c)
      BY DEF IInv
    <3>3. CASE c = d
      BY <3>1, <3>2, <3>3, OrderStep
    <3>4. CASE c # d
      BY <3>1, <3>2, <3>4, OrderElsewhere
    <3> QED
      BY <3>3, <3>4
  <2> QED
    BY <2>1, <2>2
<1> QED
  BY <1>1, <1>2, Invariance, PTL DEF Spec

\* The frames of a connection are published in order and without gaps, on any
\* number of connections and through queues of any length.
THEOREM PublishedInOrder == Spec => FramesInOrder
<1> DEFINE InOrder == \A c \in Conn : published'[c] \in {published[c], published[c] + 1}
<1>1. IInv /\ (\A c \in Conn : OrderInv(c)) /\ [Next]_vars => [InOrder]_published
  <2> SUFFICES ASSUME IInv, \A c \in Conn : OrderInv(c), Next, NEW d \in Conn
               PROVE  published'[d] \in {published[d], published[d] + 1}
    BY DEF vars, threadVars
  <2>1. PICK c \in Conn : HostNext(c) \/ ThreadNext(c) \/ ClockNext(c)
    BY DEF Next
  <2>2. TypeOK
    BY DEF IInv
  <2>3. CASE c # d
    BY <2>1, <2>2, <2>3, OrderElsewhere
  <2>4. CASE c = d /\ Publish(d)
    <3>1. decoded[d] \in Frame /\ decoded[d].seq = NextOf(published[d])
      BY <2>4 DEF Publish, OrderInv, PublishInv
    <3>2. published'[d] = NextOf(published[d]) /\ published[d] \in 0..MaxSeq
      BY <2>2, <2>4, <3>1 DEF TypeOK, Publish
    <3> QED
      BY <3>2, BoundsAssumption DEF NextOf
  <2>5. CASE c = d /\ ~Publish(d)
    BY <2>1, <2>5
    DEF HostNext, ThreadNext, ClockNext, Connect, SendHandshake, ReadReply, SendFrame,
        SendEnable, SendDisable, SendQuery, Close, Vanish, Leave, Accept, Top, ReadTimeout,
        ReadChunk, PeerClosed, ReplyFails, EndThread, HandleHandshake, HandleFrame,
        HandleEnable, HandleDisable, HandleQuery, ChunkDone, KernelGivesUp, AckTimer, threadVars
  <2> QED
    BY <2>3, <2>4, <2>5
<1> QED
  BY <1>1, Invariance, OrderInvariance, PTL DEF Spec, FramesInOrder

\* A thread that has caught up acknowledges what its host asked for last,
\* whatever it has been sent in between.
THEOREM FlagAgrees == Spec => []OutputAgrees
<1>1. IInv /\ (\A c \in Conn : OrderInv(c)) => OutputAgrees
  <2> SUFFICES ASSUME IInv, NEW c \in Conn, OrderInv(c), Serving(c), toDevice[c] = << >>,
                      thread[c] \in {"top", "read"}
               PROVE  scanning[c] = output[c]
    BY DEF OutputAgrees
  <2>1. host[c] = "up" /\ thread[c] # "publish"
    BY DEF Serving
  <2>2. PICK f \in [0..Len(<< >>) -> Outlook] : f[0] = Now(c) /\ f[Len(<< >>)] = Asked(c)
    BY <2>1 DEF OrderInv, QueueInv, Leads
  <2>3. Now(c) = Asked(c)
    BY <2>2
  <2>4. (scanning[c] \/ thread[c] = "publish") = output[c]
    BY <2>3 DEF Now, Asked
  <2>5. scanning[c] \in BOOLEAN
    BY DEF IInv, TypeOK
  <2> QED
    BY <2>1, <2>4, <2>5
<1> QED
  BY <1>1, Invariance, OrderInvariance, PTL

=============================================================================

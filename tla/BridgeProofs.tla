----------------------------- MODULE BridgeProofs -----------------------------
(***************************************************************************)
(* A bridge is a relay, for every set of connections and every bound: the   *)
(* safety half of the refinement that MCBridge checks with its fairness on  *)
(* one host.                                                               *)
(*                                                                         *)
(* A step of the bridge is a step of the control server, of the driver or   *)
(* of both, so what is proved of either holds here; the relay's steps are   *)
(* put together from these facts.  What is added is SharedInv: the buffer   *)
(* never holds a frame that its connection has not counted as published.    *)
(***************************************************************************)
EXTENDS Bridge, TLAPS

ControlProofs == INSTANCE Fb4ControlProofs
DacProofs     == INSTANCE DacDriverProofs WITH shared <- Len(adopted)

\* The frame in the buffer is one its connection has published.
SharedInv ==
    \/ shared = NoFrame
    \/ shared \in Control!Frame /\ shared.seq <= published[shared.conn]

-----------------------------------------------------------------------------
(* The parts.                                                              *)

\* A step of a thread is one of the control server's.
LEMMA ThreadRuns ==
    ASSUME NEW c \in Conn, Control!ThreadNext(c) PROVE ControlProofs!ThreadNext(c)
BY DEF Control!ThreadNext, ControlProofs!ThreadNext, Control!Accept,
     ControlProofs!Accept, Control!Top, ControlProofs!Top, Control!ReadTimeout,
     ControlProofs!ReadTimeout, Control!ReadChunk, ControlProofs!ReadChunk,
     Control!PeerClosed, ControlProofs!PeerClosed, Control!ReplyFails,
     ControlProofs!ReplyFails, Control!HandleHandshake, ControlProofs!HandleHandshake,
     Control!HandleFrame, ControlProofs!HandleFrame, Control!Publish,
     ControlProofs!Publish, Control!HandleEnable, ControlProofs!HandleEnable,
     Control!HandleDisable, ControlProofs!HandleDisable, Control!HandleQuery,
     ControlProofs!HandleQuery, Control!ChunkDone, ControlProofs!ChunkDone,
     Control!EndThread, ControlProofs!EndThread, Control!Handling,
     ControlProofs!Handling, Control!Consume, ControlProofs!Consume, Control!Write,
     ControlProofs!Write, Control!Decode, ControlProofs!Decode, Control!Adopted,
     ControlProofs!Adopted, Control!Frame, ControlProofs!Frame, Control!hostVars,
     ControlProofs!hostVars, Control!threadVars, ControlProofs!threadVars

\* So is a step of a host.
LEMMA HostRuns ==
    ASSUME NEW c \in Conn, Control!HostNext(c) PROVE ControlProofs!HostNext(c)
BY DEF Control!HostNext, ControlProofs!HostNext, Control!Connect,
     ControlProofs!Connect, Control!SendHandshake, ControlProofs!SendHandshake,
     Control!ReadReply, ControlProofs!ReadReply, Control!SendFrame,
     ControlProofs!SendFrame, Control!SendEnable, ControlProofs!SendEnable,
     Control!SendDisable, ControlProofs!SendDisable, Control!SendQuery,
     ControlProofs!SendQuery, Control!Close, ControlProofs!Close, Control!Vanish,
     ControlProofs!Vanish, Control!Leave, ControlProofs!Leave, Control!Serving,
     ControlProofs!Serving, Control!Send, ControlProofs!Send, Control!NextSeq,
     ControlProofs!NextSeq, Control!hostVars, ControlProofs!hostVars,
     Control!threadVars, ControlProofs!threadVars

\* And the passing of time.
LEMMA ClockRuns ==
    ASSUME NEW c \in Conn, Control!ClockNext(c) PROVE ControlProofs!ClockNext(c)
BY DEF Control!ClockNext, ControlProofs!ClockNext, Control!KernelGivesUp,
     ControlProofs!KernelGivesUp, Control!AckTimer, ControlProofs!AckTimer,
     Control!hostVars, ControlProofs!hostVars, Control!threadVars,
     ControlProofs!threadVars

\* What the emulator does to the driver.
LEMMA PublishRuns ==
    ASSUME Dac!Publish PROVE DacProofs!Publish
BY DEF Dac!Publish, DacProofs!Publish, Dac!driverVars, DacProofs!driverVars,
     Dac!dacVars, DacProofs!dacVars

\* A step of the driver.
LEMMA DriverRuns ==
    ASSUME Dac!Driver PROVE DacProofs!Driver
BY DEF Dac!Driver, DacProofs!Driver, Dac!Connect, DacProofs!Connect, Dac!ConnectFails,
     DacProofs!ConnectFails, Dac!Prepare, DacProofs!Prepare, Dac!DacPrepares,
     DacProofs!DacPrepares, Dac!DacTakes, DacProofs!DacTakes, Dac!Ping, DacProofs!Ping,
     Dac!Fill, DacProofs!Fill, Dac!Submit, DacProofs!Submit, Dac!StreamEnds,
     DacProofs!StreamEnds, Dac!Backoff, DacProofs!Backoff, Dac!Room, DacProofs!Room,
     Dac!BatchSize, DacProofs!BatchSize, Dac!Advanced, DacProofs!Advanced,
     Dac!Accepts, DacProofs!Accepts, Dac!Begun, DacProofs!Begun, Dac!Blank,
     DacProofs!Blank, Dac!driverVars, DacProofs!driverVars, Dac!dacVars,
     DacProofs!dacVars

\* A step of the DAC.
LEMMA DacPartRuns ==
    ASSUME Dac!Dac PROVE DacProofs!Dac
BY DEF Dac!Dac, DacProofs!Dac, Dac!Play, DacProofs!Play, Dac!Underflow,
     DacProofs!Underflow, Dac!DacStops, DacProofs!DacStops, Dac!driverVars,
     DacProofs!driverVars, Dac!dacVars, DacProofs!dacVars

\* A failure.
LEMMA FaultRuns ==
    ASSUME Dac!LinkDrop \/ Dac!Reboot \/ Dac!AnswerLost
    PROVE  DacProofs!LinkDrop \/ DacProofs!Reboot \/ DacProofs!AnswerLost
BY DEF Dac!LinkDrop, DacProofs!LinkDrop, Dac!Reboot, DacProofs!Reboot, Dac!AnswerLost,
     DacProofs!AnswerLost, Dac!Asking, DacProofs!Asking, Dac!Room, DacProofs!Room,
     Dac!DacPrepares, DacProofs!DacPrepares, Dac!DacTakes, DacProofs!DacTakes,
     Dac!Accepts, DacProofs!Accepts, Dac!Begun, DacProofs!Begun, Dac!driverVars,
     DacProofs!driverVars, Dac!dacVars, DacProofs!dacVars

\* The bridge runs the control server.
LEMMA ControlRuns == Spec => ControlProofs!Spec
<1>1. Init => ControlProofs!Init
  BY DEF Init, Control!Init, ControlProofs!Init
<1>2. [Next]_vars => [ControlProofs!Next]_(ControlProofs!vars)
  <2>1. ASSUME UNCHANGED controlVars PROVE UNCHANGED ControlProofs!vars
    BY <2>1 DEF controlVars, ControlProofs!vars, ControlProofs!hostVars, ControlProofs!threadVars
  <2> QED
    BY <2>1, ThreadRuns, HostRuns, ClockRuns DEF Next, ThreadStep, HostStep,
       DriverStep, DacStep, FaultStep, vars, ControlProofs!Next
<1> QED
  BY <1>1, <1>2, PTL DEF Spec, ControlProofs!Spec

\* The bridge runs the driver, which takes for the number of the published frame
\* how many have been adopted.
LEMMA DacRuns == Spec => DacProofs!Spec
<1>1. Init => DacProofs!Init
  BY DEF Init, Dac!Init, DacProofs!Init
<1>2. [Next]_vars => [DacProofs!Next]_(DacProofs!vars)
  <2>1. ASSUME UNCHANGED <<adopted, dacVars>> PROVE UNCHANGED DacProofs!vars
    BY <2>1 DEF dacVars, DacProofs!vars, DacProofs!driverVars, DacProofs!dacVars
  <2> QED
    BY <2>1, PublishRuns, DriverRuns, DacPartRuns, FaultRuns DEF Next, ThreadStep,
       Forward, HostStep, DriverStep, DacStep, FaultStep, vars, DacProofs!Next
<1> QED
  BY <1>1, <1>2, PTL DEF Spec, DacProofs!Spec

-----------------------------------------------------------------------------
(* The steps of the control server.                                        *)

\* What publishing a decoded frame does: it is the next of its connection, or
\* the last one again, and goes into the buffer.
LEMMA PublishStep ==
    ASSUME ControlProofs!IInv, NEW c \in Conn, ControlProofs!OrderInv(c),
           ControlProofs!Publish(c)
    PROVE  /\ decoded[c] \in ControlProofs!Frame
           /\ decoded[c].conn = c
           /\ decoded[c].seq \in Nat /\ decoded[c].seq <= sent[c]
           /\ decoded[c].seq = IF published[c] < MaxSeq THEN published[c] + 1 ELSE MaxSeq
           /\ shared' = decoded[c]
           /\ published' = [published EXCEPT ![c] = decoded[c].seq]
           /\ sent' = sent
<1>1. decoded[c] \in ControlProofs!Frame /\ decoded[c].seq = ControlProofs!NextOf(published[c])
  BY DEF ControlProofs!OrderInv, ControlProofs!PublishInv, ControlProofs!Publish
<1>2. decoded[c] # NoFrame
  BY <1>1, BridgeAssumption DEF ControlProofs!Frame, Control!Frame
<1>3. decoded[c].conn = c /\ decoded[c].seq <= sent[c]
  BY <1>2 DEF ControlProofs!IInv, ControlProofs!ConnInv, ControlProofs!FrameInv
<1>4. decoded[c].seq \in Nat
  BY <1>1, BridgeAssumption DEF ControlProofs!Frame
<1>5. shared' = decoded[c] /\ sent' = sent
  BY <1>2 DEF ControlProofs!Publish, ControlProofs!Adopted, ControlProofs!hostVars
<1>6. published' = [published EXCEPT ![c] = decoded[c].seq]
  BY <1>1 DEF ControlProofs!Publish
<1> QED
  BY <1>1, <1>3, <1>4, <1>5, <1>6 DEF ControlProofs!NextOf

\* No other step of a thread publishes.
LEMMA ThreadStill ==
    ASSUME NEW c \in Conn, ControlProofs!ThreadNext(c), ~ControlProofs!Publish(c)
    PROVE  UNCHANGED <<sent, published, shared>>
BY DEF ControlProofs!ThreadNext, ControlProofs!Accept, ControlProofs!Top,
     ControlProofs!ReadTimeout, ControlProofs!ReadChunk, ControlProofs!PeerClosed,
     ControlProofs!ReplyFails, ControlProofs!HandleHandshake, ControlProofs!HandleFrame,
     ControlProofs!HandleEnable, ControlProofs!HandleDisable, ControlProofs!HandleQuery,
     ControlProofs!ChunkDone, ControlProofs!EndThread, ControlProofs!hostVars,
     ControlProofs!threadVars

\* A host sends its next frame, the last one again, or something else.
LEMMA HostStill ==
    ASSUME ControlProofs!TypeOK, NEW c \in Conn,
           ControlProofs!HostNext(c) \/ ControlProofs!ClockNext(c)
    PROVE  /\ UNCHANGED <<published, shared>>
           /\ \/ sent' = sent
              \/ sent[c] < MaxSeq /\ sent' = [sent EXCEPT ![c] = @ + 1]
<1>1. CASE ControlProofs!SendFrame(c)
  <2>1. /\ UNCHANGED <<published, shared>>
        /\ sent' = [sent EXCEPT ![c] = IF sent[c] < MaxSeq THEN sent[c] + 1 ELSE MaxSeq]
    BY <1>1 DEF ControlProofs!SendFrame, ControlProofs!NextSeq, ControlProofs!threadVars
  <2>2. sent \in [Conn -> 0..MaxSeq] /\ MaxSeq \in Nat
    BY BridgeAssumption DEF ControlProofs!TypeOK
  <2>3. CASE sent[c] < MaxSeq
    BY <2>1, <2>3
  <2>4. CASE ~(sent[c] < MaxSeq)
    <3>1. sent[c] = MaxSeq
      BY <2>2, <2>4
    <3>2. sent' = sent
      BY <2>1, <2>2, <3>1
    <3> QED
      BY <2>1, <3>2
  <2> QED
    BY <2>3, <2>4
<1>2. CASE ~ControlProofs!SendFrame(c)
  BY <1>2 DEF ControlProofs!HostNext, ControlProofs!ClockNext, ControlProofs!Connect,
       ControlProofs!SendHandshake, ControlProofs!ReadReply, ControlProofs!SendEnable,
       ControlProofs!SendDisable, ControlProofs!SendQuery, ControlProofs!Close,
       ControlProofs!Vanish, ControlProofs!Leave, ControlProofs!KernelGivesUp,
       ControlProofs!AckTimer, ControlProofs!hostVars, ControlProofs!threadVars
<1> QED
  BY <1>1, <1>2

\* The buffer holds only frames that are counted as published.
LEMMA SharedStep ==
    ASSUME ControlProofs!IInv, \A c \in Conn : ControlProofs!OrderInv(c), SharedInv,
           [ControlProofs!Next]_(ControlProofs!vars)
    PROVE  SharedInv'
<1>1. published \in [Conn -> 0..MaxSeq] /\ MaxSeq \in Nat /\ ControlProofs!TypeOK
  BY BridgeAssumption DEF ControlProofs!IInv, ControlProofs!TypeOK
<1>2. ASSUME UNCHANGED <<published, shared>> PROVE SharedInv'
  BY <1>2 DEF SharedInv
<1>3. ASSUME NEW c \in Conn, ControlProofs!Publish(c) PROVE SharedInv'
  <2>1. /\ decoded[c] \in ControlProofs!Frame /\ decoded[c].conn = c
        /\ decoded[c].seq \in Nat
        /\ shared' = decoded[c]
        /\ published' = [published EXCEPT ![c] = decoded[c].seq]
    BY <1>3, PublishStep
  <2>2. shared' \in Control!Frame /\ published'[c] = decoded[c].seq
    BY <1>1, <2>1 DEF ControlProofs!Frame, Control!Frame
  <2> QED
    BY <2>1, <2>2 DEF SharedInv, Control!Frame
<1>4. CASE UNCHANGED ControlProofs!vars
  BY <1>2, <1>4 DEF ControlProofs!vars, ControlProofs!threadVars
<1> QED
  BY <1>1, <1>2, <1>3, <1>4, ThreadStill, HostStill DEF ControlProofs!Next

-----------------------------------------------------------------------------
(* The relay.                                                              *)

\* What the invariants of the parts say here.
Parts ==
    /\ ControlProofs!IInv
    /\ \A c \in Conn : ControlProofs!OrderInv(c)
    /\ SharedInv
    /\ DacProofs!IInv
    /\ DacProofs!OrderInv
    /\ DacProofs!PictureInv

\* The assumptions of the control server hold here.
LEMMA ControlAssumptions ==
    /\ MaxSeq \in Nat /\ MaxInFlight \in Nat
    /\ None \notin Nonce \cup ControlProofs!Challenge \cup ControlProofs!Keybase
    /\ NoFrame \notin ControlProofs!Frame
    /\ Garbage \notin ControlProofs!Frame
    /\ NoFrame # Garbage
BY BridgeAssumption DEF Control!Challenge, ControlProofs!Challenge, Control!Keybase,
     ControlProofs!Keybase, Control!Frame, ControlProofs!Frame

\* The invariants of the parts are invariants of the bridge.
LEMMA PartsHold == Spec => []Parts
<1>1. ControlProofs!Spec => []ControlProofs!IInv
  BY ControlProofs!Invariance, ControlAssumptions
<1>2. ControlProofs!Spec => [](\A c \in Conn : ControlProofs!OrderInv(c))
  BY ControlProofs!OrderInvariance, ControlAssumptions
<1>3. DacProofs!Spec => []DacProofs!IInv
  BY DacProofs!Invariance, BridgeAssumption
<1>4. DacProofs!Spec => []DacProofs!OrderInv
  BY DacProofs!OrderInvariance, BridgeAssumption
<1>5. DacProofs!Spec => []DacProofs!PictureInv
  BY DacProofs!PictureInvariance, BridgeAssumption
<1>6. Init => SharedInv
  BY DEF Init, Control!Init, SharedInv
<1>7. /\ ControlProofs!IInv /\ (\A c \in Conn : ControlProofs!OrderInv(c)) /\ SharedInv
      /\ [ControlProofs!Next]_(ControlProofs!vars)
      => SharedInv'
  BY SharedStep
<1>8. Spec => []SharedInv
  BY <1>1, <1>2, <1>6, <1>7, ControlRuns, PTL DEF Spec, ControlProofs!Spec
<1> QED
  BY <1>1, <1>2, <1>3, <1>4, <1>5, <1>8, ControlRuns, DacRuns, PTL DEF Parts

\* A host's step offers a frame or is none of the relay's.
LEMMA Offers ==
    ASSUME Parts, NEW c \in Conn, HostStep(c)
    PROVE  [Relay!Next]_(Relay!vars)
<1>1. ControlProofs!TypeOK
  BY DEF Parts, ControlProofs!IInv
<1>2. ControlProofs!HostNext(c) \/ ControlProofs!ClockNext(c)
  BY HostRuns, ClockRuns DEF HostStep
<1>3. UNCHANGED <<published, adopted, shown>>
  BY <1>1, <1>2, HostStill DEF HostStep, dacVars
<1>4. sent' = sent \/ (sent[c] < MaxSeq /\ sent' = [sent EXCEPT ![c] = @ + 1])
  BY <1>1, <1>2, HostStill
<1> QED
  BY <1>3, <1>4 DEF Relay!Next, Relay!Offer, Relay!vars

\* A thread's step adopts a frame or is none of the relay's.
LEMMA Adopts ==
    ASSUME Parts, NEW c \in Conn, ThreadStep(c)
    PROVE  [Relay!Next]_(Relay!vars)
<1>1. ControlProofs!ThreadNext(c) /\ Forward
  BY ThreadRuns DEF ThreadStep
<1>2. shown' = shown
  BY <1>1 DEF Forward, dacVars, Dac!Publish
<1>3. CASE ~ControlProofs!Publish(c)
  <2>1. UNCHANGED <<sent, published, shared>>
    BY <1>1, <1>3, ThreadStill
  <2>2. adopted' = adopted
    BY <1>1, <2>1 DEF Forward
  <2> QED
    BY <1>2, <2>1, <2>2 DEF Relay!vars
<1>4. CASE ControlProofs!Publish(c)
  <2>1. /\ decoded[c] \in ControlProofs!Frame
        /\ decoded[c].conn = c
        /\ decoded[c].seq \in Nat /\ decoded[c].seq <= sent[c]
        /\ decoded[c].seq = IF published[c] < MaxSeq THEN published[c] + 1 ELSE MaxSeq
        /\ shared' = decoded[c]
        /\ published' = [published EXCEPT ![c] = decoded[c].seq]
        /\ sent' = sent
    BY <1>4, PublishStep DEF Parts
  <2>2. /\ published \in [Conn -> 0..MaxSeq] /\ sent \in [Conn -> 0..MaxSeq] /\ MaxSeq \in Nat
    BY BridgeAssumption DEF Parts, ControlProofs!IInv, ControlProofs!TypeOK
  <2>3. decoded[c] = [conn |-> c, seq |-> decoded[c].seq]
    BY <2>1 DEF ControlProofs!Frame
  <2>4. CASE published[c] < MaxSeq
    <3>1. decoded[c].seq = published[c] + 1 /\ published[c] < sent[c]
      BY <2>1, <2>2, <2>4
    <3>2. shared' # shared
      <4>1. SUFFICES ASSUME shared = decoded[c] PROVE FALSE
        BY <2>1
      <4>2. shared # NoFrame
        BY <2>1, <4>1, BridgeAssumption DEF ControlProofs!Frame, Control!Frame
      <4>3. decoded[c].seq <= published[c]
        BY <2>1, <4>1, <4>2 DEF Parts, SharedInv
      <4> QED
        BY <2>2, <3>1, <4>3
    <3>3. adopted' = Append(adopted, [conn |-> c, seq |-> published[c] + 1])
      BY <1>1, <2>1, <2>3, <3>1, <3>2 DEF Forward
    <3>4. Relay!Adopt(c)
      BY <1>2, <2>1, <3>1, <3>3 DEF Relay!Adopt
    <3> QED
      BY <3>4 DEF Relay!Next
  <2>5. CASE published[c] = MaxSeq
    <3>1. decoded[c].seq = MaxSeq /\ MaxSeq > 0
      BY <2>1, <2>2, <2>5 DEF ControlProofs!Frame
    <3>2. published' = published
      BY <2>1, <2>2, <2>5, <3>1
    <3>3. CASE shared' = shared
      <4>1. adopted' = adopted
        BY <1>1, <3>3 DEF Forward
      <4> QED
        BY <1>2, <2>1, <3>2, <4>1 DEF Relay!vars
    <3>4. CASE shared' # shared
      <4>1. adopted' = Append(adopted, [conn |-> c, seq |-> MaxSeq])
        BY <1>1, <2>1, <2>3, <3>1, <3>4 DEF Forward
      <4>2. Relay!Readopt(c)
        BY <1>2, <2>1, <2>5, <3>1, <3>2, <4>1 DEF Relay!Readopt
      <4> QED
        BY <4>2 DEF Relay!Next
    <3> QED
      BY <3>3, <3>4
  <2> QED
    BY <2>2, <2>4, <2>5
<1> QED
  BY <1>3, <1>4

\* The DAC draws a later frame, or goes on with the one it draws.
LEMMA Projects ==
    ASSUME Parts, UNCHANGED <<adopted, controlVars>>,
           Dac!Driver \/ Dac!Dac \/ Dac!LinkDrop \/ Dac!Reboot \/ Dac!AnswerLost
    PROVE  [Relay!Next]_(Relay!vars)
<1>1. UNCHANGED <<sent, published, adopted>>
  BY DEF controlVars
<1>2. CASE ~Dac!Play
  <2>1. shown' = shown
    BY <1>2 DEF Dac!Driver, Dac!Dac, Dac!Connect, Dac!ConnectFails, Dac!Prepare, Dac!Ping,
         Dac!Fill, Dac!Submit, Dac!StreamEnds, Dac!Backoff, Dac!Underflow, Dac!DacStops,
         Dac!LinkDrop, Dac!Reboot, Dac!AnswerLost, Dac!dacVars
  <2> QED
    BY <1>1, <2>1 DEF Relay!vars
<1>3. CASE Dac!Play
  <2>1. DacProofs!TypeOK /\ DacProofs!Play
    BY <1>3 DEF Parts, DacProofs!IInv, Dac!Play, DacProofs!Play, Dac!driverVars,
       DacProofs!driverVars
  <2>2. 1 \in 1..Len(DacProofs!Stream) /\ shown' = DacProofs!Stream[1].frame
    BY <2>1, DacProofs!PlayedPoint, BridgeAssumption
  <2>3. shown <= shown' /\ shown' <= Len(adopted)
    BY <2>2 DEF Parts, DacProofs!OrderInv, DacProofs!FramesInv, DacProofs!PictureInv
  <2>4. shown \in Nat /\ shown' \in Nat /\ Len(adopted) \in 0..MaxFrame /\ MaxFrame \in Nat
    <3>1. DacProofs!Stream[1].frame \in Nat
      BY <2>1, <2>2, DacProofs!StreamPoints, BridgeAssumption
    <3> QED
      BY <2>1, <2>2, <3>1, BridgeAssumption DEF DacProofs!TypeOK
  <2>5. CASE shown' = shown
    BY <1>1, <2>5 DEF Relay!vars
  <2>6. CASE shown' # shown
    <3>1. shown < shown' /\ shown' \in 1..MaxFrame
      BY <2>3, <2>4, <2>6
    <3>2. Relay!Project(shown')
      BY <1>1, <2>3, <3>1 DEF Relay!Project
    <3> QED
      BY <3>1, <3>2 DEF Relay!Next
  <2> QED
    BY <2>5, <2>6
<1> QED
  BY <1>2, <1>3

\* For any number of hosts and any bounds the bridge does what the relay does:
\* frames are adopted in order, none of a connection is skipped, and the
\* picture never goes back (main.rs: one buffer between emulator and driver).
THEOREM BridgeRelays == Spec => Relay!Safety
<1>1. Init => Relay!Init
  BY DEF Init, Control!Init, Dac!Init, Relay!Init
<1>2. Parts /\ [Next]_vars => [Relay!Next]_(Relay!vars)
  <2> SUFFICES ASSUME Parts, [Next]_vars PROVE [Relay!Next]_(Relay!vars)
    OBVIOUS
  <2>1. CASE UNCHANGED vars
    BY <2>1 DEF vars, controlVars, dacVars, Relay!vars
  <2> QED
    BY <2>1, Offers, Adopts, Projects DEF Next, DriverStep, DacStep, FaultStep
<1>3. Spec => []Parts
  BY PartsHold
<1> QED
  BY <1>1, <1>2, <1>3, PTL DEF Spec, Relay!Safety

=============================================================================

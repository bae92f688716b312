---------------------------- MODULE DacDriverProofs ----------------------------
(***************************************************************************)
(* Type correctness and the safety properties of DacDriver, for every       *)
(* buffer capacity, batch size, number and length of frames.               *)
(*                                                                         *)
(* The first part is about the numbers of points: NeverOverfull and         *)
(* StaleBounded, from the invariant IInv of DacDriver.  The second is about *)
(* their order.  CyclicOrder is not inductive: that a new batch goes on     *)
(* where the old one ended is a fact about the cursor (CursorInv), which    *)
(* holds while the frame stays, and no point is of a frame still to come    *)
(* (FramesInv), so a publication finds no points of its own frame.  The     *)
(* third is what a viewer sees: the picture never goes back.                *)
(***************************************************************************)
EXTENDS DacDriver, TLAPS

\* The empty buffer.
LEMMA EmptySeq == << >> \in Seq(Point) /\ Len(<< >>) = 0
OBVIOUS

\* A concatenation: its length, and where its elements come from.
LEMMA Concatenation ==
    ASSUME NEW S, NEW s \in Seq(S), NEW t \in Seq(S)
    PROVE  /\ s \o t \in Seq(S)
           /\ Len(s \o t) = Len(s) + Len(t)
           /\ \A i \in 1..Len(s) : (s \o t)[i] = s[i]
           /\ \A i \in 1..Len(t) : (s \o t)[Len(s) + i] = t[i]
OBVIOUS

\* A batch is never larger than the room the driver believes there is.
LEMMA BatchFits ==
    ASSUME TypeOK, KnownInv
    PROVE  BatchSize \in Nat /\ BatchSize <= Room(known) /\ known + Room(known) < Cap
BY CapAssumption, BatchAssumption DEF TypeOK, KnownInv, BatchSize, Room

\* What Fill puts into the batch: BatchSize points of the current frame.
LEMMA FillBatch ==
    ASSUME TypeOK, KnownInv, Fill
    PROVE  /\ batch' \in Seq(Point)
           /\ Len(batch') = BatchSize
           /\ \A k \in 1..Len(batch') : batch'[k].frame = shared
           /\ cursor' \in Nat
<1> USE FrameAssumption, BatchFits
<1>1. CASE shared = 0
  <2>1. cursor' = 0 /\ batch' = [k \in 1..BatchSize |-> Blank]
    BY <1>1 DEF Fill
  <2>2. Blank \in Point /\ Blank.frame = 0
    BY DEF Blank, Point
  <2> QED
    BY <1>1, <2>1, <2>2
<1>2. CASE shared # 0
  <2>1. shared \in 1..MaxFrame /\ FrameLen[shared] \in Nat \ {0} /\ cursor \in Nat
    BY <1>2 DEF TypeOK
  <2>2. \A n \in Nat : n % FrameLen[shared] \in Nat
    BY <2>1
  <2>3. \A k \in 1..BatchSize : cursor + k - 1 \in Nat /\ cursor + BatchSize \in Nat
    BY <2>1
  <2>4. /\ cursor' = (cursor + BatchSize) % FrameLen[shared]
        /\ batch' = [k \in 1..BatchSize |->
              [frame |-> shared, idx |-> (cursor + k - 1) % FrameLen[shared]]]
    BY <1>2 DEF Fill, Advanced
  <2>5. \A k \in 1..BatchSize :
          [frame |-> shared, idx |-> (cursor + k - 1) % FrameLen[shared]] \in Point
    <3> SUFFICES ASSUME NEW k \in 1..BatchSize
                 PROVE  [frame |-> shared, idx |-> (cursor + k - 1) % FrameLen[shared]] \in Point
      OBVIOUS
    <3>1. (cursor + k - 1) % FrameLen[shared] \in Nat
      BY <2>2, <2>3
    <3> QED
      BY <3>1 DEF Point, TypeOK
  <2>6. batch' \in Seq(Point) /\ Len(batch') = BatchSize
    BY <2>4, <2>5
  <2>7. cursor' \in Nat
    <3>1. cursor + BatchSize \in Nat
      BY <2>1
    <3>2. (cursor + BatchSize) % FrameLen[shared] \in Nat
      BY <2>2, <3>1
    <3> QED
      BY <2>4, <3>2
  <2>8. \A k \in 1..Len(batch') : batch'[k].frame = shared
    BY <2>4, <2>6
  <2> QED
    BY <2>6, <2>7, <2>8
<1> QED
  BY <1>1, <1>2

\* Every action keeps the types and the driver's arithmetic.
LEMMA FullnessStep ==
    ASSUME TypeOK, KnownInv, BatchInv, [Next]_vars
    PROVE  (TypeOK /\ KnownInv /\ BatchInv)'
<1> USE CapAssumption, BatchAssumption, FrameAssumption, FaultAssumption
        DEF KnownInv, BatchInv
<1>1. CASE Publish
  BY <1>1 DEF TypeOK, Publish, driverVars, dacVars
<1>2. CASE Connect
  BY <1>2 DEF TypeOK, Connect, driverVars, dacVars
<1>3. CASE ConnectFails
  BY <1>3 DEF TypeOK, ConnectFails, driverVars, dacVars
<1>4. CASE Prepare
  <2>1. /\ pc = "prepare" /\ pc' = "fill" /\ playback' = "prepared" /\ buf' = << >>
        /\ known' = 0 /\ cursor' = 0 /\ begun' = FALSE
        /\ UNCHANGED <<batch, shared, link, shown, stale, faults>>
    BY <1>4 DEF Prepare, DacPrepares
  <2>2. TypeOK'
    <3>1. buf' \in Seq(Point)
      BY <2>1, EmptySeq
    <3>2. known' \in 0..Cap /\ cursor' \in Nat
      BY <2>1
    <3> QED
      BY <2>1, <3>1, <3>2 DEF TypeOK
  <2>3. KnownInv' /\ BatchInv'
    BY <2>1, EmptySeq
  <2> QED
    BY <2>2, <2>3
<1>5. CASE Ping
  BY <1>5 DEF TypeOK, Ping, Room, driverVars, dacVars
<1>6. CASE Fill
  <2>1. /\ batch' \in Seq(Point) /\ Len(batch') = BatchSize /\ cursor' \in Nat
    BY <1>6, FillBatch
  <2>2. pc' = "submit" /\ UNCHANGED <<known, begun, shared, link, dacVars, faults>>
    BY <1>6 DEF Fill
  <2>3. TypeOK'
    BY <2>1, <2>2 DEF TypeOK, dacVars
  <2>4. KnownInv'
    BY <1>6, <2>2 DEF Fill, dacVars
  <2>5. known + BatchSize < Cap
    BY BatchFits DEF TypeOK, Room
  <2> QED
    BY <2>1, <2>2, <2>3, <2>4, <2>5
<1>7. CASE Submit
  BY <1>7 DEF TypeOK, Submit, DacTakes, Begun, Accepts, driverVars, dacVars
<1>8. CASE StreamEnds
  BY <1>8, EmptySeq DEF TypeOK, StreamEnds, driverVars, dacVars
<1>9. CASE Backoff
  BY <1>9 DEF TypeOK, Backoff, driverVars, dacVars
<1>10. CASE Play
  <2>1. /\ buf \in Seq(Point) /\ buf # << >> /\ buf' = Tail(buf)
        /\ shown' = Head(buf).frame /\ stale' \in {stale, stale + 1}
        /\ UNCHANGED <<driverVars, shared, link, playback, faults>>
    BY <1>10 DEF TypeOK, Play
  <2>2. buf' \in Seq(Point) /\ Len(buf') = Len(buf) - 1 /\ Head(buf) \in Point
    BY <2>1
  <2>3. shown' \in 0..MaxFrame
    BY <2>1, <2>2 DEF Point
  <2>4. TypeOK'
    BY <2>1, <2>2, <2>3 DEF TypeOK, driverVars
  <2>5. KnownInv' /\ BatchInv'
    BY <2>1, <2>2 DEF TypeOK, driverVars
  <2> QED
    BY <2>4, <2>5
<1>11. CASE Underflow
  BY <1>11 DEF TypeOK, Underflow, driverVars, dacVars
<1>12. CASE DacStops
  BY <1>12 DEF TypeOK, DacStops, driverVars, dacVars
<1>13. CASE LinkDrop
  <2>1. faults' \in 0..MaxFaults /\ link' = FALSE /\ UNCHANGED <<driverVars, shared, dacVars>>
    BY <1>13 DEF TypeOK, LinkDrop
  <2> QED
    BY <2>1 DEF TypeOK, driverVars, dacVars
<1>14. CASE Reboot
  <2>1. /\ faults' \in 0..MaxFaults /\ link' = FALSE /\ playback' = "idle"
        /\ buf' = << >> /\ UNCHANGED <<driverVars, shared, shown, stale>>
    BY <1>14 DEF TypeOK, Reboot
  <2>2. TypeOK'
    BY <2>1, EmptySeq DEF TypeOK, driverVars
  <2>3. KnownInv' /\ BatchInv'
    BY <2>1, EmptySeq DEF TypeOK, driverVars
  <2> QED
    BY <2>2, <2>3
<1>15. CASE AnswerLost
  <2>1. /\ pc # "hung" /\ pc' = "hung" /\ batch' = << >> /\ link' = FALSE
        /\ faults' \in 0..MaxFaults
        /\ UNCHANGED <<known, begun, cursor, shared, shown, stale>>
    BY <1>15 DEF TypeOK, AnswerLost, Asking
  <2>2. /\ playback' \in {"idle", "prepared", "playing"}
        /\ buf' \in Seq(Point) /\ Len(buf') < Cap
    <3>1. CASE DacPrepares
      BY <3>1, EmptySeq DEF DacPrepares
    <3>2. CASE DacTakes
      <4>1. buf' = buf \o batch /\ buf \in Seq(Point) /\ batch \in Seq(Point)
        BY <3>2 DEF DacTakes, TypeOK
      <4>2. buf' \in Seq(Point) /\ Len(buf') = Len(buf) + Len(batch)
        BY <4>1, Concatenation
      <4>3. Len(buf) + Len(batch) < Cap
        BY <2>1, <3>2 DEF DacTakes, TypeOK
      <4> QED
        BY <3>2, <4>2, <4>3 DEF DacTakes, Begun, TypeOK
    <3>3. CASE UNCHANGED <<playback, buf>>
      BY <2>1, <3>3 DEF TypeOK
    <3> QED
      BY <1>15, <3>1, <3>2, <3>3 DEF AnswerLost
  <2>3. TypeOK'
    BY <2>1, <2>2, EmptySeq DEF TypeOK
  <2>4. Len(buf') \in Nat
    BY <2>2
  <2> QED
    BY <2>1, <2>2, <2>3, <2>4
<1>16. CASE UNCHANGED vars
  BY <1>16 DEF TypeOK, vars, driverVars, dacVars
<1> QED
  BY <1>1, <1>2, <1>3, <1>4, <1>5, <1>6, <1>7, <1>8, <1>9, <1>10, <1>11, <1>12, <1>13, <1>14,
     <1>15, <1>16 DEF Next, Driver, Dac

\* The stream of points to be played.
LEMMA StreamPoints ==
    ASSUME TypeOK
    PROVE  /\ Stream \in Seq(Point)
           /\ Len(Stream) = Len(buf) + Len(batch)
           /\ Len(buf) \in Nat /\ Len(batch) \in Nat
           /\ \A i \in 1..Len(buf) : Stream[i] = buf[i]
           /\ \A i \in 1..Len(batch) : Stream[Len(buf) + i] = batch[i]
           /\ \A i \in 1..Len(Stream) : Stream[i].frame \in Nat
<1>1. buf \in Seq(Point) /\ batch \in Seq(Point)
  BY DEF TypeOK
<1>2. Stream \in Seq(Point)
  BY <1>1, Concatenation DEF Stream
<1>3. \A i \in 1..Len(Stream) : Stream[i].frame \in Nat
  <2> SUFFICES ASSUME NEW i \in 1..Len(Stream) PROVE Stream[i].frame \in Nat
    OBVIOUS
  <2>1. Stream[i] \in Point
    BY <1>2
  <2> QED
    BY <2>1, FrameAssumption DEF Point
<1> QED
  BY <1>1, <1>2, <1>3, Concatenation DEF Stream

\* Buffer and batch together leave a place free in the DAC.
LEMMA StreamShort ==
    ASSUME TypeOK, KnownInv, BatchInv
    PROVE  Len(buf) + Len(batch) < Cap
<1>1. Len(buf) \in Nat /\ Len(batch) \in Nat /\ known \in Nat /\ Len(<< >>) = 0
  BY EmptySeq DEF TypeOK
<1> QED
  BY <1>1, CapAssumption DEF KnownInv, BatchInv

\* Every action keeps the budget of superseded points.
LEMMA StaleStep ==
    ASSUME TypeOK, KnownInv, BatchInv, StaleInv, TypeOK', [Next]_vars
    PROVE  StaleInv'
<1> USE CapAssumption
<1> DEFINE SamePoints == \A i \in 1..Len(Stream') : i \in 1..Len(Stream) /\ Stream'[i] = Stream[i]
<1>1. CASE Publish
  <2>1. stale' = 0 /\ buf' = buf /\ batch' = batch
    BY <1>1 DEF Publish, driverVars
  <2>2. Stream' = Stream
    BY <2>1 DEF Stream
  <2>3. Len(Stream) < Cap /\ Len(Stream) \in Nat
    BY StreamPoints, StreamShort
  <2> QED
    BY <2>1, <2>2, <2>3 DEF StaleInv
<1>2. CASE Fill
  <2>1. /\ buf' = buf /\ shared' = shared /\ stale' = stale
    BY <1>2 DEF Fill, dacVars
  <2>2. \A k \in 1..Len(batch') : batch'[k].frame = shared
    BY <1>2, FillBatch
  <2>3. buf \in Seq(Point) /\ batch' \in Seq(Point)
    BY DEF TypeOK
  <2>4. ASSUME NEW i \in 1..Len(Stream'), Stream'[i].frame < shared'
        PROVE  stale' + i < Cap
    <3>1. /\ Len(Stream') = Len(buf) + Len(batch')
          /\ \A j \in 1..Len(buf) : Stream'[j] = buf[j]
          /\ \A j \in 1..Len(batch') : Stream'[Len(buf) + j] = batch'[j]
      <4>1. Stream' = buf \o batch'
        BY <2>1 DEF Stream
      <4> QED
        BY <2>3, <4>1, Concatenation
    <3>2. Len(buf) \in Nat /\ Len(batch') \in Nat
      BY <2>3
    <3>3. CASE i \in 1..Len(buf)
      <4>1. i \in 1..Len(Stream) /\ Stream[i] = buf[i]
        BY <3>2, <3>3, StreamPoints
      <4> QED
        BY <2>1, <2>4, <3>1, <3>3, <4>1 DEF StaleInv
    <3>4. CASE i \notin 1..Len(buf)
      <4>1. i - Len(buf) \in 1..Len(batch') /\ i = Len(buf) + (i - Len(buf))
        BY <3>1, <3>2, <3>4
      <4>2. Stream'[i].frame = shared
        BY <2>2, <3>1, <4>1
      <4> QED
        BY <2>1, <2>4, <4>2 DEF TypeOK
    <3> QED
      BY <3>3, <3>4
  <2> QED
    BY <2>1, <2>4 DEF StaleInv
<1>3. CASE Play
  <2>1. /\ buf \in Seq(Point) /\ buf # << >> /\ buf' = Tail(buf) /\ batch' = batch
        /\ shared' = shared /\ stale' = IF Head(buf).frame < shared THEN stale + 1 ELSE stale
    BY <1>3 DEF TypeOK, Play, driverVars
  <2>2. /\ Len(Stream') = Len(Stream) - 1
        /\ \A i \in 1..Len(Stream') : i + 1 \in 1..Len(Stream) /\ Stream'[i] = Stream[i + 1]
    <3>1. buf' \in Seq(Point) /\ Len(buf') = Len(buf) - 1 /\ Len(buf) \in Nat \ {0}
      BY <2>1
    <3>2. \A i \in 1..Len(buf') : buf'[i] = buf[i + 1]
      BY <2>1
    <3>3. /\ Len(Stream') = Len(buf') + Len(batch)
          /\ \A i \in 1..Len(buf') : Stream'[i] = buf'[i]
          /\ \A i \in 1..Len(batch) : Stream'[Len(buf') + i] = batch[i]
      BY <2>1, <3>1, Concatenation DEF TypeOK, Stream
    <3>4. ASSUME NEW i \in 1..Len(Stream')
          PROVE  i + 1 \in 1..Len(Stream) /\ Stream'[i] = Stream[i + 1]
      <4>1. CASE i \in 1..Len(buf')
        <5>1. i + 1 \in 1..Len(buf)
          BY <3>1, <4>1
        <5>2. Stream[i + 1] = buf[i + 1] /\ i + 1 \in 1..Len(Stream)
          BY <5>1, StreamPoints
        <5>3. Stream'[i] = buf[i + 1]
          BY <3>2, <3>3, <4>1
        <5> QED
          BY <5>2, <5>3
      <4>2. CASE i \notin 1..Len(buf')
        <5>1. i - Len(buf') \in 1..Len(batch) /\ i + 1 = Len(buf) + (i - Len(buf'))
          BY <3>1, <3>3, <4>2, StreamPoints
        <5>2. i = Len(buf') + (i - Len(buf'))
          BY <3>1
        <5>3. Stream'[i] = batch[i - Len(buf')]
          BY <3>3, <5>1, <5>2
        <5>4. Stream[i + 1] = batch[i - Len(buf')]
          BY <5>1, StreamPoints
        <5>5. i + 1 \in 1..Len(Stream)
          BY <3>1, <3>3, StreamPoints
        <5> QED
          BY <5>3, <5>4, <5>5
      <4> QED
        BY <4>1, <4>2
    <3> QED
      BY <3>1, <3>3, <3>4, StreamPoints
  <2>3. 1 \in 1..Len(Stream) /\ Stream[1] = Head(buf) /\ Len(Stream) \in Nat
    <3>1. Len(buf) \in Nat \ {0} /\ Head(buf) = buf[1]
      BY <2>1
    <3> QED
      BY <3>1, StreamPoints
  <2>4. stale' < Cap
    BY <2>1, <2>3 DEF StaleInv, TypeOK
  <2>5. ASSUME NEW i \in 1..Len(Stream'), Stream'[i].frame < shared'
        PROVE  stale' + i < Cap
    <3>1. Stream[i + 1].frame < shared /\ i + 1 \in 1..Len(Stream)
      BY <2>1, <2>2, <2>5
    <3>2. stale + (i + 1) < Cap
      BY <3>1 DEF StaleInv
    <3>3. stale \in Nat /\ (stale' = stale \/ stale' = stale + 1) /\ i \in Int
      BY <2>1 DEF TypeOK
    <3> QED
      BY <3>2, <3>3
  <2> QED
    BY <2>4, <2>5 DEF StaleInv
<1>4. CASE Submit
  <2>1. buf' = buf \o batch /\ batch' = << >> /\ shared' = shared /\ stale' = stale
    BY <1>4 DEF Submit, DacTakes
  <2>2. Stream' = Stream
    BY <2>1 DEF Stream, TypeOK
  <2> QED
    BY <2>1, <2>2 DEF StaleInv
<1>5. CASE StreamEnds \/ (AnswerLost /\ buf' = buf)
  <2>1. buf' = buf /\ batch' = << >> /\ shared' = shared /\ stale' = stale
    BY <1>5 DEF StreamEnds, AnswerLost, dacVars
  <2>2. SamePoints
    BY <2>1, EmptySeq DEF Stream, TypeOK
  <2> QED
    BY <2>1, <2>2 DEF StaleInv
<1>6. CASE Prepare \/ DacStops \/ Reboot
  <2>1. buf' = << >> /\ batch' = batch /\ shared' = shared /\ stale' = stale
    BY <1>6 DEF Prepare, DacPrepares, DacStops, Reboot, driverVars
  <2>2. Stream' = batch
    BY <2>1 DEF Stream, TypeOK
  <2>3. ASSUME NEW i \in 1..Len(batch), batch[i].frame < shared
        PROVE  stale + i < Cap
    <3>1. Len(buf) + i \in 1..Len(Stream) /\ Stream[Len(buf) + i] = batch[i]
      BY StreamPoints
    <3>2. stale + (Len(buf) + i) < Cap
      BY <2>3, <3>1 DEF StaleInv
    <3> QED
      BY <3>2, StreamPoints DEF TypeOK
  <2> QED
    BY <2>1, <2>2, <2>3 DEF StaleInv
<1>7. CASE Connect \/ ConnectFails \/ Ping \/ Backoff \/ Underflow \/ LinkDrop \/ UNCHANGED vars
  <2>1. UNCHANGED <<buf, batch, shared, stale>>
    BY <1>7 DEF Connect, ConnectFails, Ping, Backoff, Underflow, LinkDrop, vars,
         driverVars, dacVars
  <2> QED
    BY <2>1 DEF StaleInv, Stream
<1>8. CASE AnswerLost /\ buf' # buf
  <2>1. batch' = << >> /\ shared' = shared /\ stale' = stale /\ (DacPrepares \/ DacTakes)
    BY <1>8 DEF AnswerLost
  <2>2. CASE DacPrepares
    <3>1. Stream' = << >>
      BY <2>1, <2>2 DEF Stream, DacPrepares
    <3>2. Len(Stream') = 0
      BY <3>1
    <3> QED
      BY <2>1, <3>2 DEF StaleInv
  <2>3. CASE DacTakes
    <3>1. Stream' = Stream
      BY <2>1, <2>3 DEF Stream, DacTakes, TypeOK
    <3> QED
      BY <2>1, <3>1 DEF StaleInv
  <2> QED
    BY <2>1, <2>2, <2>3
<1> QED
  BY <1>1, <1>2, <1>3, <1>4, <1>5, <1>6, <1>7, <1>8 DEF Next, Driver, Dac

-----------------------------------------------------------------------------
\* The initial states satisfy the inductive invariant.
LEMMA InitInv == Init => IInv
<1> SUFFICES ASSUME Init PROVE IInv
  OBVIOUS
<1>1. TypeOK
  <2>1. /\ buf \in Seq(Point) /\ batch \in Seq(Point)
        /\ known \in 0..Cap /\ shared \in 0..MaxFrame /\ shown \in 0..MaxFrame
        /\ faults \in 0..MaxFaults /\ cursor \in Nat /\ stale \in Nat
    BY EmptySeq, CapAssumption, FrameAssumption, FaultAssumption DEF Init
  <2> QED
    BY <2>1 DEF Init, TypeOK
<1>2. KnownInv /\ BatchInv
  BY EmptySeq, CapAssumption DEF Init, KnownInv, BatchInv
<1>3. Len(Stream) = 0
  BY <1>1, StreamPoints, EmptySeq DEF Init
<1> QED
  BY <1>1, <1>2, <1>3, CapAssumption DEF Init, IInv, StaleInv

\* Every step keeps the inductive invariant.
LEMMA StepInv == IInv /\ [Next]_vars => IInv'
BY FullnessStep, StaleStep DEF IInv

\* The inductive invariant holds in every reachable state.
THEOREM Invariance == Spec => []IInv
BY InitInv, StepInv, PTL DEF Spec

\* Type correctness of the driver and the DAC.
THEOREM TypeCorrect == Spec => []TypeOK
<1>1. IInv => TypeOK
  BY DEF IInv
<1> QED
  BY Invariance, <1>1, PTL

\* For every capacity and batch size, what the driver is about to send fits.
THEOREM FitsAlways == Spec => []NeverOverfull
<1>1. IInv => NeverOverfull
  BY StreamShort DEF IInv, NeverOverfull
<1> QED
  BY Invariance, <1>1, PTL

\* For every capacity, fewer than Cap superseded points are played after a
\* publication.
THEOREM LagBounded == Spec => []StaleBounded
<1>1. IInv => StaleBounded
  BY DEF IInv, StaleInv, StaleBounded
<1> QED
  BY Invariance, <1>1, PTL

-----------------------------------------------------------------------------
(* The order of the points.                                                *)

\* No point is of a frame that is not published yet.
FramesInv == \A i \in 1..Len(Stream) : Stream[i].frame <= shared

\* The next batch goes on behind the last point of the current frame.
CursorInv ==
    pc \in {"fill", "submit"} /\ shared # 0 /\ Len(Stream) > 0 =>
      LET p == Stream[Len(Stream)]
      IN  p.frame = shared => cursor = (p.idx + 1) % FrameLen[shared]

OrderInv == CyclicOrder /\ FramesInv /\ CursorInv

\* The stream after a step is the stream before it without its first s points
\* and perhaps without some of the last ones.
Stretch(s) ==
    /\ Len(Stream') + s <= Len(Stream)
    /\ \A i \in 1..Len(Stream') : Stream'[i] = Stream[i + s]

\* The cursor is not moved while the driver goes on filling behind the stream.
Keeps(s) ==
    pc' \in {"fill", "submit"} /\ Len(Stream') > 0 =>
      /\ pc \in {"fill", "submit"}
      /\ cursor' = cursor
      /\ Len(Stream') + s = Len(Stream)

\* One more, modulo n.
LEMMA NextModulo ==
    ASSUME NEW n \in Nat \ {0}, NEW a \in Nat
    PROVE  (a + 1) % n = ((a % n) + 1) % n /\ (a % n) % n = a % n /\ a % n \in Nat
<1> DEFINE q == a \div n
           r == a % n
<1>1. q \in Nat /\ r \in 0..(n - 1) /\ a = n * q + r
  OBVIOUS
<1> HIDE DEF q, r
<1>2. ASSUME NEW d \in Nat, NEW m \in 0..(n - 1) PROVE (n * d + m) % n = m
  <2> DEFINE x == n * d + m
             e == x \div n
             k == x % n
  <2>1. x \in Nat
    OBVIOUS
  <2> HIDE DEF x
  <2>2. e \in Int /\ k \in 0..(n - 1) /\ x = n * e + k
    BY <2>1
  <2>3. n * e + k = n * d + m
    BY <2>2 DEF x
  <2> HIDE DEF e, k
  <2>4. n * (e - d) = m - k
    BY <2>2, <2>3
  <2>5. e - d = 0
    <3>1. CASE e - d >= 1
      <4>1. n * (e - d) >= n
        BY <2>2, <3>1
      <4> QED
        BY <2>2, <2>4, <4>1
    <3>2. CASE e - d <= -1
      <4>1. n * (e - d) <= -n
        BY <2>2, <3>2
      <4> QED
        BY <2>2, <2>4, <4>1
    <3> QED
      BY <2>2, <3>1, <3>2
  <2>6. k = m
    BY <2>2, <2>4, <2>5
  <2> QED
    BY <2>6 DEF k, x
<1>3. r % n = r
  BY <1>1
<1>4. CASE r + 1 < n
  <2>1. a + 1 = n * q + (r + 1) /\ r + 1 \in 0..(n - 1)
    BY <1>1, <1>4
  <2>2. (a + 1) % n = r + 1
    BY <1>1, <1>2, <2>1
  <2>3. (r + 1) % n = r + 1
    BY <1>1, <1>4
  <2> QED
    BY <1>1, <1>3, <2>2, <2>3 DEF r
<1>5. CASE r + 1 = n
  <2>1. a + 1 = n * (q + 1) + 0 /\ 0 \in 0..(n - 1) /\ q + 1 \in Nat
    BY <1>1, <1>5
  <2>2. (a + 1) % n = 0
    BY <1>2, <2>1
  <2>3. (r + 1) % n = 0
    BY <1>5
  <2> QED
    BY <1>1, <1>3, <2>2, <2>3 DEF r
<1> QED
  BY <1>1, <1>4, <1>5

\* What is left of a stream in order is in order.
LEMMA StretchInOrder ==
    ASSUME TypeOK, TypeOK', OrderInv, shared' \in {shared, shared + 1},
           NEW s \in Nat, Stretch(s), Keeps(s)
    PROVE  OrderInv'
<1>1. /\ Len(Stream) \in Nat /\ Len(Stream') \in Nat
      /\ shared \in Nat /\ shared' \in Nat /\ shared <= shared'
  <2>1. buf' \in Seq(Point) /\ batch' \in Seq(Point)
    BY DEF TypeOK
  <2>2. Len(Stream') \in Nat
    BY <2>1, Concatenation DEF Stream
  <2>3. shared \in Nat /\ shared' \in Nat
    BY FrameAssumption DEF TypeOK
  <2> QED
    BY <2>2, <2>3, StreamPoints
<1>2. CyclicOrder'
  <2> SUFFICES ASSUME NEW i \in 1..(Len(Stream') - 1),
                      Stream'[i].frame = Stream'[i + 1].frame, Stream'[i].frame # 0
               PROVE  Stream'[i + 1].idx = (Stream'[i].idx + 1) % FrameLen[Stream'[i].frame]
    BY DEF CyclicOrder
  <2>1. i \in 1..Len(Stream') /\ i + 1 \in 1..Len(Stream')
    BY <1>1
  <2>2. Stream'[i] = Stream[i + s] /\ Stream'[i + 1] = Stream[(i + 1) + s]
    BY <2>1 DEF Stretch
  <2>3. (i + 1) + s = (i + s) + 1 /\ i + s \in 1..(Len(Stream) - 1)
    BY <1>1, <2>1 DEF Stretch
  <2> QED
    BY <2>2, <2>3 DEF OrderInv, CyclicOrder
<1>3. FramesInv'
  <2> SUFFICES ASSUME NEW i \in 1..Len(Stream') PROVE Stream'[i].frame <= shared'
    BY DEF FramesInv
  <2>1. i + s \in 1..Len(Stream) /\ Stream'[i] = Stream[i + s]
    BY <1>1 DEF Stretch
  <2>2. Stream[i + s].frame <= shared /\ Stream[i + s].frame \in Nat
    BY <2>1, StreamPoints DEF OrderInv, FramesInv
  <2> QED
    BY <1>1, <2>1, <2>2
<1>4. CursorInv'
  <2> SUFFICES ASSUME pc' \in {"fill", "submit"}, shared' # 0, Len(Stream') > 0,
                      Stream'[Len(Stream')].frame = shared'
               PROVE  cursor' = (Stream'[Len(Stream')].idx + 1) % FrameLen[shared']
    BY DEF CursorInv
  <2>1. pc \in {"fill", "submit"} /\ cursor' = cursor /\ Len(Stream') + s = Len(Stream)
    BY DEF Keeps
  <2>2. Len(Stream') \in 1..Len(Stream')
    BY <1>1
  <2>3. Stream'[Len(Stream')] = Stream[Len(Stream)] /\ Len(Stream) \in 1..Len(Stream)
    <3>1. Stream'[Len(Stream')] = Stream[Len(Stream') + s]
      BY <2>2 DEF Stretch
    <3> QED
      BY <1>1, <2>1, <2>2, <3>1
  <2>4. shared' = shared
    BY <1>1, <2>3 DEF OrderInv, FramesInv
  <2> QED
    BY <1>1, <2>1, <2>3, <2>4 DEF OrderInv, CursorInv
<1> QED
  BY <1>2, <1>3, <1>4 DEF OrderInv

\* The neighbours in a batch, and its first and last points.
LEMMA FillPoints ==
    ASSUME TypeOK, KnownInv, Fill, shared # 0
    PROVE  LET n == FrameLen[shared]
           IN  /\ n \in Nat \ {0}
               /\ Len(batch') \in Nat \ {0}
               /\ Len(batch') = BatchSize
               /\ batch'[1].idx = cursor % n
               /\ \A k \in 1..(Len(batch') - 1) : batch'[k + 1].idx = (batch'[k].idx + 1) % n
               /\ cursor' = (batch'[Len(batch')].idx + 1) % n
<1> DEFINE n == FrameLen[shared]
<1>1. shared \in 1..MaxFrame /\ n \in Nat \ {0} /\ cursor \in Nat
  BY FrameAssumption DEF TypeOK
<1>2. Len(batch') = BatchSize /\ BatchSize \in Nat \ {0}
  <2>1. Room(known) \in Nat \ {0}
    BY CapAssumption DEF Fill, TypeOK, Room
  <2> QED
    BY <2>1, FillBatch, BatchAssumption DEF BatchSize
<1>3. /\ cursor' = (cursor + BatchSize) % n
      /\ batch' = [k \in 1..BatchSize |-> [frame |-> shared, idx |-> (cursor + k - 1) % n]]
  BY DEF Fill, Advanced
<1> HIDE DEF n
<1>4. \A k \in 1..BatchSize : batch'[k].idx = (cursor + k - 1) % n
  BY <1>3
<1>5. batch'[1].idx = cursor % n
  <2>1. 1 \in 1..BatchSize /\ cursor + 1 - 1 = cursor
    BY <1>1, <1>2
  <2> QED
    BY <1>4, <2>1
<1>6. ASSUME NEW k \in 1..(BatchSize - 1)
      PROVE  batch'[k + 1].idx = (batch'[k].idx + 1) % n
  <2>1. k \in 1..BatchSize /\ k + 1 \in 1..BatchSize
    BY <1>2
  <2>2. cursor + k - 1 \in Nat /\ cursor + (k + 1) - 1 = (cursor + k - 1) + 1
    BY <1>1, <2>1
  <2>3. ((cursor + k - 1) + 1) % n = (((cursor + k - 1) % n) + 1) % n
    BY <1>1, <2>2, NextModulo
  <2> QED
    BY <1>4, <2>1, <2>2, <2>3
<1>7. cursor' = (batch'[BatchSize].idx + 1) % n
  <2>1. BatchSize \in 1..BatchSize
    BY <1>2
  <2>2. cursor + BatchSize - 1 \in Nat /\ cursor + BatchSize = (cursor + BatchSize - 1) + 1
    BY <1>1, <1>2
  <2>3. ((cursor + BatchSize - 1) + 1) % n = (((cursor + BatchSize - 1) % n) + 1) % n
    BY <1>1, <2>2, NextModulo
  <2> QED
    BY <1>3, <1>4, <2>1, <2>2, <2>3
<1> QED
  BY <1>1, <1>2, <1>5, <1>6, <1>7 DEF n

\* A new batch goes on where the stream ends.
LEMMA FillInOrder ==
    ASSUME TypeOK, KnownInv, BatchInv, OrderInv, Fill
    PROVE  OrderInv'
<1> DEFINE b == Len(buf)
           m == Len(batch')
<1>1. /\ pc = "fill" /\ pc' = "submit" /\ buf' = buf /\ shared' = shared /\ batch = << >>
  BY DEF Fill, dacVars, BatchInv
<1>2. /\ buf \in Seq(Point) /\ batch' \in Seq(Point) /\ b \in Nat /\ m \in Nat
      /\ \A k \in 1..m : batch'[k].frame = shared
      /\ shared \in Nat
  BY FillBatch, FrameAssumption DEF TypeOK
<1>3. /\ Stream = buf
      /\ \A i \in 1..b : Stream[i] = buf[i]
  BY <1>1, <1>2 DEF Stream
<1>4. /\ Len(Stream') = b + m
      /\ \A i \in 1..b : Stream'[i] = buf[i]
      /\ \A i \in 1..m : Stream'[b + i] = batch'[i]
  <2>1. Stream' = buf \o batch'
    BY <1>1 DEF Stream
  <2> QED
    BY <1>2, <2>1, Concatenation
<1> HIDE DEF b, m
<1>5. Len(Stream) = b
  BY <1>3 DEF b
<1>6. FramesInv'
  <2> SUFFICES ASSUME NEW i \in 1..Len(Stream') PROVE Stream'[i].frame <= shared'
    BY DEF FramesInv
  <2>1. CASE i \in 1..b
    BY <1>1, <1>3, <1>4, <1>5, <2>1 DEF OrderInv, FramesInv
  <2>2. CASE i \notin 1..b
    <3>1. i - b \in 1..m /\ i = b + (i - b)
      BY <1>2, <1>4, <2>2
    <3>2. Stream'[i].frame = shared
      BY <1>2, <1>4, <3>1
    <3> QED
      BY <1>1, <1>2, <3>2
  <2> QED
    BY <2>1, <2>2
<1>7. CyclicOrder'
  <2> SUFFICES ASSUME NEW i \in 1..(Len(Stream') - 1),
                      Stream'[i].frame = Stream'[i + 1].frame, Stream'[i].frame # 0
               PROVE  Stream'[i + 1].idx = (Stream'[i].idx + 1) % FrameLen[Stream'[i].frame]
    BY DEF CyclicOrder
  <2>1. CASE i < b
    <3>1. i \in 1..(Len(Stream) - 1) /\ i \in 1..b /\ i + 1 \in 1..b
      BY <1>2, <1>5, <2>1
    <3>2. Stream'[i] = Stream[i] /\ Stream'[i + 1] = Stream[i + 1]
      BY <1>3, <1>4, <3>1
    <3> QED
      BY <3>1, <3>2 DEF OrderInv, CyclicOrder
  <2>2. CASE i = b
    <3>1. b \in 1..b /\ 1 \in 1..m /\ m \in Nat \ {0}
      BY <1>2, <1>4, <2>2
    <3>2. Stream'[i] = Stream[b] /\ Stream'[i + 1] = batch'[1]
      BY <1>3, <1>4, <2>2, <3>1
    <3>3. shared # 0 /\ Stream[b].frame = shared
      BY <1>2, <3>1, <3>2
    <3>4. cursor = (Stream[b].idx + 1) % FrameLen[shared]
      BY <1>1, <1>2, <1>5, <3>1, <3>3 DEF OrderInv, CursorInv
    <3>5. batch'[1].idx = cursor % FrameLen[shared] /\ FrameLen[shared] \in Nat \ {0}
      BY <3>3, FillPoints
    <3>6. Stream[b].idx \in Nat
      <4>1. buf[b] \in Point
        BY <1>2, <3>1 DEF b
      <4> QED
        BY <1>3, <3>1, <4>1 DEF Point
    <3>7. cursor % FrameLen[shared] = cursor
      <4> DEFINE a == Stream[b].idx + 1
                 n == FrameLen[shared]
      <4>1. a \in Nat /\ n \in Nat \ {0} /\ cursor = a % n
        BY <3>4, <3>5, <3>6
      <4> HIDE DEF a, n
      <4>2. (a % n) % n = a % n
        BY <4>1, NextModulo
      <4> QED
        BY <4>1, <4>2 DEF n
    <3> QED
      BY <3>2, <3>3, <3>4, <3>5, <3>7
  <2>3. CASE i > b
    <3>1. /\ i - b \in 1..(m - 1) /\ i - b \in 1..m /\ (i - b) + 1 \in 1..m
          /\ i = b + (i - b) /\ i + 1 = b + ((i - b) + 1)
      BY <1>2, <1>4, <2>3
    <3>2. Stream'[i] = batch'[i - b] /\ Stream'[i + 1] = batch'[(i - b) + 1]
      BY <1>4, <3>1
    <3>3. Stream'[i].frame = shared /\ shared # 0
      BY <1>2, <3>1, <3>2
    <3>4. batch'[(i - b) + 1].idx = (batch'[i - b].idx + 1) % FrameLen[shared]
      BY <3>1, <3>3, FillPoints DEF m
    <3> QED
      BY <3>2, <3>3, <3>4
  <2> QED
    BY <1>2, <2>1, <2>2, <2>3
<1>8. CursorInv'
  <2> SUFFICES ASSUME shared' # 0, Len(Stream') > 0
               PROVE  cursor' = (Stream'[Len(Stream')].idx + 1) % FrameLen[shared']
    BY DEF CursorInv
  <2>1. m \in 1..m /\ cursor' = (batch'[m].idx + 1) % FrameLen[shared]
    BY <1>1, FillPoints DEF m
  <2>2. Stream'[Len(Stream')] = batch'[m]
    BY <1>4, <2>1
  <2> QED
    BY <1>1, <2>1, <2>2
<1> QED
  BY <1>6, <1>7, <1>8 DEF OrderInv

\* Every other step leaves a stretch of the stream.
LEMMA OtherSteps ==
    ASSUME TypeOK, TypeOK', BatchInv, [Next]_vars, ~Fill
    PROVE  /\ shared' \in {shared, shared + 1}
           /\ \E s \in Nat : Stretch(s) /\ Keeps(s)
<1>1. Len(Stream) \in Nat /\ Len(buf) \in Nat /\ Len(batch) \in Nat
  BY StreamPoints
<1>2. CASE Publish \/ Ping \/ Submit \/ Underflow \/ LinkDrop \/ UNCHANGED vars
  <2>1. Stream' = Stream
    <3>1. CASE Submit
      BY <3>1 DEF Submit, DacTakes, Stream, TypeOK
    <3>2. CASE ~Submit
      <4>1. UNCHANGED <<buf, batch>>
        BY <1>2, <3>2 DEF Publish, Ping, Underflow, LinkDrop, vars, driverVars, dacVars
      <4> QED
        BY <4>1 DEF Stream
    <3> QED
      BY <3>1, <3>2
  <2>2. /\ cursor' = cursor /\ shared' \in {shared, shared + 1}
        /\ pc' \in {"fill", "submit"} => pc \in {"fill", "submit"}
    BY <1>2 DEF Publish, Ping, Submit, DacTakes, Underflow, LinkDrop, vars, driverVars
  <2>3. Stretch(0) /\ Keeps(0)
    BY <1>1, <2>1, <2>2 DEF Stretch, Keeps
  <2> QED
    BY <2>2, <2>3
<1>3. CASE Connect \/ ConnectFails \/ Backoff \/ StreamEnds
  <2>1. /\ pc' \notin {"fill", "submit"} /\ shared' = shared
        /\ buf' = buf /\ batch' \in {batch, << >>}
    BY <1>3 DEF Connect, ConnectFails, Backoff, StreamEnds, dacVars
  <2>2. Stretch(0)
    <3>1. CASE batch' = batch
      <4>1. Stream' = Stream
        BY <2>1, <3>1 DEF Stream
      <4> QED
        BY <1>1, <4>1 DEF Stretch
    <3>2. CASE batch' = << >>
      <4>1. Stream' = buf
        BY <2>1, <3>2 DEF Stream, TypeOK
      <4> QED
        BY <1>1, <4>1, StreamPoints DEF Stretch
    <3> QED
      BY <2>1, <3>1, <3>2
  <2> QED
    BY <2>1, <2>2 DEF Keeps
<1>4. CASE Prepare \/ DacStops \/ Reboot
  <2>1. buf' = << >> /\ batch' = batch /\ shared' = shared
    BY <1>4 DEF Prepare, DacPrepares, DacStops, Reboot, driverVars
  <2>2. Stream' = batch /\ batch \in Seq(Point)
    BY <2>1 DEF Stream, TypeOK
  <2>3. Stretch(Len(buf))
    <3> SUFFICES ASSUME NEW i \in 1..Len(batch) PROVE batch[i] = Stream[i + Len(buf)]
      BY <1>1, <2>2, StreamPoints DEF Stretch
    <3>1. i + Len(buf) = Len(buf) + i
      BY <1>1
    <3> QED
      BY <3>1, StreamPoints
  <2>4. Keeps(Len(buf))
    <3>1. Len(Stream') + Len(buf) = Len(Stream)
      BY <1>1, <2>2, StreamPoints
    <3>2. CASE Prepare
      <4>1. Len(Stream') = 0
        BY <2>2, <3>2, EmptySeq DEF Prepare, DacPrepares, BatchInv
      <4> QED
        BY <4>1 DEF Keeps
    <3>3. CASE DacStops \/ Reboot
      <4>1. pc' = pc /\ cursor' = cursor
        BY <3>3 DEF DacStops, Reboot, driverVars
      <4> QED
        BY <3>1, <4>1 DEF Keeps
    <3> QED
      BY <1>4, <3>2, <3>3
  <2> QED
    BY <1>1, <2>1, <2>3, <2>4
<1>5. CASE Play
  <2>1. /\ buf \in Seq(Point) /\ buf # << >> /\ buf' = Tail(buf) /\ batch' = batch
        /\ shared' = shared /\ pc' = pc /\ cursor' = cursor
    BY <1>5 DEF TypeOK, Play, driverVars
  <2>2. buf' \in Seq(Point) /\ Len(buf') = Len(buf) - 1 /\ Len(buf) \in Nat \ {0}
    BY <2>1
  <2>3. \A i \in 1..Len(buf') : buf'[i] = buf[i + 1]
    BY <2>1
  <2>4. /\ Len(Stream') = Len(buf') + Len(batch)
        /\ \A i \in 1..Len(buf') : Stream'[i] = buf'[i]
        /\ \A i \in 1..Len(batch) : Stream'[Len(buf') + i] = batch[i]
    BY <2>1, <2>2, Concatenation DEF TypeOK, Stream
  <2>5. Stretch(1)
    <3> SUFFICES ASSUME NEW i \in 1..Len(Stream') PROVE Stream'[i] = Stream[i + 1]
      BY <2>2, <2>4, StreamPoints DEF Stretch
    <3>1. CASE i \in 1..Len(buf')
      <4>1. i + 1 \in 1..Len(buf)
        BY <2>2, <3>1
      <4>2. Stream[i + 1] = buf[i + 1]
        BY <4>1, StreamPoints
      <4>3. Stream'[i] = buf[i + 1]
        BY <2>3, <2>4, <3>1
      <4> QED
        BY <4>2, <4>3
    <3>2. CASE i \notin 1..Len(buf')
      <4>1. /\ i - Len(buf') \in 1..Len(batch)
            /\ i = Len(buf') + (i - Len(buf')) /\ i + 1 = Len(buf) + (i - Len(buf'))
        BY <1>1, <2>2, <2>4, <3>2
      <4>2. Stream'[i] = batch[i - Len(buf')]
        BY <2>4, <4>1
      <4> QED
        BY <4>1, <4>2, StreamPoints
    <3> QED
      BY <3>1, <3>2
  <2>6. Keeps(1)
    BY <2>1, <2>2, <2>4, StreamPoints DEF Keeps
  <2> QED
    BY <2>1, <2>5, <2>6
<1>6. CASE AnswerLost
  <2>1. /\ pc' \notin {"fill", "submit"} /\ shared' = shared /\ batch' = << >>
        /\ DacPrepares \/ DacTakes \/ buf' = buf
    BY <1>6 DEF AnswerLost
  <2>2. Stretch(0)
    <3>1. CASE DacPrepares
      <4>1. Stream' = << >>
        BY <2>1, <3>1 DEF Stream, DacPrepares
      <4>2. Len(Stream') = 0
        BY <4>1
      <4> QED
        BY <1>1, <4>2 DEF Stretch
    <3>2. CASE DacTakes
      <4>1. Stream' = Stream
        BY <2>1, <3>2 DEF Stream, DacTakes, TypeOK
      <4> QED
        BY <1>1, <4>1 DEF Stretch
    <3>3. CASE buf' = buf
      <4>1. Stream' = buf
        BY <2>1, <3>3 DEF Stream, TypeOK
      <4> QED
        BY <1>1, <4>1, StreamPoints DEF Stretch
    <3> QED
      BY <2>1, <3>1, <3>2, <3>3
  <2> QED
    BY <2>1, <2>2 DEF Keeps
<1> QED
  BY <1>2, <1>3, <1>4, <1>5, <1>6 DEF Next, Driver, Dac

\* The order of the points is an invariant.
THEOREM OrderInvariance == Spec => []OrderInv
<1>1. Init => OrderInv
  <2> SUFFICES ASSUME Init PROVE OrderInv
    OBVIOUS
  <2>1. Stream = << >>
    BY DEF Init, Stream
  <2>2. Len(Stream) = 0
    BY <2>1
  <2> QED
    BY <2>2 DEF Init, OrderInv, CyclicOrder, FramesInv, CursorInv
<1>2. IInv /\ IInv' /\ OrderInv /\ [Next]_vars => OrderInv'
  <2> SUFFICES ASSUME IInv, IInv', OrderInv, [Next]_vars PROVE OrderInv'
    OBVIOUS
  <2>1. TypeOK /\ TypeOK' /\ KnownInv /\ BatchInv
    BY DEF IInv
  <2>2. CASE Fill
    BY <2>1, <2>2, FillInOrder
  <2>3. CASE ~Fill
    <3>1. shared' \in {shared, shared + 1}
      BY <2>1, <2>3, OtherSteps
    <3>2. PICK s \in Nat : Stretch(s) /\ Keeps(s)
      BY <2>1, <2>3, OtherSteps
    <3> QED
      BY <2>1, <3>1, <3>2, StretchInOrder
  <2> QED
    BY <2>2, <2>3
<1> QED
  BY <1>1, <1>2, Invariance, PTL DEF Spec

\* The beam never jumps inside an image: neighbouring points of one frame
\* follow each other, across batches, publications and failed connections.
THEOREM InOrder == Spec => []CyclicOrder
<1>1. OrderInv => CyclicOrder
  BY DEF OrderInv
<1> QED
  BY <1>1, OrderInvariance, PTL

-----------------------------------------------------------------------------
(* The picture on the wall.                                                *)

\* What is still to be played is no older than what is shown, and in the order
\* of publication.
PictureInv ==
    /\ shown <= shared
    /\ \A i \in 1..Len(Stream) : shown <= Stream[i].frame
    /\ \A i, j \in 1..Len(Stream) : i <= j => Stream[i].frame <= Stream[j].frame

\* A new batch leaves the stream as it is and adds points of the frame published last.
LEMMA FillFrames ==
    ASSUME TypeOK, KnownInv, BatchInv, Fill, NEW i \in 1..Len(Stream')
    PROVE  \/ i \in 1..Len(Stream) /\ Stream'[i] = Stream[i]
           \/ i > Len(Stream) /\ Stream'[i].frame = shared
<1>1. pc = "fill" /\ buf' = buf /\ batch = << >>
  BY DEF Fill, dacVars, BatchInv
<1>2. /\ buf \in Seq(Point) /\ batch' \in Seq(Point)
      /\ Len(buf) \in Nat /\ Len(batch') \in Nat
      /\ \A k \in 1..Len(batch') : batch'[k].frame = shared
  BY FillBatch DEF TypeOK
<1>3. Stream = buf /\ Stream' = buf \o batch'
  BY <1>1, <1>2 DEF Stream
<1>4. /\ Len(Stream') = Len(buf) + Len(batch')
      /\ \A k \in 1..Len(buf) : Stream'[k] = buf[k]
      /\ \A k \in 1..Len(batch') : Stream'[Len(buf) + k] = batch'[k]
  BY <1>2, <1>3, Concatenation
<1>5. CASE i \in 1..Len(buf)
  BY <1>3, <1>4, <1>5
<1>6. CASE i \notin 1..Len(buf)
  <2>1. i > Len(buf) /\ i - Len(buf) \in 1..Len(batch') /\ i = Len(buf) + (i - Len(buf))
    BY <1>2, <1>4, <1>6
  <2>2. Stream'[i] = batch'[i - Len(buf)]
    BY <1>4, <2>1
  <2> QED
    BY <1>2, <1>3, <2>1, <2>2
<1> QED
  BY <1>5, <1>6

\* What the DAC plays next.
LEMMA PlayedPoint ==
    ASSUME TypeOK, Play
    PROVE  1 \in 1..Len(Stream) /\ shown' = Stream[1].frame
<1>1. buf \in Seq(Point) /\ buf # << >> /\ shown' = Head(buf).frame
  BY DEF TypeOK, Play
<1>2. Len(buf) \in Nat \ {0} /\ Head(buf) = buf[1]
  BY <1>1
<1> QED
  BY <1>1, <1>2, StreamPoints

\* Every step keeps the picture in order.
LEMMA PictureStep ==
    ASSUME TypeOK, TypeOK', KnownInv, BatchInv, FramesInv, PictureInv, [Next]_vars
    PROVE  PictureInv'
<1>1. /\ shared \in Nat /\ shared' \in Nat /\ shown \in Nat /\ shown' \in Nat
      /\ Len(Stream) \in Nat
      /\ \A i \in 1..Len(Stream) : Stream[i].frame \in Nat
  BY StreamPoints, FrameAssumption DEF TypeOK
<1>2. CASE Fill
  <2>1. shared' = shared /\ shown' = shown
    BY <1>2 DEF Fill, dacVars
  <2>2. \A i \in 1..Len(Stream) : Stream[i].frame <= shared
    BY DEF FramesInv
  <2>3. ASSUME NEW i \in 1..Len(Stream') PROVE shown' <= Stream'[i].frame
    BY <1>1, <1>2, <2>1, FillFrames DEF PictureInv
  <2>4. ASSUME NEW i \in 1..Len(Stream'), NEW j \in 1..Len(Stream'), i <= j
        PROVE  Stream'[i].frame <= Stream'[j].frame
    <3>1. CASE j \in 1..Len(Stream)
      <4>1. i \in 1..Len(Stream)
        BY <1>1, <2>4, <3>1
      <4>2. Stream'[i] = Stream[i] /\ Stream'[j] = Stream[j]
        BY <1>1, <1>2, <3>1, <4>1, FillFrames
      <4> QED
        BY <2>4, <3>1, <4>1, <4>2 DEF PictureInv
    <3>2. CASE j \notin 1..Len(Stream)
      <4>1. Stream'[j].frame = shared
        BY <1>2, <3>2, FillFrames
      <4>2. Stream'[i].frame = shared \/ (i \in 1..Len(Stream) /\ Stream'[i] = Stream[i])
        BY <1>2, FillFrames
      <4> QED
        BY <1>1, <2>2, <4>1, <4>2
    <3> QED
      BY <3>1, <3>2
  <2> QED
    BY <2>1, <2>3, <2>4 DEF PictureInv
<1>3. CASE ~Fill
  <2>1. shared <= shared'
    BY <1>1, <1>3, OtherSteps
  <2>2. PICK s \in Nat : Stretch(s) /\ Keeps(s)
    BY <1>3, OtherSteps
  <2>3. Len(Stream') \in Nat
    <3>1. buf' \in Seq(Point) /\ batch' \in Seq(Point)
      BY DEF TypeOK
    <3> QED
      BY <3>1, Concatenation DEF Stream
  <2>4. \A i \in 1..Len(Stream') : i + s \in 1..Len(Stream) /\ Stream'[i] = Stream[i + s]
    BY <1>1, <2>2, <2>3 DEF Stretch
  <2>5. /\ shown' <= shared
        /\ \A i \in 1..Len(Stream) : shown' <= Stream[i].frame
    <3>1. CASE Play
      <4>1. 1 \in 1..Len(Stream) /\ shown' = Stream[1].frame
        BY <3>1, PlayedPoint
      <4> QED
        BY <1>1, <4>1 DEF FramesInv, PictureInv
    <3>2. CASE ~Play
      <4>1. shown' = shown
        BY <1>3, <3>2 DEF Next, Driver, Dac, Publish, Connect, ConnectFails, Prepare,
             Ping, Submit, StreamEnds, Backoff, Underflow, DacStops, LinkDrop, Reboot,
             AnswerLost, vars, dacVars
      <4> QED
        BY <4>1 DEF PictureInv
    <3> QED
      BY <3>1, <3>2
  <2>6. ASSUME NEW i \in 1..Len(Stream'), NEW j \in 1..Len(Stream'), i <= j
        PROVE  Stream'[i].frame <= Stream'[j].frame
    <3>1. i + s <= j + s
      BY <2>2, <2>6
    <3> QED
      BY <2>4, <3>1 DEF PictureInv
  <2> QED
    BY <1>1, <2>1, <2>4, <2>5, <2>6 DEF PictureInv
<1> QED
  BY <1>2, <1>3

\* The order of the picture is an invariant.
THEOREM PictureInvariance == Spec => []PictureInv
<1>1. Init => PictureInv
  <2> SUFFICES ASSUME Init PROVE PictureInv
    OBVIOUS
  <2>1. Stream = << >>
    BY DEF Init, Stream
  <2>2. Len(Stream) = 0
    BY <2>1
  <2> QED
    BY <2>2 DEF Init, PictureInv
<1>2. IInv /\ IInv' /\ OrderInv /\ PictureInv /\ [Next]_vars => PictureInv'
  BY PictureStep DEF IInv, OrderInv
<1> QED
  BY <1>1, <1>2, Invariance, OrderInvariance, PTL DEF Spec

\* The picture never goes back to an older frame and never runs ahead of what
\* is published, whatever is refused, underflows or fails (etherdream.rs).
THEOREM PictureInOrder == Spec => [][shown <= shown' /\ shown' <= shared]_shown
<1>1. IInv /\ OrderInv /\ PictureInv /\ [Next]_vars => [shown <= shown' /\ shown' <= shared]_shown
  <2> SUFFICES ASSUME IInv, OrderInv, PictureInv, Play
               PROVE  shown <= shown' /\ shown' <= shared
    BY DEF Next, Driver, Dac, Publish, Connect, ConnectFails, Prepare, Ping, Fill,
         Submit, StreamEnds, Backoff, Underflow, DacStops, LinkDrop, Reboot, AnswerLost,
         vars, dacVars
  <2>1. 1 \in 1..Len(Stream) /\ shown' = Stream[1].frame
    BY PlayedPoint DEF IInv
  <2> QED
    BY <2>1 DEF OrderInv, FramesInv, PictureInv
<1> QED
  BY <1>1, Invariance, OrderInvariance, PictureInvariance, PTL DEF Spec

=============================================================================

---------------------------- MODULE StreamingProofs ----------------------------
(***************************************************************************)
(* The host's stream: its session is torn down only for its own connection  *)
(* (HostSession), the stamps of its frames stay within the lead of the      *)
(* clock they follow (Timeline), and the points of a frame arrive as they   *)
(* were drawn (PointStream) - for frames of any length, sessions of any     *)
(* length, and any number of failures.                                     *)
(***************************************************************************)
EXTENDS HostSession, Timeline, PointStream, TLAPS

-----------------------------------------------------------------------------
(* The session.                                                            *)

\* The task is on a connection whenever it talks on one, and a wake-up that has
\* reached it is about that connection, which is over and stays so.
SessionInv ==
    /\ TypeOK
    /\ pc \notin {"start", "connect", "backoff"} => conn \in Conn
    /\ woken => pc = "wait" /\ (peer[conn] # "open" \/ broken[conn])

\* The session starts without a connection.
LEMMA SessionInit == Init => SessionInv
<1> SUFFICES ASSUME Init
             PROVE  SessionInv
    OBVIOUS
<1>1. 0 \in 0..ConfigMsgs /\ 0 \in 0..MaxFrame /\ 0 \in 0..MaxFaults
    BY BoundsAssumption DEF BoundsAssumption
<1>2. TypeOK
    BY <1>1 DEF Init, TypeOK
<1> QED BY <1>2 DEF Init, SessionInv

\* A failure uses up one of those there may be.
LEMMA FaultType ==
  ASSUME TypeOK, Fault
  PROVE  faults' \in 0..MaxFaults
  BY BoundsAssumption DEF BoundsAssumption, TypeOK, Fault

\* Every step keeps the task on its connection.
LEMMA SessionStep == SessionInv /\ [Next]_vars => SessionInv'
<1> SUFFICES ASSUME SessionInv, [Next]_vars
             PROVE  SessionInv'
    OBVIOUS
<1> USE BoundsAssumption DEF BoundsAssumption, SessionInv, taskVars, netVars
<1>1. CASE SetFrame
    BY <1>1 DEF SetFrame, TypeOK
<1>2. CASE Pause
    BY <1>2 DEF Pause, TypeOK
<1>3. CASE Connect
    BY <1>3 DEF Connect, TypeOK, Conn
<1>4. CASE ConnectFails
    BY <1>4, FaultType DEF ConnectFails, TypeOK
<1>5. CASE SendHandshake
    BY <1>5 DEF SendHandshake, Written, TypeOK
<1>6. CASE ReadReply
    BY <1>6 DEF ReadReply, TypeOK
<1>7. CASE ReplyFails
    BY <1>7, FaultType DEF ReplyFails, Abandon, TypeOK
<1>8. CASE SendConfig
    BY <1>8 DEF SendConfig, ConfigPending, Written, TypeOK
<1>9. CASE EnableOutput
    BY <1>9 DEF EnableOutput, Written, TypeOK, Streaming
<1>10. CASE SetupWriteFails
    BY <1>10 DEF SetupWriteFails, Abandon, TypeOK
<1>11. CASE OpenUdp
    BY <1>11 DEF OpenUdp, TypeOK, Streaming
<1>12. CASE OpenUdpFails
    BY <1>12, FaultType DEF OpenUdpFails, WriteHalfDropped, TypeOK
<1>13. CASE Slot
    BY <1>13 DEF Slot, TypeOK, Streaming
<1>14. CASE Death
    BY <1>14 DEF Death, TypeOK
<1>15. CASE SendFrame
    BY <1>15 DEF SendFrame, Borrowed, Written, TypeOK, Streaming
<1>16. CASE SendFrameFails
    BY <1>16, FaultType DEF SendFrameFails, TypeOK
<1>17. CASE KeepAlive
    BY <1>17 DEF KeepAlive, Written, TypeOK, Streaming
<1>18. CASE KeepAliveFails
    BY <1>18 DEF KeepAliveFails, TypeOK
<1>19. CASE Teardown
    BY <1>19 DEF Teardown, TypeOK
<1>20. CASE KeepTimer
    BY <1>20 DEF KeepTimer, TypeOK
<1>21. ASSUME NEW c \in Conn, ReaderEnds(c)
       PROVE  SessionInv'
  <2>1. TypeOK'
      BY <1>21 DEF ReaderEnds, Wakes, TypeOK
  <2>2. woken' => pc = "wait" /\ (peer[conn] # "open" \/ broken[conn])
      BY <1>21 DEF ReaderEnds, Wakes
  <2> QED BY <1>21, <2>1, <2>2 DEF ReaderEnds
<1>22. ASSUME NEW c \in Conn, DeviceCloses(c)
       PROVE  SessionInv'
    BY <1>22, FaultType DEF DeviceCloses, TypeOK
<1>23. ASSUME NEW c \in Conn, DeviceVanishes(c)
       PROVE  SessionInv'
    BY <1>23, FaultType DEF DeviceVanishes, TypeOK
<1>24. ASSUME NEW c \in Conn, DeviceSeesEnd(c)
       PROVE  SessionInv'
    BY <1>24 DEF DeviceSeesEnd, TypeOK
<1>25. ASSUME NEW c \in Conn, KernelGivesUp(c)
       PROVE  SessionInv'
    BY <1>25 DEF KernelGivesUp, TypeOK
<1>26. CASE UNCHANGED vars
    BY <1>26 DEF vars, TypeOK
<1> QED
  BY <1>1, <1>2, <1>3, <1>4, <1>5, <1>6, <1>7, <1>8, <1>9, <1>10, <1>11, <1>12, <1>13,
     <1>14, <1>15, <1>16, <1>17, <1>18, <1>19, <1>20, <1>21, <1>22, <1>23, <1>24, <1>25,
     <1>26
  DEF Next, Task

\* A wake-up belongs to the current connection in every state of the task, for
\* any number of failures.
THEOREM SessionInvariance == Spec => []SessionInv
  BY SessionInit, SessionStep, PTL DEF Spec

\* The variables of HostSession keep their types.
THEOREM SessionTypes == Spec => []TypeOK
<1>1. SessionInv => TypeOK
    BY DEF SessionInv
<1> QED BY <1>1, SessionInvariance, PTL

\* The task never gives up a connection it is waiting on that is still good:
\* whatever readers earlier sessions have left behind.
THEOREM OwnDeath == Spec => OwnDeathOnly
<1> DEFINE Due == pc = "wait" /\ pc' = "teardown" => peer[conn] # "open" \/ broken[conn]
<1>1. SessionInv /\ [Next]_vars => [Due]_pc
  <2> SUFFICES ASSUME SessionInv, [Next]_vars, pc = "wait", pc' = "teardown"
               PROVE  peer[conn] # "open" \/ broken[conn]
      OBVIOUS
  <2>1. Death
      BY DEF Next, Task, vars, taskVars, netVars, SetFrame, Pause, Connect, ConnectFails,
         SendHandshake, ReadReply, ReplyFails, Abandon, SendConfig, EnableOutput,
         SetupWriteFails, OpenUdp, OpenUdpFails, Slot, SendFrame, SendFrameFails, KeepAlive,
         KeepAliveFails, Teardown, KeepTimer, ReaderEnds, DeviceCloses, DeviceVanishes,
         DeviceSeesEnd, KernelGivesUp
  <2> QED BY <2>1 DEF Death, SessionInv
<1> QED
  BY <1>1, SessionInvariance, PTL DEF OwnDeathOnly, Spec

-----------------------------------------------------------------------------
(* The timeline.                                                           *)

\* A duration in units of the stamps is short of it by less than a unit.
LEMMA Truncated ==
    ASSUME NEW t \in Nat
    PROVE  /\ Acc(t) \in Nat
           /\ Acc(t) = t - (t % StampUnit)
           /\ t % StampUnit \in 0..(StampUnit - 1)
<1> DEFINE e == t \div StampUnit
           k == t % StampUnit
<1>1. e \in Nat /\ k \in 0..(StampUnit - 1) /\ t = StampUnit * e + k
  BY TimelineAssumption DEF TimelineAssumption
<1> HIDE DEF e, k
<1>2. StampUnit * e = t - k
  BY <1>1, TimelineAssumption DEF TimelineAssumption
<1>3. Acc(t) = t - k
  BY <1>2 DEF Acc, e
<1>4. StampUnit * e \in Nat
  BY <1>1, TimelineAssumption DEF TimelineAssumption
<1> QED
  BY <1>1, <1>2, <1>3, <1>4 DEF k

\* In units of the slots it is off by half a unit at most.
LEMMA Rounded ==
    ASSUME NEW t \in Nat
    PROVE  /\ Slept(t) \in Nat
           /\ Slept(t) - t <= SleepUnit \div 2
           /\ t - Slept(t) <= (SleepUnit - 1) \div 2
<1> DEFINE e == (2 * t + SleepUnit) \div (2 * SleepUnit)
           k == (2 * t + SleepUnit) % (2 * SleepUnit)
<1>1. SleepUnit \in Nat \ {0}
  BY TimelineAssumption DEF TimelineAssumption
<1>2. e \in Nat /\ k \in 0..(2 * SleepUnit - 1) /\ 2 * t + SleepUnit = (2 * SleepUnit) * e + k
  BY <1>1
<1> HIDE DEF e, k
<1>3. SleepUnit * e \in Nat /\ (2 * SleepUnit) * e = 2 * (SleepUnit * e)
  BY <1>1, <1>2
<1>4. PICK s \in Nat : s = SleepUnit * e
  BY <1>3
<1>5. 2 * t + SleepUnit = 2 * s + k
  BY <1>2, <1>3, <1>4
<1>6. s - t <= SleepUnit \div 2 /\ t - s <= (SleepUnit - 1) \div 2
  BY <1>1, <1>2, <1>5
<1>7. Slept(t) = s
  BY <1>4 DEF Slept, e
<1> QED
  BY <1>6, <1>7

\* A frame parts stamps and slots by a unit of the two resolutions at most.
LEMMA StepsPart ==
    ASSUME NEW span \in Nat
    PROVE  /\ TimelineStep(span) \in Nat /\ CadenceStep(span) \in Nat
           /\ TimelineStep(span) - CadenceStep(span) <= MaxGain
           /\ TimelineStep(span) - CadenceStep(span) >= -MaxLoss
<1>1. Gap \in Nat /\ StampUnit \in Nat \ {0} /\ SleepUnit \in Nat \ {0}
  BY TimelineAssumption DEF TimelineAssumption
<1>2. PICK g \in 0..(StampUnit - 1) : g = Gap % StampUnit /\ Acc(Gap) = Gap - g /\ Acc(Gap) \in Nat
  BY <1>1, Truncated
<1>3. PICK k \in 0..(StampUnit - 1) : Acc(span) = span - k /\ Acc(span) \in Nat
  BY Truncated
<1>4. PICK s \in Nat :
         /\ s = Slept(span)
         /\ s - span <= SleepUnit \div 2
         /\ span - s <= (SleepUnit - 1) \div 2
  BY Rounded
<1>5. TimelineStep(span) = (span - k) + (Gap - g) /\ TimelineStep(span) \in Nat
  BY <1>1, <1>2, <1>3 DEF TimelineStep
<1>6. CadenceStep(span) = s + Gap /\ CadenceStep(span) \in Nat
  BY <1>1, <1>4 DEF CadenceStep
<1>7. MaxGain = (SleepUnit - 1) \div 2 - g /\ MaxLoss = StampUnit - 1 + SleepUnit \div 2 + g
  BY <1>2 DEF MaxGain, MaxLoss
<1> HIDE DEF MaxGain, MaxLoss
<1> QED
  BY <1>1, <1>2, <1>3, <1>4, <1>5, <1>6, <1>7

LEMMA BoundsType == MaxGain \in Int /\ MaxLoss \in Int
  BY TimelineAssumption DEF TimelineAssumption, MaxGain, MaxLoss

\* One more frame, one more of its part.
LEMMA OneMore ==
    ASSUME NEW n \in Nat, NEW m \in Int
    PROVE  (n + 1) * m = n * m + m /\ n * m \in Int /\ (n + 1) * m \in Int
  OBVIOUS

\* The session starts without a clock and without a stream.
LEMMA TimelineStart == TimelineInit => TimelineInv
<1> SUFFICES ASSUME TimelineInit
             PROVE  TimelineInv
    OBVIOUS
<1>1. TimelineTypeOK
  <2>1. 0 \in Nat /\ 0 \in 0..MaxTime /\ 0 \in Int /\ 0..MaxUptime \subseteq Nat
      BY TimelineAssumption DEF TimelineAssumption
  <2>2. set \in BOOLEAN
      BY DEF TimelineInit
  <2>3. phase \in {"down", "config", "open", "stream"}
      BY DEF TimelineInit
  <2> QED BY <2>1, <2>2, <2>3 DEF TimelineInit, TimelineTypeOK
<1>2. BaseInv
    BY DEF TimelineInit, BaseInv
<1>3. StreamInv
    BY DEF TimelineInit, StreamInv
<1> QED BY <1>1, <1>2, <1>3 DEF TimelineInv

\* What the clock says is a time of the timeline.
LEMMA ClockType ==
  ASSUME TimelineTypeOK, BaseInv
  PROVE  /\ now - wall \in Nat
         /\ Clock \in Nat
         /\ set => Clock = base + Acc(now - wall)
<1>1. now - wall \in Nat
    BY DEF TimelineTypeOK, BaseInv
<1> QED BY <1>1, Truncated DEF TimelineTypeOK, Clock

\* The first frame: stamp and slot differ by what its span parts them.
LEMMA FirstFrame ==
  ASSUME TimelineInv, StampFrame, phase = "open"
  PROVE  StreamInv'
<1>1. PICK span \in Spans :
         timing' = Clock + Lead + TimelineStep(span) /\ next' = next + CadenceStep(span)
    BY DEF StampFrame, Stamp
<1>2. span \in Nat
    BY TimelineAssumption DEF TimelineAssumption
<1>3. PICK u \in Nat, v \in Nat :
         u = TimelineStep(span) /\ v = CadenceStep(span) /\ u - v <= MaxGain /\ u - v >= -MaxLoss
    BY <1>2, StepsPart
<1>4. /\ phase' = "stream" /\ seeded' = now /\ sent' = 1
      /\ UNCHANGED <<now, base, wall, set, begin>>
    BY DEF StampFrame, TimelineInv, StreamInv
<1>5. begin = next /\ begin <= now /\ begin \in Nat /\ base \in Nat /\ Lead \in Nat
    BY TimelineAssumption DEF TimelineInv, StreamInv, TimelineTypeOK, TimelineAssumption
<1>6. set => Parted' <= MaxGain /\ Parted' >= -MaxLoss
  <2> SUFFICES ASSUME set
               PROVE  Parted' <= MaxGain /\ Parted' >= -MaxLoss
      OBVIOUS
  <2>1. PICK a \in Nat : a = Acc(now - wall) /\ Clock = base + a
      BY ClockType, Truncated DEF TimelineInv
  <2>2. timing' = base + a + Lead + u /\ next' = next + v
      BY <1>1, <1>3, <2>1
  <2>3. Parted' = (timing' - (base + a + Lead)) - (next' - begin)
      BY <1>4, <2>1 DEF Parted, Acc
  <2>4. Parted' = u - v
      BY <1>3, <1>5, <2>2, <2>3
  <2> QED BY <1>3, <2>4
<1>7. sent' * MaxGain = MaxGain /\ sent' * MaxLoss = MaxLoss
    BY <1>4, BoundsType
<1>8. MaxGain' = MaxGain /\ MaxLoss' = MaxLoss
    BY DEF MaxGain, MaxLoss
<1>9. set' => Parted' <= sent' * MaxGain /\ Parted' >= -(sent' * MaxLoss)
    BY <1>4, <1>6, <1>7
<1>10. phase' = "stream" /\ begin' <= seeded' /\ wall' <= begin' /\ begin' <= now'
    BY <1>4, <1>5 DEF TimelineInv, StreamInv
<1> QED BY <1>8, <1>9, <1>10 DEF StreamInv

\* Every other frame adds its own part.
LEMMA LaterFrame ==
  ASSUME TimelineInv, StampFrame, phase = "stream"
  PROVE  StreamInv'
<1>1. PICK span \in Spans :
         timing' = timing + TimelineStep(span) /\ next' = next + CadenceStep(span)
    BY DEF StampFrame, Stamp
<1>2. span \in Nat
    BY TimelineAssumption DEF TimelineAssumption
<1>3. PICK u \in Nat, v \in Nat :
         u = TimelineStep(span) /\ v = CadenceStep(span) /\ u - v <= MaxGain /\ u - v >= -MaxLoss
    BY <1>2, StepsPart
<1>4. /\ phase' = "stream" /\ seeded' = seeded /\ sent' = sent + 1
      /\ UNCHANGED <<now, base, wall, set, begin>>
    BY DEF StampFrame
<1>5. begin <= seeded /\ (set => Parted <= sent * MaxGain /\ Parted >= -(sent * MaxLoss))
    BY DEF TimelineInv, StreamInv
<1>6. set => /\ Parted' <= sent * MaxGain + MaxGain
             /\ Parted' >= -(sent * MaxLoss + MaxLoss)
  <2> SUFFICES ASSUME set
               PROVE  /\ Parted' <= sent * MaxGain + MaxGain
                      /\ Parted' >= -(sent * MaxLoss + MaxLoss)
      OBVIOUS
  <2>1. wall <= begin
      BY DEF TimelineInv, StreamInv
  <2>2. seeded - wall \in Nat
      BY <1>5, <2>1 DEF TimelineInv, TimelineTypeOK
  <2>3. PICK a \in Nat : a = Acc(seeded - wall)
      BY <2>2, Truncated
  <2>4. PICK c \in Nat : c = base + a + Lead
      BY <2>3, TimelineAssumption DEF TimelineInv, TimelineTypeOK, TimelineAssumption
  <2>5. Parted = (timing - c) - (next - begin)
      BY <2>3, <2>4 DEF Parted
  <2>6. Parted' = (timing' - c) - (next' - begin)
      BY <1>4, <2>3, <2>4 DEF Parted, Acc
  <2>7. Parted' = Parted + (u - v) /\ Parted \in Int
      BY <1>1, <1>3, <2>5, <2>6 DEF TimelineInv, TimelineTypeOK
  <2>8. PICK p \in Int, q \in Int : p = sent * MaxGain /\ q = sent * MaxLoss
      BY BoundsType, OneMore DEF TimelineInv, TimelineTypeOK
  <2>9. Parted <= p /\ Parted >= -q
      BY <1>5, <2>8
  <2> QED BY <1>3, <2>7, <2>8, <2>9, BoundsType
<1>7. sent' * MaxGain = sent * MaxGain + MaxGain /\ sent' * MaxLoss = sent * MaxLoss + MaxLoss
    BY <1>4, BoundsType, OneMore DEF TimelineInv, TimelineTypeOK
<1>8. MaxGain' = MaxGain /\ MaxLoss' = MaxLoss
    BY DEF MaxGain, MaxLoss
<1>9. set' => Parted' <= sent' * MaxGain /\ Parted' >= -(sent' * MaxLoss)
    BY <1>4, <1>6, <1>7
<1>10. phase' = "stream" /\ begin' <= seeded' /\ wall' <= begin' /\ begin' <= now'
    BY <1>4, <1>5 DEF TimelineInv, StreamInv
<1> QED BY <1>8, <1>9, <1>10 DEF StreamInv

\* Every step keeps stamps, slots and the base together.
LEMMA TimelineAdvances == TimelineInv /\ [TimelineNext]_timelineVars => TimelineInv'
<1> SUFFICES ASSUME TimelineInv, [TimelineNext]_timelineVars
             PROVE  TimelineInv'
    OBVIOUS
<1> USE TimelineAssumption DEF TimelineAssumption, TimelineInv
<1>1. MaxGain' = MaxGain /\ MaxLoss' = MaxLoss
    BY DEF MaxGain, MaxLoss
<1>2. CASE Tick
  <2>1. PICK e \in Skews : device' = device + 1 + e /\ gained' = IF set THEN gained + e ELSE gained
      BY <1>2 DEF Tick
  <2>2. e \in Int /\ device' \in Nat /\ gained' \in Int
      BY <2>1 DEF TimelineTypeOK
  <2>3. /\ now' = now + 1 /\ now' \in 0..MaxTime
        /\ UNCHANGED <<base, wall, set, phase, timing, next, begin, seeded, sent>>
      BY <1>2 DEF Tick, streamVars, TimelineTypeOK
  <2>4. TimelineTypeOK'
      BY <2>2, <2>3 DEF TimelineTypeOK
  <2>5. BaseInv'
    <3>1. set => Extrapolated' - (now' - wall') = Extrapolated - (now - wall)
        BY <2>1, <2>2, <2>3 DEF Extrapolated, TimelineTypeOK
    <3>2. wall' <= now'
        BY <2>3 DEF TimelineTypeOK, BaseInv
    <3> QED BY <2>3, <3>1, <3>2 DEF BaseInv
  <2>6. Parted' = Parted
      BY <2>3 DEF Parted, Acc
  <2>7. StreamInv'
    <3>1. phase' \in {"open", "stream"} => wall' <= begin' /\ begin' <= now'
        BY <2>3 DEF StreamInv, TimelineTypeOK
    <3> QED BY <1>1, <2>3, <2>6, <3>1 DEF StreamInv
  <2> QED BY <2>4, <2>5, <2>7
<1>3. CASE DeviceRestarts
  <2>1. phase = "down" /\ ~set /\ device' = 0
        /\ UNCHANGED <<now, base, wall, set, phase, timing, next, begin, seeded, sent, gained>>
      BY <1>3 DEF DeviceRestarts, streamVars, BaseInv
  <2> QED BY <2>1 DEF TimelineTypeOK, BaseInv, StreamInv
<1>4. CASE Handshake
  <2>1. /\ phase = "down" /\ ~set /\ phase' = "config"
        /\ UNCHANGED <<now, device, timing, next, begin, seeded, sent>>
      BY <1>4 DEF Handshake, streamVars, BaseInv
  <2>2. StreamInv'
      BY <2>1 DEF StreamInv
  <2>3. CASE UNCHANGED <<base, wall, set, gained>>
      BY <2>1, <2>2, <2>3 DEF TimelineTypeOK, BaseInv
  <2>4. ASSUME NEW d \in 0..MaxDelay, device > d, base' = device - d,
               wall' = now, set' = TRUE, gained' = 0
        PROVE  TimelineInv'
    <3>1. base' \in Nat /\ base' <= device /\ device <= base' + MaxDelay
        BY <2>4 DEF TimelineTypeOK
    <3>2. TimelineTypeOK'
        BY <2>1, <2>4, <3>1 DEF TimelineTypeOK
    <3>3. Extrapolated' - (now' - wall') = device
        BY <2>1, <2>4 DEF Extrapolated, TimelineTypeOK
    <3>4. BaseInv'
        BY <2>1, <2>4, <3>1, <3>3 DEF BaseInv, TimelineTypeOK
    <3> QED BY <2>2, <3>2, <3>4
  <2> QED BY <1>4, <2>3, <2>4 DEF Handshake
<1>5. CASE StartStream
    BY <1>5 DEF StartStream, TimelineTypeOK, BaseInv, StreamInv, Extrapolated
<1>6. CASE StampFrame
  <2>1. PICK span \in Spans : timing' = Stamp + TimelineStep(span) /\ next' = next + CadenceStep(span)
      BY <1>6 DEF StampFrame
  <2>2. TimelineStep(span) \in Nat /\ CadenceStep(span) \in Nat
      BY StepsPart
  <2>3. Stamp \in Nat
      BY ClockType DEF Stamp, TimelineTypeOK
  <2>4. timing' \in Nat /\ next' \in Nat
      BY <2>1, <2>2, <2>3 DEF TimelineTypeOK
  <2>5. /\ phase' = "stream" /\ sent' = sent + 1 /\ seeded' \in 0..MaxTime
        /\ UNCHANGED <<now, device, base, wall, set, begin, gained>>
      BY <1>6 DEF StampFrame, TimelineTypeOK
  <2>6. TimelineTypeOK'
      BY <2>4, <2>5 DEF TimelineTypeOK
  <2>7. BaseInv'
      BY <1>6, <2>5 DEF BaseInv, Extrapolated, StampFrame
  <2>8. StreamInv'
      BY <1>6, FirstFrame, LaterFrame DEF StampFrame
  <2> QED BY <2>6, <2>7, <2>8
<1>7. CASE Disconnect
  <2>1. /\ phase' = "down" /\ set' = FALSE /\ sent' = 0
        /\ timing' = 0 /\ next' = 0 /\ begin' = 0 /\ seeded' = 0
        /\ UNCHANGED <<now, device, base, wall, gained>>
      BY <1>7 DEF Disconnect, Unset
  <2>2. 0 \in 0..MaxTime
      OBVIOUS
  <2> QED BY <2>1, <2>2 DEF TimelineTypeOK, BaseInv, StreamInv
<1>8. CASE UNCHANGED timelineVars
    BY <1>1, <1>8 DEF timelineVars, streamVars, TimelineTypeOK, BaseInv, StreamInv, Parted, Acc, Extrapolated
<1> QED BY <1>2, <1>3, <1>4, <1>5, <1>6, <1>7, <1>8 DEF TimelineNext

\* Stamps and slots part by no more than the two resolutions, frame by frame,
\* in every state of the session.
THEOREM TimelineInvariance == TimelineSpec => []TimelineInv
  BY TimelineStart, TimelineAdvances, PTL DEF TimelineSpec

\* What the invariant says of a stream whose device has told its time.
LEMMA StreamBounds ==
  ASSUME TimelineInv, phase = "stream", set
  PROVE  /\ Extrapolated \in Int /\ Parted \in Int
         /\ sent * MaxGain \in Int /\ sent * MaxLoss \in Int
         /\ Parted <= sent * MaxGain /\ Parted >= -(sent * MaxLoss)
         /\ \E a \in Nat :
              /\ a <= seeded - wall /\ seeded - wall <= a + (StampUnit - 1)
              /\ timing = Parted + (base + a + Lead) + (next - begin)
<1>1. wall <= begin /\ begin <= seeded
    BY DEF TimelineInv, StreamInv
<1>2. seeded - wall \in Nat
    BY <1>1 DEF TimelineInv, TimelineTypeOK
<1>3. PICK a \in Nat : a = Acc(seeded - wall)
    BY <1>2, Truncated
<1>4. a <= seeded - wall /\ seeded - wall <= a + (StampUnit - 1)
  <2>1. PICK k \in 0..(StampUnit - 1) : a = (seeded - wall) - k
      BY <1>2, <1>3, Truncated
  <2> QED BY <1>2, <2>1, TimelineAssumption DEF TimelineAssumption
<1>5. Parted = timing - (base + a + Lead) - (next - begin)
    BY <1>3 DEF Parted
<1>6. Parted \in Int /\ timing = Parted + (base + a + Lead) + (next - begin)
    BY <1>5, TimelineAssumption DEF TimelineInv, TimelineTypeOK, TimelineAssumption
<1>7. Extrapolated \in Int
    BY DEF Extrapolated, TimelineInv, TimelineTypeOK
<1>8. sent * MaxGain \in Int /\ sent * MaxLoss \in Int
    BY BoundsType DEF TimelineInv, TimelineTypeOK
<1> QED BY <1>4, <1>6, <1>7, <1>8 DEF TimelineInv, StreamInv

\* With any resolutions and any two crystals, no frame is stamped further ahead
\* of the device's clock than the lead, the lateness of the first frame, what the
\* resolutions give per frame and what the device's clock has drifted.
THEOREM LeadBounded == TimelineSpec => []NeverFarAhead
<1>1. TimelineInv => NeverFarAhead
  <2> SUFFICES ASSUME TimelineInv, phase = "stream", set
               PROVE  timing <= Extrapolated + Lead + (next - now) + (seeded - begin) + sent * MaxGain
      BY DEF NeverFarAhead
  <2>1. PICK x \in Int, g \in Int, p \in Int :
           x = Extrapolated /\ g = sent * MaxGain /\ p = Parted /\ p <= g
      BY StreamBounds
  <2>2. PICK a \in Nat : a <= seeded - wall /\ timing = p + (base + a + Lead) + (next - begin)
      BY <2>1, StreamBounds
  <2>3. base <= x - (now - wall)
      BY <2>1 DEF TimelineInv, BaseInv
  <2> QED
    BY <2>1, <2>2, <2>3, TimelineAssumption DEF TimelineInv, TimelineTypeOK, TimelineAssumption
<1> QED BY <1>1, TimelineInvariance, PTL

\* Nor, but for the time the handshake reply was under way, a unit of the stamps
\* and what the resolutions take per frame, later than its slot.
THEOREM LagBounded == TimelineSpec => []NeverBehind
<1>1. TimelineInv => NeverBehind
  <2> SUFFICES ASSUME TimelineInv, phase = "stream", set
               PROVE  timing >= Extrapolated + Lead + (next - now)
                                  - MaxDelay - (StampUnit - 1) - sent * MaxLoss
      BY DEF NeverBehind
  <2>1. PICK x \in Int, l \in Int, p \in Int :
           x = Extrapolated /\ l = sent * MaxLoss /\ p = Parted /\ p >= -l
      BY StreamBounds
  <2>2. PICK a \in Nat :
           /\ seeded - wall <= a + (StampUnit - 1)
           /\ timing = p + (base + a + Lead) + (next - begin)
      BY <2>1, StreamBounds
  <2>3. x - (now - wall) <= base + MaxDelay /\ begin <= seeded
      BY <2>1 DEF TimelineInv, BaseInv, StreamInv
  <2> QED
    BY <2>1, <2>2, <2>3, TimelineAssumption DEF TimelineInv, TimelineTypeOK, TimelineAssumption
<1> QED BY <1>1, TimelineInvariance, PTL

-----------------------------------------------------------------------------
(* The points.  Both sides follow the beam: what one sends is its way from  *)
(* one point to the next, and what the other keeps is where it is.          *)

\* Where the beam is after k points, in wire coordinates: a dwell point leaves it
\* where it was.
Beam(k) ==
    IF k = 0 \/ points = << >> THEN Start
    ELSE ToWire(points[IF k <= Len(points) THEN k ELSE Len(points)])

\* The k-th point in the body takes the beam from its last place to the next.
Follows(k) ==
    \A f \in Field :
      IF f \in body[k].fields THEN body[k].value[f] = Beam(k)[f]
                              ELSE Beam(k)[f] = Beam(k - 1)[f]

\* The first k points of the body end before byte pos[k].
Laid(pos) ==
    /\ pos \in [0..Len(body) -> Nat]
    /\ pos[0] = Header
    /\ \A k \in 1..Len(body) : pos[k] = pos[k - 1] + Size(body[k].fields)
    /\ \A k \in 0..Len(body) : pos[k] <= pos[Len(body)]

Measured(pos) == bytes = pos[Len(body)] + (IF stage \in {"serialize", "pad"} THEN 0 ELSE Footer)
Reached(pos) == stage \in {"parse", "done"} => off = pos[Len(parsed)]

LayoutInv == \E pos : Laid(pos) /\ Measured(pos) /\ Reached(pos)

BodyInv ==
    /\ IF stage = "serialize" THEN Len(body) = done
                              ELSE done = Len(points) /\ Len(body) >= done
    /\ prev = Beam(done)
    /\ \A k \in 1..Len(body) : Follows(k)

\* Bytes in the last block, were the body closed now.
Over == (bytes + Footer) % Block

\* Padding goes on while the last block is not full, so it is over after seven.
PadInv ==
    /\ stage = "pad" =>
         Len(body) - Len(points) <= IF Over = 0 THEN Block - 1 ELSE Over - 1
    /\ stage \notin {"serialize", "pad"} =>
         /\ bytes % Block = 0
         /\ Len(body) - Len(points) < Block
         /\ count = CountField

CipherInv ==
    /\ stage = "decrypt" =>
         cipher = <<[plain |-> 0, chain |-> 0]>> \o
                    [i \in 1..(bytes \div Block) |-> [plain |-> i, chain |-> i]]
    /\ stage \in {"parse", "done"} => text = [i \in 1..(bytes \div Block) |-> i]

ParseInv ==
    /\ stage \notin {"parse", "done"} => parsed = << >>
    /\ Len(parsed) <= Len(body)
    /\ cur = Beam(Len(parsed))
    /\ \A k \in 1..Len(parsed) : parsed[k] = FromWire(Beam(k))
    /\ IF stage = "done"
       THEN /\ Len(parsed) = Len(body)
            /\ dac = [k \in 1..Len(parsed) |-> ToDacPoint(parsed[k], invert)]
       ELSE dac = << >>

PointInv == PointTypeOK /\ LayoutInv /\ BodyInv /\ PadInv /\ CipherInv /\ ParseInv

\* A point fits on the wire and comes back from it as it was.
LEMMA WireType ==
  ASSUME NEW p \in Point
  PROVE  ToWire(p) \in Wire /\ FromWire(ToWire(p)) = p /\ p \in InField
<1>1. p.x \in (-Center)..(Center - 1) /\ p.y \in (-Center)..(Center - 1) /\ p.color \in Color
    BY PointAssumption DEF PointAssumption, Point
<1>2. p = [x |-> p.x, y |-> p.y, color |-> p.color]
    BY DEF Point
<1>3. ToWire(p) = [x |-> p.x + Center, y |-> p.y + Center, color |-> p.color]
    BY DEF ToWire
<1>4. FromWire(ToWire(p)) = [x |-> (p.x + Center) - Center, y |-> (p.y + Center) - Center,
                             color |-> p.color]
    BY <1>3 DEF FromWire
<1>5. (p.x + Center) - Center = p.x /\ (p.y + Center) - Center = p.y
    BY <1>1, PointAssumption DEF PointAssumption
<1>6. p.x + Center \in 0..(2 * Center - 1) /\ p.y + Center \in 0..(2 * Center - 1)
    BY <1>1, PointAssumption DEF PointAssumption
<1>7. ToWire(p) \in Wire
    BY <1>1, <1>3, <1>6 DEF Wire
<1>8. FromWire(ToWire(p)) = p
    BY <1>2, <1>4, <1>5
<1>9. p \in InField
    BY <1>1, <1>2 DEF InField
<1> QED BY <1>7, <1>8, <1>9

\* Whatever comes from the wire is in the field.
LEMMA FieldType ==
  ASSUME NEW w \in Wire
  PROVE  FromWire(w) \in InField
<1>1. w.x \in 0..(2 * Center - 1) /\ w.y \in 0..(2 * Center - 1) /\ w.color \in Color
    BY DEF Wire
<1>2. FromWire(w) = [x |-> w.x - Center, y |-> w.y - Center, color |-> w.color]
    BY DEF FromWire
<1>3. w.x - Center \in (-Center)..(Center - 1) /\ w.y - Center \in (-Center)..(Center - 1)
    BY <1>1, PointAssumption DEF PointAssumption
<1> QED BY <1>1, <1>2, <1>3 DEF InField

\* The beam starts in the corner.
LEMMA StartType == Start \in Wire
<1>1. 0 \in 0..(2 * Center - 1) /\ 0 \in Color
    BY PointAssumption DEF PointAssumption
<1> QED BY <1>1 DEF Start, Wire

\* The beam stays in the field.
LEMMA BeamType ==
  ASSUME points \in Seq(Point), NEW k \in Nat
  PROVE  Beam(k) \in Wire
<1>1. CASE k = 0 \/ points = << >>
    BY <1>1, StartType DEF Beam
<1>2. CASE ~(k = 0 \/ points = << >>)
  <2>1. (IF k <= Len(points) THEN k ELSE Len(points)) \in 1..Len(points)
      BY <1>2
  <2>2. points[IF k <= Len(points) THEN k ELSE Len(points)] \in Point
      BY <2>1
  <2> QED BY <1>2, <2>2, WireType DEF Beam
<1> QED BY <1>1, <1>2

\* What the beam draws are the points, and then it rests.
LEMMA BeamDraws ==
  ASSUME points \in Seq(Point), NEW k \in Nat \ {0}
  PROVE  FromWire(Beam(k)) = IF k <= Len(points) THEN points[k] ELSE Resting
<1>1. CASE points = << >>
    BY <1>1 DEF Beam, Resting
<1>2. CASE points # << >>
  <2>1. (IF k <= Len(points) THEN k ELSE Len(points)) \in 1..Len(points)
      BY <1>2
  <2>2. points[IF k <= Len(points) THEN k ELSE Len(points)] \in Point
      BY <2>1
  <2>3. FromWire(Beam(k)) = points[IF k <= Len(points) THEN k ELSE Len(points)]
      BY <1>2, <2>2, WireType DEF Beam
  <2> QED BY <1>2, <2>3 DEF Resting
<1> QED BY <1>1, <1>2

\* A point needs a byte at least.
LEMMA SizeType ==
  ASSUME NEW fields
  PROVE  Size(fields) \in Nat /\ Size(fields) >= 1
  BY DEF Size

\* What the fields before the end of a point need, the point needs.
LEMMA SizeGrows ==
  ASSUME NEW some, NEW fields, some \subseteq fields
  PROVE  Size(some) <= Size(fields)
  BY DEF Size

\* Two places of the wire that agree in every field are the same.
LEMMA WireEqual ==
  ASSUME NEW v \in Wire, NEW g, g = [f \in Field |-> v[f]]
  PROVE  g = v
  BY DEF Wire, Field

Item == [fields : SUBSET Field, value : Wire]

\* The types of the two sequences the proofs take apart.
LEMMA BodyType ==
  ASSUME PointTypeOK
  PROVE  /\ body \in Seq(Item) /\ Len(body) \in Nat
         /\ parsed \in Seq(InField) /\ Len(parsed) \in Nat
         /\ points \in Seq(Point) /\ Len(points) \in Nat
         /\ bytes \in Nat /\ off \in Nat
  BY DEF PointTypeOK, Item

\* Points do not move once they are drawn.
LEMMA SameBeam ==
  ASSUME points' = points
  PROVE  \A k : Beam(k)' = Beam(k)
  BY DEF Beam

\* What is left as it was still follows the beam.
LEMMA BodyKept ==
  ASSUME points' = points, body' = body, NEW k, Follows(k)
  PROVE  Follows(k)'
  BY SameBeam DEF Follows

\* What lies in the body stays where it is when a point is added.
LEMMA Longer ==
  ASSUME body \in Seq(Item), NEW r \in Item, body' = Append(body, r), NEW pos, Laid(pos)
  PROVE  \E q : Laid(q)' /\ q[Len(body')] = pos[Len(body)] + Size(r.fields)
<1> DEFINE n == Len(body)
<1>1. /\ n \in Nat /\ Len(body') = n + 1 /\ body'[n + 1] = r
      /\ \A k \in 1..n : body'[k] = body[k]
    OBVIOUS
<1>2. Size(r.fields) \in Nat
    BY SizeType
<1>3. /\ pos \in [0..n -> Nat] /\ pos[0] = Header
      /\ \A k \in 1..n : pos[k] = pos[k - 1] + Size(body[k].fields)
      /\ \A k \in 0..n : pos[k] <= pos[n]
    BY DEF Laid
<1> HIDE DEF n
<1>4. pos[n] \in Nat
    BY <1>1, <1>3
<1>5. PICK q : q = [k \in 0..(n + 1) |-> IF k = n + 1 THEN pos[n] + Size(r.fields) ELSE pos[k]]
    OBVIOUS
<1>6. q \in [0..(n + 1) -> Nat] /\ q[0] = Header
    BY <1>1, <1>2, <1>3, <1>4, <1>5
<1>7. q[n + 1] = pos[n] + Size(r.fields)
    BY <1>1, <1>5
<1>8. \A k \in 1..(n + 1) : q[k] = q[k - 1] + Size(body'[k].fields)
  <2> TAKE k \in 1..(n + 1)
  <2>1. CASE k = n + 1
    <3>1. k - 1 = n /\ k - 1 # n + 1 /\ k - 1 \in 0..(n + 1)
        BY <1>1, <2>1
    <3>2. q[k - 1] = pos[n]
        BY <1>5, <3>1
    <3> QED BY <1>1, <1>7, <2>1, <3>2
  <2>2. CASE k # n + 1
    <3>1. k \in 1..n /\ k - 1 \in 0..n /\ k - 1 # n + 1 /\ k - 1 \in 0..(n + 1) /\ k \in 0..(n + 1)
        BY <1>1, <2>2
    <3>2. q[k] = pos[k] /\ q[k - 1] = pos[k - 1]
        BY <1>5, <2>2, <3>1
    <3> QED BY <1>1, <1>3, <3>1, <3>2
  <2> QED BY <2>1, <2>2
<1>9. \A k \in 0..(n + 1) : q[k] <= q[n + 1]
  <2> TAKE k \in 0..(n + 1)
  <2>1. CASE k = n + 1
      BY <1>2, <1>4, <1>7, <2>1
  <2>2. CASE k # n + 1
    <3>1. k \in 0..n /\ q[k] = pos[k]
        BY <1>1, <1>5, <2>2
    <3>2. pos[k] \in Nat /\ pos[k] <= pos[n]
        BY <1>3, <3>1
    <3> QED BY <1>2, <1>4, <1>7, <3>1, <3>2
  <2> QED BY <2>1, <2>2
<1>10. Laid(q)'
    BY <1>1, <1>6, <1>8, <1>9 DEF Laid
<1> QED BY <1>1, <1>7, <1>10 DEF n

\* The layout holds on while the body does.
LEMMA LayoutKept ==
  ASSUME body' = body, NEW pos, Laid(pos)
  PROVE  Laid(pos)'
  BY DEF Laid

\* The body is no longer touched once it is padded.
LEMMA BodyStays ==
  ASSUME BodyInv, UNCHANGED <<points, body, prev, done>>, stage # "serialize",
         stage' # "serialize"
  PROVE  BodyInv'
<1>1. (prev = Beam(done))'
    BY SameBeam DEF BodyInv
<1>2. \A k \in 1..Len(body) : Follows(k)'
    BY BodyKept DEF BodyInv
<1> QED BY <1>1, <1>2 DEF BodyInv

\* Before the first point nothing is laid out, and the beam is in the corner.
LEMMA PointStart == PointInit => PointInv
<1> SUFFICES ASSUME PointInit
             PROVE  PointInv
    OBVIOUS
<1>1. Len(body) = 0 /\ Len(parsed) = 0 /\ body = << >> /\ parsed = << >>
    BY DEF PointInit
<1>2. PointTypeOK
  <2>1. points \in Seq(Point)
    <3>1. PICK n \in 0..MaxPoints : points \in [1..n -> Point]
        BY DEF PointInit
    <3>2. n \in Nat
        BY PointAssumption DEF PointAssumption
    <3> QED BY <3>1, <3>2
  <2>2. 0 \in 0..(CountMod - 1) /\ Header \in Nat
      BY PointAssumption DEF PointAssumption, Header
  <2>3. 0 \in 0..Len(points)
      BY <2>1
  <2>4. /\ body \in Seq([fields : SUBSET Field, value : Wire])
        /\ cipher \in Seq([plain : Nat, chain : Nat]) /\ text \in Seq(Nat)
        /\ parsed \in Seq(InField) /\ dac \in Seq([x : Int, y : Int, color : Nat])
      BY DEF PointInit
  <2> QED BY <2>1, <2>2, <2>3, <2>4, StartType DEF PointInit, PointTypeOK
<1>3. LayoutInv
  <2> DEFINE pos == [k \in 0..0 |-> Header]
  <2>1. Laid(pos)
      BY <1>1 DEF Laid, Header
  <2>2. Measured(pos) /\ Reached(pos)
      BY <1>1 DEF PointInit, Measured, Reached, Header
  <2> QED BY <2>1, <2>2 DEF LayoutInv
<1>4. BodyInv
    BY <1>1 DEF PointInit, BodyInv, Beam
<1>5. PadInv /\ CipherInv
    BY DEF PointInit, PadInv, CipherInv
<1>6. ParseInv
    BY <1>1 DEF PointInit, ParseInv, Beam
<1> QED BY <1>2, <1>3, <1>4, <1>5, <1>6 DEF PointInv

\* A point is put into the body as the way from the last one.
LEMMA SerializeStep == PointInv /\ Serialize => PointInv'
<1> SUFFICES ASSUME PointInv, Serialize
             PROVE  PointInv'
    OBVIOUS
<1> DEFINE p == ToWire(points[done + 1])
           r == [fields |-> Changed(p), value |-> p]
<1>1. /\ PointTypeOK /\ LayoutInv /\ BodyInv /\ ParseInv
      /\ stage = "serialize" /\ stage' = "serialize" /\ done < Len(points)
      /\ done' = done + 1 /\ prev' = p /\ body' = Append(body, r)
      /\ bytes' = bytes + Size(Changed(p))
      /\ UNCHANGED <<points, invert, count, cipher, text, off, cur, parsed, dac>>
    BY DEF PointInv, Serialize
<1>2. /\ done \in Nat /\ done + 1 \in 1..Len(points) /\ Len(body) = done
      /\ body \in Seq(Item) /\ bytes \in Nat /\ points \in Seq(Point)
    BY <1>1, BodyType DEF PointTypeOK, BodyInv
<1>3. p \in Wire /\ p = Beam(done + 1)
  <2>1. points[done + 1] \in Point /\ points # << >> /\ done + 1 <= Len(points)
      BY <1>2
  <2> QED BY <1>2, <2>1, WireType DEF Beam
<1>4. Changed(p) \in SUBSET Field
    BY DEF Changed
<1>5. r \in Item
    BY <1>3, <1>4 DEF Item
<1>6. \A f \in Field : f \notin Changed(p) => p[f] = prev[f]
    BY DEF Changed
<1>7. prev = Beam(done)
    BY <1>1 DEF BodyInv
<1> HIDE DEF p
<1>8. Len(body') = done + 1 /\ body'[done + 1] = r /\ \A k \in 1..done : body'[k] = body[k]
    BY <1>1, <1>2, <1>5
<1>9. PointTypeOK'
  <2>1. body' \in Seq([fields : SUBSET Field, value : Wire])
      BY <1>1, <1>2, <1>5 DEF Item
  <2>2. bytes' \in Nat
      BY <1>1, <1>2, SizeType
  <2>3. done' \in 0..Len(points)
      BY <1>1, <1>2
  <2> QED BY <1>1, <1>3, <2>1, <2>2, <2>3 DEF PointTypeOK
<1>10. LayoutInv'
  <2>1. PICK pos : Laid(pos) /\ Measured(pos) /\ Reached(pos)
      BY <1>1 DEF LayoutInv
  <2>2. PICK q : Laid(q)' /\ q[Len(body')] = pos[Len(body)] + Size(r.fields)
      BY <1>1, <1>2, <1>5, <2>1, Longer
  <2>3. bytes = pos[Len(body)] + 0
      BY <1>1, <2>1 DEF Measured
  <2>4. pos[Len(body)] \in Nat
      BY <1>2, <2>1 DEF Laid
  <2>5. bytes' = q[Len(body')] + 0
      BY <1>1, <2>2, <2>3, <2>4, SizeType
  <2>6. Measured(q)' /\ Reached(q)'
      BY <1>1, <2>5 DEF Measured, Reached
  <2> QED BY <2>2, <2>6 DEF LayoutInv
<1>11. BodyInv'
  <2>1. \A k \in 1..(done + 1) : Follows(k)'
    <3> TAKE k \in 1..(done + 1)
    <3>1. CASE k = done + 1
      <4>1. k - 1 = done
          BY <1>2, <3>1
      <4>2. Beam(k)' = p /\ Beam(k - 1)' = prev
          BY <1>1, <1>3, <1>7, <3>1, <4>1, SameBeam
      <4> QED BY <1>6, <1>8, <3>1, <4>2 DEF Follows
    <3>2. CASE k # done + 1
      <4>1. k \in 1..done
          BY <1>2, <3>2
      <4>2. body'[k] = body[k] /\ Follows(k)
          BY <1>1, <1>2, <1>8, <4>1 DEF BodyInv
      <4>3. Beam(k)' = Beam(k) /\ Beam(k - 1)' = Beam(k - 1)
          BY <1>1, SameBeam
      <4> QED BY <4>2, <4>3 DEF Follows
    <3> QED BY <3>1, <3>2
  <2>2. (prev = Beam(done))'
      BY <1>1, <1>3 DEF Beam
  <2> QED BY <1>1, <1>8, <2>1, <2>2 DEF BodyInv
<1>12. PadInv' /\ CipherInv'
    BY <1>1 DEF PadInv, CipherInv
<1>13. ParseInv'
    BY <1>1, <1>2, <1>8, SameBeam DEF ParseInv
<1> QED BY <1>9, <1>10, <1>11, <1>12, <1>13 DEF PointInv

\* The last point is in the body.
LEMMA SerializeEndsStep == PointInv /\ SerializeEnds => PointInv'
<1> SUFFICES ASSUME PointInv, SerializeEnds
             PROVE  PointInv'
    OBVIOUS
<1>1. /\ PointTypeOK /\ LayoutInv /\ BodyInv /\ ParseInv
      /\ stage = "serialize" /\ stage' = "pad" /\ done = Len(points)
      /\ UNCHANGED <<points, invert, prev, done, bytes, body, count, cipher, text, off,
                     cur, parsed, dac>>
    BY DEF PointInv, SerializeEnds
<1>2. Len(body) = done /\ done \in Nat /\ bytes \in Nat
    BY <1>1, BodyType DEF PointTypeOK, BodyInv
<1>3. PointTypeOK'
    BY <1>1 DEF PointTypeOK
<1>4. LayoutInv'
  <2>1. PICK pos : Laid(pos) /\ Measured(pos) /\ Reached(pos)
      BY <1>1 DEF LayoutInv
  <2>2. Laid(pos)' /\ Measured(pos)' /\ Reached(pos)'
      BY <1>1, <2>1, LayoutKept DEF Measured, Reached
  <2> QED BY <2>2 DEF LayoutInv
<1>5. BodyInv'
  <2>1. (prev = Beam(done))'
      BY <1>1, SameBeam DEF BodyInv
  <2>2. \A k \in 1..Len(body) : Follows(k)'
      BY <1>1, BodyKept DEF BodyInv
  <2> QED BY <1>1, <1>2, <2>1, <2>2 DEF BodyInv
<1>6. PadInv'
  <2>1. Len(body') - Len(points') = 0
      BY <1>1, <1>2
  <2>2. 0 <= IF (bytes + 6) % 8 = 0 THEN 7 ELSE ((bytes + 6) % 8) - 1
      BY <1>2
  <2>3. 0 <= IF Over' = 0 THEN Block - 1 ELSE Over' - 1
      BY <1>1, <2>2 DEF Over, Footer, Block
  <2> QED BY <1>1, <2>1, <2>3 DEF PadInv
<1>7. CipherInv'
    BY <1>1 DEF CipherInv
<1>8. ParseInv'
    BY <1>1, SameBeam DEF ParseInv
<1> QED BY <1>3, <1>4, <1>5, <1>6, <1>7, <1>8 DEF PointInv

\* A dwell point does not move the beam, and fills one more byte.
LEMMA PadStep == PointInv /\ Pad => PointInv'
<1> SUFFICES ASSUME PointInv, Pad
             PROVE  PointInv'
    OBVIOUS
<1> DEFINE r == [fields |-> {}, value |-> Start]
           n == Len(body)
<1>1. /\ PointTypeOK /\ LayoutInv /\ BodyInv /\ PadInv /\ ParseInv
      /\ stage = "pad" /\ stage' = "pad" /\ ~FullBlocks
      /\ body' = Append(body, r) /\ bytes' = bytes + Size({})
      /\ UNCHANGED <<points, invert, prev, done, count, cipher, text, off, cur, parsed, dac>>
    BY DEF PointInv, Pad
<1>2. /\ n \in Nat /\ body \in Seq(Item) /\ bytes \in Nat
      /\ points \in Seq(Point) /\ Len(points) \in Nat
      /\ done = Len(points) /\ n >= done
    BY <1>1, BodyType DEF BodyInv
<1>3. r \in Item
    BY StartType DEF Item
<1>4. Len(body') = n + 1 /\ body'[n + 1] = r /\ \A k \in 1..n : body'[k] = body[k]
    BY <1>1, <1>2, <1>3
<1>5. Size({}) = 1
    BY DEF Size
<1>6. PointTypeOK'
  <2>1. body' \in Seq([fields : SUBSET Field, value : Wire])
      BY <1>1, <1>2, <1>3 DEF Item
  <2> QED BY <1>1, <1>2, <1>5, <2>1 DEF PointTypeOK
<1>7. LayoutInv'
  <2>1. PICK pos : Laid(pos) /\ Measured(pos) /\ Reached(pos)
      BY <1>1 DEF LayoutInv
  <2>2. PICK q : Laid(q)' /\ q[Len(body')] = pos[Len(body)] + Size(r.fields)
      BY <1>1, <1>2, <1>3, <2>1, Longer
  <2>3. bytes = pos[n] + 0
      BY <1>1, <2>1 DEF Measured
  <2>4. pos[n] \in Nat
      BY <1>2, <2>1 DEF Laid
  <2>5. bytes' = q[Len(body')] + 0
      BY <1>1, <1>5, <2>2, <2>3, <2>4
  <2>6. Measured(q)' /\ Reached(q)'
      BY <1>1, <2>5 DEF Measured, Reached
  <2> QED BY <2>2, <2>6 DEF LayoutInv
<1>8. BodyInv'
  <2>1. \A k \in 1..(n + 1) : Follows(k)'
    <3> TAKE k \in 1..(n + 1)
    <3>1. Beam(k)' = Beam(k) /\ Beam(k - 1)' = Beam(k - 1)
        BY <1>1, SameBeam
    <3>2. CASE k = n + 1
      <4>1. k # 0 /\ k > Len(points) /\ k - 1 >= Len(points)
            /\ (k - 1 <= Len(points) => k - 1 = Len(points))
          BY <1>2, <3>2
      <4>2. Beam(k) = Beam(k - 1)
        <5>1. CASE points = << >>
            BY <5>1 DEF Beam
        <5>2. CASE points # << >>
          <6>1. Len(points) # 0
              BY <1>2, <5>2
          <6>2. k - 1 # 0 /\ ~(k <= Len(points))
              BY <1>2, <4>1, <6>1
          <6> QED BY <4>1, <5>2, <6>2 DEF Beam
        <5> QED BY <5>1, <5>2
      <4> QED BY <1>4, <3>1, <3>2, <4>2 DEF Follows
    <3>3. CASE k # n + 1
      <4>1. k \in 1..n
          BY <1>2, <3>3
      <4>2. body'[k] = body[k] /\ Follows(k)
          BY <1>1, <1>4, <4>1 DEF BodyInv
      <4> QED BY <3>1, <4>2 DEF Follows
    <3> QED BY <3>2, <3>3
  <2>2. (prev = Beam(done))'
      BY <1>1, SameBeam DEF BodyInv
  <2> QED BY <1>1, <1>2, <1>4, <2>1, <2>2 DEF BodyInv
<1>9. PadInv'
  <2>1. (bytes + 6) % 8 # 0 /\ (bytes' + 6) % 8 = ((bytes + 6) + 1) % 8
      BY <1>1, <1>2, <1>5 DEF FullBlocks, Footer, Block
  <2>2. n - Len(points) <= ((bytes + 6) % 8) - 1
      BY <1>1, <2>1 DEF PadInv, Over, Footer, Block
  <2>3. LET m == (bytes + 6) % 8
            o == (bytes' + 6) % 8
        IN  m \in 1..7 /\ o = IF m = 7 THEN 0 ELSE m + 1
      BY <1>2, <2>1
  <2>4. (n + 1) - Len(points) <= IF (bytes' + 6) % 8 = 0 THEN 7 ELSE ((bytes' + 6) % 8) - 1
      BY <1>2, <2>2, <2>3
  <2>5. Len(body') - Len(points') <= IF Over' = 0 THEN Block - 1 ELSE Over' - 1
      BY <1>1, <1>4, <2>4 DEF Over, Footer, Block
  <2> QED BY <1>1, <2>5 DEF PadInv
<1>10. CipherInv'
    BY <1>1 DEF CipherInv
<1>11. ParseInv'
  <2>1. Len(parsed) <= n /\ Len(parsed) \in Nat
      BY <1>1, BodyType DEF ParseInv
  <2>2. Len(parsed') <= Len(body')
      BY <1>1, <1>2, <1>4, <2>1
  <2> QED BY <1>1, <2>2, SameBeam DEF ParseInv
<1> QED BY <1>6, <1>7, <1>8, <1>9, <1>10, <1>11 DEF PointInv

\* The footer fills the last block.
LEMMA PadEndsStep == PointInv /\ PadEnds => PointInv'
<1> SUFFICES ASSUME PointInv, PadEnds
             PROVE  PointInv'
    OBVIOUS
<1>1. /\ PointTypeOK /\ LayoutInv /\ BodyInv /\ PadInv /\ ParseInv
      /\ stage = "pad" /\ stage' = "encrypt" /\ FullBlocks
      /\ count' = CountField /\ bytes' = bytes + Footer
      /\ UNCHANGED <<points, invert, prev, done, body, cipher, text, off, cur, parsed, dac>>
    BY DEF PointInv, PadEnds
<1>2. Len(body) \in Nat /\ bytes \in Nat /\ Len(points) \in Nat
    BY <1>1, BodyType
<1>3. PointTypeOK'
  <2>1. count' \in 0..(CountMod - 1)
      BY <1>1, <1>2, PointAssumption DEF PointAssumption, CountField
  <2>2. bytes' \in Nat
      BY <1>1, <1>2 DEF Footer
  <2> QED BY <1>1, <2>1, <2>2 DEF PointTypeOK
<1>4. LayoutInv'
  <2>1. PICK pos : Laid(pos) /\ Measured(pos) /\ Reached(pos)
      BY <1>1 DEF LayoutInv
  <2>2. bytes = pos[Len(body)] + 0 /\ pos[Len(body)] \in Nat
      BY <1>1, <1>2, <2>1 DEF Measured, Laid
  <2>3. bytes' = pos[Len(body')] + Footer
      BY <1>1, <2>2 DEF Footer
  <2>4. Laid(pos)' /\ Measured(pos)' /\ Reached(pos)'
      BY <1>1, <2>1, <2>3, LayoutKept DEF Measured, Reached
  <2> QED BY <2>4 DEF LayoutInv
<1>5. BodyInv'
  <2>1. (prev = Beam(done))'
      BY <1>1, SameBeam DEF BodyInv
  <2>2. \A k \in 1..Len(body) : Follows(k)'
      BY <1>1, BodyKept DEF BodyInv
  <2> QED BY <1>1, <2>1, <2>2 DEF BodyInv
<1>6. PadInv'
  <2>1. bytes' % Block = 0
      BY <1>1 DEF FullBlocks
  <2>2. Len(body) - Len(points) < Block
      BY <1>1, <1>2 DEF PadInv, FullBlocks, Over, Footer, Block
  <2> QED BY <1>1, <2>1, <2>2 DEF PadInv, CountField
<1>7. CipherInv'
    BY <1>1 DEF CipherInv
<1>8. ParseInv'
    BY <1>1, SameBeam DEF ParseInv
<1> QED BY <1>3, <1>4, <1>5, <1>6, <1>7, <1>8 DEF PointInv

\* The blocks of the cipher, without the iv, are a sequence.
LEMMA BlocksType ==
  ASSUME NEW m \in Nat, NEW sealed, sealed = [i \in 1..m |-> [plain |-> i, chain |-> i]]
  PROVE  /\ sealed \in Seq([plain : Nat, chain : Nat]) /\ Len(sealed) = m
         /\ \A i \in 1..m : sealed[i].plain = i /\ sealed[i].chain = i
<1>1. \A i \in 1..m : i \in Nat /\ [plain |-> i, chain |-> i] \in [plain : Nat, chain : Nat]
    OBVIOUS
<1>2. sealed \in [1..m -> [plain : Nat, chain : Nat]]
    BY <1>1
<1>3. \A i \in 1..m : sealed[i] = [plain |-> i, chain |-> i]
    OBVIOUS
<1>4. sealed \in Seq([plain : Nat, chain : Nat]) /\ Len(sealed) = m
    BY <1>2
<1>5. \A i \in 1..m : sealed[i].plain = i /\ sealed[i].chain = i
    BY <1>3
<1> QED BY <1>4, <1>5

\* As many blocks go out as the body fills, each chained to the one before.
LEMMA EncryptStep == PointInv /\ Encrypt => PointInv'
<1> SUFFICES ASSUME PointInv, Encrypt
             PROVE  PointInv'
    OBVIOUS
<1> DEFINE Block0 == [plain |-> 0, chain |-> 0]
           m == bytes \div Block
           sealed == [i \in 1..m |-> [plain |-> i, chain |-> i]]
<1>1. /\ PointTypeOK /\ LayoutInv /\ BodyInv /\ PadInv /\ ParseInv
      /\ stage = "encrypt" /\ stage' = "decrypt"
      /\ cipher' = <<Block0>> \o sealed
      /\ UNCHANGED <<points, invert, prev, done, bytes, body, count, text, off, cur,
                     parsed, dac>>
    BY DEF PointInv, Encrypt
<1>2. PointTypeOK'
  <2>1. m \in Nat
      BY <1>1, BodyType DEF Block
  <2>2. <<Block0>> \in Seq([plain : Nat, chain : Nat])
      OBVIOUS
  <2>3. sealed \in Seq([plain : Nat, chain : Nat])
      BY <2>1, BlocksType
  <2> HIDE DEF sealed, Block0
  <2>4. cipher' \in Seq([plain : Nat, chain : Nat])
      BY <1>1, <2>2, <2>3
  <2> QED BY <1>1, <2>4 DEF PointTypeOK
<1>3. LayoutInv'
  <2>1. PICK pos : Laid(pos) /\ Measured(pos) /\ Reached(pos)
      BY <1>1 DEF LayoutInv
  <2>2. Laid(pos)' /\ Measured(pos)' /\ Reached(pos)'
      BY <1>1, <2>1, LayoutKept DEF Measured, Reached
  <2> QED BY <2>2 DEF LayoutInv
<1>4. BodyInv'
    BY <1>1, BodyStays
<1>5. PadInv'
    BY <1>1 DEF PadInv, CountField
<1>6. CipherInv'
    BY <1>1 DEF CipherInv
<1>7. ParseInv'
    BY <1>1, SameBeam DEF ParseInv
<1> QED BY <1>2, <1>3, <1>4, <1>5, <1>6, <1>7 DEF PointInv

\* Each block is taken against the one it was chained to.
LEMMA DecryptStep == PointInv /\ Decrypt => PointInv'
<1> SUFFICES ASSUME PointInv, Decrypt
             PROVE  PointInv'
    OBVIOUS
<1> DEFINE Block0 == [plain |-> 0, chain |-> 0]
           m == bytes \div Block
           sealed == [i \in 1..m |-> [plain |-> i, chain |-> i]]
<1>1. /\ PointTypeOK /\ LayoutInv /\ BodyInv /\ PadInv /\ CipherInv /\ ParseInv
      /\ stage = "decrypt" /\ stage' = "parse" /\ off' = Header
      /\ text' = [i \in 1..(Len(cipher) - 1) |->
                    IF cipher[i + 1].chain = i THEN cipher[i + 1].plain ELSE 0]
      /\ UNCHANGED <<points, invert, prev, done, bytes, body, count, cipher, cur, parsed, dac>>
    BY DEF PointInv, Decrypt
<1>2. cipher = <<Block0>> \o sealed
    BY <1>1 DEF CipherInv
<1>3. m \in Nat
    BY <1>1, BodyType DEF Block
<1>4. text' = [i \in 1..m |-> i]
  <2>1. /\ sealed \in Seq([plain : Nat, chain : Nat]) /\ Len(sealed) = m
        /\ \A i \in 1..m : sealed[i].plain = i /\ sealed[i].chain = i
      BY <1>3, BlocksType
  <2>2. <<Block0>> \in Seq([plain : Nat, chain : Nat]) /\ Len(<<Block0>>) = 1
      OBVIOUS
  <2> HIDE DEF sealed, Block0, m
  <2>3. Len(cipher) = m + 1 /\ \A i \in 1..m : cipher[i + 1] = sealed[i]
      BY <1>2, <1>3, <2>1, <2>2
  <2>4. Len(cipher) - 1 = m
      BY <1>3, <2>3
  <2>5. \A i \in 1..m : cipher[i + 1].chain = i /\ cipher[i + 1].plain = i
      BY <2>1, <2>3
  <2> QED BY <1>1, <2>4, <2>5
<1>5. PointTypeOK'
  <2>1. text' \in Seq(Nat)
      BY <1>3, <1>4
  <2>2. off' \in Nat
      BY <1>1 DEF Header
  <2> QED BY <1>1, <2>1, <2>2 DEF PointTypeOK
<1>6. LayoutInv'
  <2>1. PICK pos : Laid(pos) /\ Measured(pos) /\ Reached(pos)
      BY <1>1 DEF LayoutInv
  <2>2. Len(parsed') = 0
      BY <1>1 DEF ParseInv
  <2>3. off' = pos[Len(parsed')]
      BY <1>1, <2>1, <2>2 DEF Laid
  <2>4. Laid(pos)' /\ Measured(pos)' /\ Reached(pos)'
      BY <1>1, <2>1, <2>3, LayoutKept DEF Measured, Reached
  <2> QED BY <2>4 DEF LayoutInv
<1>7. BodyInv'
    BY <1>1, BodyStays
<1>8. PadInv'
    BY <1>1 DEF PadInv, CountField
<1>9. CipherInv'
    BY <1>1, <1>4 DEF CipherInv
<1>10. ParseInv'
    BY <1>1, SameBeam DEF ParseInv
<1> QED BY <1>5, <1>6, <1>7, <1>8, <1>9, <1>10 DEF PointInv

\* The text is the body with its footer, block by block.
LEMMA TextFull ==
  ASSUME PointInv, stage \in {"parse", "done"}
  PROVE  /\ Len(text) \in Nat /\ Block * Len(text) = bytes
         /\ text = [i \in 1..Len(text) |-> i]
<1>1. bytes \in Nat /\ bytes % 8 = 0
    BY BodyType DEF PointInv, PadInv, Block
<1>2. text = [i \in 1..(bytes \div 8) |-> i]
    BY DEF PointInv, CipherInv, Block
<1>3. bytes \div 8 \in Nat /\ 8 * (bytes \div 8) = bytes
    BY <1>1
<1>4. Len(text) = bytes \div 8
    BY <1>2, <1>3
<1> QED BY <1>2, <1>3, <1>4 DEF Block

\* So it holds every point, and is never over before the body.
LEMMA TextHolds ==
  ASSUME PointInv, stage = "parse", NEW pos, Laid(pos), Measured(pos), Reached(pos)
  PROVE  /\ \A k \in 0..Len(body) : pos[k] \in Nat /\ pos[k] + Footer <= Block * Len(text)
         /\ off < Block * Len(text)
<1>1. Len(parsed) \in 0..Len(body) /\ Len(body) \in Nat
    BY BodyType DEF PointInv, ParseInv
<1>2. Block * Len(text) = pos[Len(body)] + 6
    BY TextFull DEF Measured, Footer
<1>3. \A k \in 0..Len(body) : pos[k] \in Nat /\ pos[k] <= pos[Len(body)]
    BY DEF Laid
<1>4. pos[Len(body)] \in Nat
    BY <1>1, <1>3
<1>5. \A k \in 0..Len(body) : pos[k] \in Nat /\ pos[k] + Footer <= Block * Len(text)
    BY <1>2, <1>3, <1>4 DEF Footer
<1>6. off = pos[Len(parsed)]
    BY DEF Reached
<1>7. Block * Len(text) \in Nat
    BY TextFull, BodyType DEF PointInv
<1>8. off \in Nat /\ off + 6 <= Block * Len(text)
    BY <1>1, <1>5, <1>6 DEF Footer
<1>9. off < Block * Len(text)
    BY <1>7, <1>8
<1> QED BY <1>5, <1>9

\* So a point is read with all its fields.
LEMMA AllReadable ==
  ASSUME PointInv, stage = "parse", Len(parsed) < Len(body), NEW pos, Laid(pos),
         Measured(pos), Reached(pos)
  PROVE  /\ Readable = body[Len(parsed) + 1].fields
         /\ off + Size(Readable) = pos[Len(parsed) + 1]
<1> DEFINE n == Len(parsed)
           b == body[n + 1].fields
<1>1. n \in Nat /\ Len(body) \in Nat /\ n + 1 \in 1..Len(body) /\ n + 1 \in 0..Len(body)
    BY BodyType DEF PointInv
<1>2. (n + 1) - 1 = n
    BY <1>1
<1>3. off = pos[n] /\ off \in Nat
    BY BodyType DEF PointInv, Reached
<1>4. pos[n + 1] = pos[n] + Size(b)
    BY <1>1, <1>2 DEF Laid
<1>5. off + Size(b) + Footer <= Block * Len(text) /\ Block * Len(text) \in Nat
    BY <1>1, <1>3, <1>4, TextHolds, TextFull, BodyType DEF PointInv, Block
<1>6. \A some \in SUBSET b : off + Size(some) <= Block * Len(text)
    BY <1>3, <1>5, SizeGrows, SizeType DEF Footer
<1>7. Readable = b
    BY <1>6 DEF Readable
<1> QED BY <1>3, <1>4, <1>7

\* Where the parser's values were the beam's, they are so after the next point.
LEMMA ParseStep == PointInv /\ Parse => PointInv'
<1> SUFFICES ASSUME PointInv, Parse
             PROVE  PointInv'
    OBVIOUS
<1> DEFINE n == Len(parsed)
           b == body[n + 1]
<1>1. /\ PointTypeOK /\ LayoutInv /\ BodyInv /\ PadInv /\ CipherInv /\ ParseInv
      /\ stage = "parse" /\ n < Len(body)
      /\ cur' = [f \in Field |-> IF f \in Readable THEN b.value[f] ELSE cur[f]]
      /\ off' = off + Size(Readable) /\ parsed' = Append(parsed, FromWire(cur'))
      /\ UNCHANGED <<points, invert, stage, prev, done, bytes, body, count, cipher, text, dac>>
    BY DEF PointInv, Parse
<1>2. PICK pos : Laid(pos) /\ Measured(pos) /\ Reached(pos)
    BY <1>1 DEF LayoutInv
<1>3. Readable = b.fields /\ off' = pos[n + 1]
    BY <1>1, <1>2, AllReadable
<1>4. /\ n \in Nat /\ Len(body) \in Nat /\ n + 1 \in 1..Len(body) /\ (n + 1) - 1 = n
      /\ parsed \in Seq(InField) /\ points \in Seq(Point) /\ off \in Nat
    BY <1>1, BodyType
<1>5. cur' = Beam(n + 1)
  <2>1. Beam(n + 1) \in Wire
      BY <1>4, BeamType
  <2>2. Follows(n + 1) /\ cur = Beam(n)
      BY <1>1, <1>4 DEF BodyInv, ParseInv
  <2>3. \A f \in Field : (IF f \in Readable THEN b.value[f] ELSE cur[f]) = Beam(n + 1)[f]
      BY <1>3, <1>4, <2>2 DEF Follows
  <2>4. cur' = [f \in Field |-> Beam(n + 1)[f]]
      BY <1>1, <2>3
  <2> QED BY <2>1, <2>4, WireEqual
<1>6. cur' \in Wire /\ FromWire(cur') \in InField
    BY <1>4, <1>5, BeamType, FieldType
<1>7. /\ Len(parsed') = n + 1 /\ parsed'[n + 1] = FromWire(cur')
      /\ \A k \in 1..n : parsed'[k] = parsed[k]
    BY <1>1, <1>4, <1>6
<1>8. PointTypeOK'
  <2>1. parsed' \in Seq(InField)
      BY <1>1, <1>4, <1>6
  <2>2. off' \in Nat
      BY <1>1, <1>4, SizeType
  <2> QED BY <1>1, <1>6, <2>1, <2>2 DEF PointTypeOK
<1>9. LayoutInv'
  <2>1. Laid(pos)' /\ Measured(pos)' /\ Reached(pos)'
      BY <1>1, <1>2, <1>3, <1>7, LayoutKept DEF Measured, Reached
  <2> QED BY <2>1 DEF LayoutInv
<1>10. BodyInv'
    BY <1>1, BodyStays
<1>11. PadInv' /\ CipherInv'
    BY <1>1 DEF PadInv, CipherInv, CountField
<1>12. ParseInv'
  <2>1. Len(parsed') <= Len(body')
      BY <1>1, <1>4, <1>7
  <2>2. (cur = Beam(Len(parsed)))'
      BY <1>1, <1>5, <1>7 DEF Beam
  <2>3. \A k \in 1..(n + 1) : parsed'[k] = FromWire(Beam(k))
    <3> TAKE k \in 1..(n + 1)
    <3>1. CASE k = n + 1
        BY <1>5, <1>7, <3>1
    <3>2. CASE k # n + 1
      <4>1. k \in 1..n
          BY <1>4, <3>2
      <4> QED BY <1>1, <1>7, <4>1 DEF ParseInv
    <3> QED BY <3>1, <3>2
  <2>4. \A k : FromWire(Beam(k))' = FromWire(Beam(k))
      BY <1>1, SameBeam DEF FromWire
  <2>5. (\A k \in 1..Len(parsed) : parsed[k] = FromWire(Beam(k)))'
      BY <1>7, <2>3, <2>4
  <2>6. stage' = "parse" /\ dac' = << >>
      BY <1>1 DEF ParseInv
  <2> QED BY <2>1, <2>2, <2>5, <2>6 DEF ParseInv
<1> QED BY <1>8, <1>9, <1>10, <1>11, <1>12 DEF PointInv

\* What is given to the DAC has the form of a point.
LEMMA DacType ==
  ASSUME NEW p \in InField, NEW inverted \in BOOLEAN
  PROVE  ToDacPoint(p, inverted) \in [x : Int, y : Int, color : Nat]
<1>1. p.x \in (-Center)..(Center - 1) /\ p.y \in (-Center)..(Center - 1) /\ p.color \in Color
    BY DEF InField
<1>2. \A v \in (-Center)..(Center - 1) : v \in Int
    BY PointAssumption DEF PointAssumption
<1>3. \A v \in Color : v \in Nat
    BY PointAssumption DEF PointAssumption
<1>4. p.x \in Int /\ p.y \in Int /\ p.color \in Nat
    BY <1>1, <1>2, <1>3
<1>5. Negate(p.y) \in Int
    BY <1>4, PointAssumption DEF PointAssumption, Negate
<1>6. p.color * 257 \in Nat
    BY <1>4
<1> QED BY <1>4, <1>5, <1>6 DEF ToDacPoint, Scale

\* The points end where the body does, never with the text.
LEMMA ParseEndsStep == PointInv /\ ParseEnds => PointInv'
<1> SUFFICES ASSUME PointInv, ParseEnds
             PROVE  PointInv'
    OBVIOUS
<1>1. /\ PointTypeOK /\ LayoutInv /\ BodyInv /\ PadInv /\ CipherInv /\ ParseInv
      /\ stage = "parse" /\ stage' = "done"
      /\ Len(parsed) = Len(body) \/ off >= Block * Len(text)
      /\ dac' = [k \in 1..Len(parsed) |-> ToDacPoint(parsed[k], invert)]
      /\ UNCHANGED <<points, invert, prev, done, bytes, body, count, cipher, text, off,
                     cur, parsed>>
    BY DEF PointInv, ParseEnds
<1>2. PICK pos : Laid(pos) /\ Measured(pos) /\ Reached(pos)
    BY <1>1 DEF LayoutInv
<1>3. Len(parsed) = Len(body)
  <2>1. off < Block * Len(text) /\ off \in Nat /\ Block * Len(text) \in Nat
      BY <1>1, <1>2, TextHolds, TextFull, BodyType DEF Block
  <2> QED BY <1>1, <2>1
<1>4. PointTypeOK'
  <2>1. parsed \in Seq(InField) /\ Len(parsed) \in Nat /\ invert \in BOOLEAN
      BY <1>1, BodyType DEF PointTypeOK
  <2>2. \A k \in 1..Len(parsed) : ToDacPoint(parsed[k], invert) \in [x : Int, y : Int, color : Nat]
      BY <2>1, DacType
  <2>3. dac' \in Seq([x : Int, y : Int, color : Nat])
      BY <1>1, <2>1, <2>2
  <2> QED BY <1>1, <2>3 DEF PointTypeOK
<1>5. LayoutInv'
  <2>1. Laid(pos)' /\ Measured(pos)' /\ Reached(pos)'
      BY <1>1, <1>2, LayoutKept DEF Measured, Reached
  <2> QED BY <2>1 DEF LayoutInv
<1>6. BodyInv'
    BY <1>1, BodyStays
<1>7. PadInv' /\ CipherInv'
    BY <1>1 DEF PadInv, CipherInv, CountField
<1>8. ParseInv'
  <2>1. \A k : FromWire(Beam(k))' = FromWire(Beam(k))
      BY <1>1, SameBeam DEF FromWire
  <2>2. (cur = Beam(Len(parsed)))'
      BY <1>1, SameBeam DEF ParseInv
  <2>3. (\A k \in 1..Len(parsed) : parsed[k] = FromWire(Beam(k)))'
      BY <1>1, <2>1 DEF ParseInv
  <2>4. (dac = [k \in 1..Len(parsed) |-> ToDacPoint(parsed[k], invert)])'
      BY <1>1 DEF ToDacPoint, Negate, Scale
  <2>5. (Len(parsed) = Len(body) /\ Len(parsed) <= Len(body))'
      BY <1>1, <1>3, BodyType
  <2> QED BY <1>1, <2>2, <2>3, <2>4, <2>5 DEF ParseInv
<1> QED BY <1>4, <1>5, <1>6, <1>7, <1>8 DEF PointInv

\* Where nothing changes, everything holds on.
LEMMA PointRests == PointInv /\ UNCHANGED pointVars => PointInv'
<1> SUFFICES ASSUME PointInv, UNCHANGED pointVars
             PROVE  PointInv'
    OBVIOUS
<1>1. /\ PointTypeOK /\ LayoutInv /\ BodyInv /\ PadInv /\ CipherInv /\ ParseInv
      /\ UNCHANGED <<points, invert, stage, prev, done, bytes, body, count, cipher, text,
                     off, cur, parsed, dac>>
    BY DEF PointInv, pointVars
<1>2. PointTypeOK'
    BY <1>1 DEF PointTypeOK
<1>3. LayoutInv'
  <2>1. PICK pos : Laid(pos) /\ Measured(pos) /\ Reached(pos)
      BY <1>1 DEF LayoutInv
  <2>2. Laid(pos)' /\ Measured(pos)' /\ Reached(pos)'
      BY <1>1, <2>1, LayoutKept DEF Measured, Reached
  <2> QED BY <2>2 DEF LayoutInv
<1>4. BodyInv'
  <2>1. (prev = Beam(done))'
      BY <1>1, SameBeam DEF BodyInv
  <2>2. \A k \in 1..Len(body) : Follows(k)'
      BY <1>1, BodyKept DEF BodyInv
  <2> QED BY <1>1, <2>1, <2>2 DEF BodyInv
<1>5. PadInv' /\ CipherInv'
    BY <1>1 DEF PadInv, CipherInv, CountField, Over
<1>6. ParseInv'
  <2>1. \A k : FromWire(Beam(k))' = FromWire(Beam(k))
      BY <1>1, SameBeam DEF FromWire
  <2>2. (cur = Beam(Len(parsed)))'
      BY <1>1, SameBeam DEF ParseInv
  <2>3. (\A k \in 1..Len(parsed) : parsed[k] = FromWire(Beam(k)))'
      BY <1>1, <2>1 DEF ParseInv
  <2>4. stage = "done" => (dac = [k \in 1..Len(parsed) |-> ToDacPoint(parsed[k], invert)])'
      BY <1>1 DEF ParseInv, ToDacPoint, Negate, Scale
  <2> QED BY <1>1, <2>2, <2>3, <2>4 DEF ParseInv
<1> QED BY <1>2, <1>3, <1>4, <1>5, <1>6 DEF PointInv

\* Both sides follow the beam in every state, for frames of any length: the
\* invariant the three theorems below rest on.
THEOREM PointInvariance == PointSpec => []PointInv
<1>1. PointInv /\ [PointNext]_pointVars => PointInv'
  BY SerializeStep, SerializeEndsStep, PadStep, PadEndsStep, EncryptStep, DecryptStep,
     ParseStep, ParseEndsStep, PointRests
  DEF PointNext
<1> QED BY <1>1, PointStart, PTL DEF PointSpec

\* Frames of any length arrive point by point as they were drawn, with nothing
\* added but a dwell at the last point.
THEOREM RoundTrips == PointSpec => []RoundTrip
<1>1. PointInv => RoundTrip
  <2> SUFFICES ASSUME PointInv
               PROVE  RoundTrip
      OBVIOUS
  <2>1. \A k \in 1..Len(parsed) : parsed[k] = IF k <= Len(points) THEN points[k] ELSE Resting
    <3> TAKE k \in 1..Len(parsed)
    <3>1. k \in Nat \ {0} /\ points \in Seq(Point)
        BY BodyType DEF PointInv
    <3>2. parsed[k] = FromWire(Beam(k))
        BY DEF PointInv, ParseInv
    <3> QED BY <3>1, <3>2, BeamDraws
  <2>2. ASSUME stage = "done"
        PROVE  Len(parsed) >= Len(points) /\ count = Len(parsed) % CountMod
    <3>1. Len(parsed) = Len(body) /\ Len(body) >= Len(points)
        BY <2>2 DEF PointInv, ParseInv, BodyInv
    <3>2. count = Len(body) % CountMod
        BY <2>2 DEF PointInv, PadInv, CountField
    <3> QED BY <3>1, <3>2
  <2> QED BY <2>1, <2>2 DEF RoundTrip
<1> QED BY <1>1, PointInvariance, PTL

\* For frames of any length what is decrypted is the whole body and nothing
\* else, and the padding adds fewer points than a block has bytes.
THEOREM BodyWhole == PointSpec => []BodyRecovered
<1>1. PointInv => BodyRecovered
  <2> SUFFICES ASSUME PointInv, stage \in {"parse", "done"}
               PROVE  /\ bytes = Block * Len(text)
                      /\ text = [i \in 1..Len(text) |-> i]
                      /\ Len(body) \in Len(points)..(Len(points) + Block - 1)
      BY DEF BodyRecovered
  <2>1. Len(body) \in Nat /\ Len(points) \in Nat
      BY BodyType DEF PointInv
  <2>2. Len(body) >= Len(points) /\ Len(body) - Len(points) < 8
      BY DEF PointInv, BodyInv, PadInv, Block
  <2>3. Len(body) \in Len(points)..(Len(points) + Block - 1)
      BY <2>1, <2>2 DEF Block
  <2> QED BY <2>3, TextFull
<1> QED BY <1>1, PointInvariance, PTL

\* For a field of any size the DAC is given points inside it, with colours of 16
\* bits, and dark ones where the picture is dark.
THEOREM DacDraws == PointSpec => []DacInRange
<1>1. PointInv => DacInRange
  <2> SUFFICES ASSUME PointInv, NEW k \in 1..Len(dac)
               PROVE  /\ dac[k].y \in (-Center)..(Center - 1)
                      /\ invert /\ parsed[k].y # -Center => Negate(dac[k].y) = parsed[k].y
                      /\ dac[k].color < 65536
                      /\ dac[k].color = 0 <=> parsed[k].color = 0
      BY DEF DacInRange
  <2>1. /\ parsed \in Seq(InField) /\ Len(parsed) \in Nat
        /\ dac # << >> => dac = [i \in 1..Len(parsed) |-> ToDacPoint(parsed[i], invert)]
      BY BodyType DEF PointInv, ParseInv
  <2>2. dac = [i \in 1..Len(parsed) |-> ToDacPoint(parsed[i], invert)]
      BY <2>1
  <2>3. k \in 1..Len(parsed)
      BY <2>1, <2>2
  <2>4. parsed[k] \in InField /\ dac[k] = ToDacPoint(parsed[k], invert)
      BY <2>1, <2>2, <2>3
  <2>5. parsed[k].y \in (-Center)..(Center - 1) /\ parsed[k].color \in 0..255
      BY <2>4, PointAssumption DEF PointAssumption, InField
  <2>6. /\ dac[k].y = IF invert THEN Negate(parsed[k].y) ELSE parsed[k].y
        /\ dac[k].color = parsed[k].color * 257
      BY <2>4 DEF ToDacPoint, Scale
  <2>7. \A y \in (-Center)..(Center - 1) :
          /\ Negate(y) \in (-Center)..(Center - 1)
          /\ y # -Center => Negate(Negate(y)) = y
      BY PointAssumption DEF PointAssumption, Negate
  <2>8. dac[k].y \in (-Center)..(Center - 1)
        /\ (invert /\ parsed[k].y # -Center => Negate(dac[k].y) = parsed[k].y)
      BY <2>5, <2>6, <2>7
  <2>9. dac[k].color < 65536 /\ (dac[k].color = 0 <=> parsed[k].color = 0)
    <3>1. PICK v \in 0..255 : v = parsed[k].color
        BY <2>5
    <3>2. PICK w : w = v * 257 /\ w = dac[k].color
        BY <2>6, <3>1
    <3>3. w < 65536 /\ (w = 0 <=> v = 0)
        BY <3>2
    <3> QED BY <3>1, <3>2, <3>3
  <2> QED BY <2>8, <2>9
<1> QED BY <1>1, PointInvariance, PTL

=============================================================================

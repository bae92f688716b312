----------------------------- MODULE SegmentProofs -----------------------------
(***************************************************************************)
(* Manager: for any number of devices, found and added in any order and as  *)
(* often as one likes, every device keeps its one entry, its index and,     *)
(* once it is known, its serial.                                           *)
(*                                                                         *)
(* Segment: what goes on in the network only ever tells the manager of      *)
(* devices, so the table keeps all this on the segment too, with any number *)
(* of emulators, other FB4s and hosts.                                     *)
(***************************************************************************)
EXTENDS Segment, TLAPS

\* The address read at an index is the one that stands there.
AimInv == aim # None => aim.idx \in DOMAIN devices /\ devices[aim.idx].ip = aim.ip

TableInv == ManagerTypeOK /\ OneSessionPerDevice /\ AimInv

\* A table that differs from `old` by one ensure_device.
Grown(old, new) ==
    /\ new \in Seq(DeviceInfo)
    /\ \A i \in DOMAIN old :
         /\ i \in DOMAIN new
         /\ new[i].ip = old[i].ip
         /\ old[i].serial => new[i] = old[i]
    /\ \A i, j \in DOMAIN new : new[i].ip = new[j].ip => i = j

-----------------------------------------------------------------------------
\* The entries of the table are devices.
LEMMA ElementType ==
  ASSUME devices \in Seq(DeviceInfo), NEW i \in DOMAIN devices
  PROVE  devices[i] \in DeviceInfo /\ i \in Nat
  OBVIOUS

\* ensure_device keeps every entry in its place and with its serial, and adds
\* an entry only for a device that has none.
LEMMA EnsureGrows ==
  ASSUME NEW dev \in DeviceInfo, devices \in Seq(DeviceInfo), OneSessionPerDevice
  PROVE  Grown(devices, Ensure(dev))
<1> USE DEF DeviceInfo
<1>1. CASE \E i \in DOMAIN devices : devices[i].ip = dev.ip
  <2> DEFINE new == [i \in DOMAIN devices |->
                       IF devices[i].ip = dev.ip /\ dev.serial THEN dev ELSE devices[i]]
  <2>1. Ensure(dev) = new
      BY <1>1 DEF Ensure
  <2>2. DOMAIN new = 1..Len(devices) /\ Len(devices) \in Nat
      OBVIOUS
  <2>3. ASSUME NEW i \in DOMAIN devices
        PROVE  /\ new[i] \in DeviceInfo
               /\ new[i].ip = devices[i].ip
               /\ devices[i].serial => new[i] = devices[i]
    <3>1. devices[i] \in DeviceInfo
        BY ElementType
    <3>2. CASE devices[i].ip = dev.ip /\ dev.serial
      <4>1. PICK a \in Device, b \in BOOLEAN : devices[i] = [ip |-> a, serial |-> b]
          BY <3>1
      <4>2. PICK c \in Device, d \in BOOLEAN : dev = [ip |-> c, serial |-> d]
          OBVIOUS
      <4>3. devices[i].serial => devices[i] = dev
          BY <3>2, <4>1, <4>2
      <4> QED BY <3>2, <4>3
    <3>3. CASE ~(devices[i].ip = dev.ip /\ dev.serial)
        BY <3>1, <3>3
    <3> QED BY <3>2, <3>3
  <2>4. new \in Seq(DeviceInfo)
      BY <2>2, <2>3
  <2> HIDE DEF new
  <2>5. DOMAIN new = DOMAIN devices
      BY DEF new
  <2>6. \A i, j \in DOMAIN new : new[i].ip = new[j].ip => i = j
      BY <2>3, <2>5 DEF OneSessionPerDevice
  <2> QED BY <2>1, <2>3, <2>4, <2>5, <2>6 DEF Grown
<1>2. CASE ~\E i \in DOMAIN devices : devices[i].ip = dev.ip
  <2>1. Ensure(dev) = Append(devices, dev)
      BY <1>2 DEF Ensure
  <2>2. Append(devices, dev) \in Seq(DeviceInfo)
      OBVIOUS
  <2>3. \A i \in DOMAIN devices :
          i \in DOMAIN Append(devices, dev) /\ Append(devices, dev)[i] = devices[i]
      OBVIOUS
  <2>4. \A i, j \in DOMAIN Append(devices, dev) :
          Append(devices, dev)[i].ip = Append(devices, dev)[j].ip => i = j
      BY <1>2 DEF OneSessionPerDevice
  <2> QED BY <2>1, <2>2, <2>3, <2>4 DEF Grown
<1> QED BY <1>1, <1>2

\* The application's index outlives the growth of the table.
LEMMA GrownKeeps ==
  ASSUME TableInv, Grown(devices, devices'), aim' = aim, discovery' = discovery,
         found' \in SUBSET Device
  PROVE  TableInv'
<1>1. ManagerTypeOK'
    BY DEF TableInv, ManagerTypeOK, Grown
<1>2. OneSessionPerDevice'
    BY DEF Grown, OneSessionPerDevice
<1>3. AimInv'
    BY DEF TableInv, AimInv, Grown
<1> QED BY <1>1, <1>2, <1>3 DEF TableInv

\* Every step of the manager keeps the table whole; only ensure_device changes
\* it, as EnsureGrows says.
LEMMA StepInv ==
  ASSUME TableInv, [ManagerStep \/ Hear]_<<tableVars, found>>
  PROVE  TableInv' /\ (devices' = devices \/ Grown(devices, devices'))
<1>1. ASSUME NEW d \in Device, NetLoop(d)
      PROVE  TableInv' /\ (devices' = devices \/ Grown(devices, devices'))
  <2>1. [ip |-> d, serial |-> TRUE] \in DeviceInfo
      BY DEF DeviceInfo
  <2>2. aim' = aim /\ discovery' = discovery /\ found' \in SUBSET Device
      BY <1>1 DEF NetLoop, TableInv, ManagerTypeOK
  <2>3. CASE discovery
    <3>1. Grown(devices, devices')
        BY <1>1, <2>1, <2>3, EnsureGrows DEF NetLoop, TableInv, ManagerTypeOK
    <3> QED BY <2>2, <3>1, GrownKeeps
  <2>4. CASE ~discovery
      BY <1>1, <2>2, <2>4
      DEF NetLoop, TableInv, ManagerTypeOK, OneSessionPerDevice, AimInv
  <2> QED BY <2>3, <2>4
<1>2. CASE AddDevice
  <2>1. PICK dev \in Added : devices' = Ensure(dev)
      BY <1>2 DEF AddDevice
  <2>2. Grown(devices, devices')
      BY <2>1, DeviceAssumption, EnsureGrows DEF TableInv, ManagerTypeOK
  <2>3. aim' = aim /\ discovery' = discovery /\ found' \in SUBSET Device
      BY <1>2 DEF AddDevice, TableInv, ManagerTypeOK
  <2> QED BY <2>2, <2>3, GrownKeeps
<1>3. CASE ReadIp
  <2>1. PICK i \in DOMAIN devices : aim' = [idx |-> i, ip |-> devices[i].ip]
      BY <1>3 DEF ReadIp
  <2>2. devices[i].ip \in Device /\ i \in Nat
      BY ElementType DEF TableInv, ManagerTypeOK, DeviceInfo
  <2>3. aim' \in Aim
      BY <2>1, <2>2 DEF Aim
  <2>4. devices' = devices /\ discovery' = discovery /\ found' = found
      BY <1>3 DEF ReadIp
  <2> QED BY <2>1, <2>2, <2>3, <2>4 DEF TableInv, ManagerTypeOK, OneSessionPerDevice, AimInv
<1>4. CASE SetFrameIndex
    BY <1>4 DEF SetFrameIndex, TableInv, ManagerTypeOK, OneSessionPerDevice, AimInv
<1>5. CASE Hear
    BY <1>5 DEF Hear, tableVars, TableInv, ManagerTypeOK, OneSessionPerDevice, AimInv
<1>6. CASE UNCHANGED <<tableVars, found>>
    BY <1>6 DEF tableVars, TableInv, ManagerTypeOK, OneSessionPerDevice, AimInv
<1> QED BY <1>1, <1>2, <1>3, <1>4, <1>5, <1>6 DEF ManagerStep

-----------------------------------------------------------------------------
\* The table is whole in every state, whatever is found, added or read.
THEOREM TableInvariance == ManagerSpec => []TableInv
<1>1. ManagerInit => TableInv
    BY DEF ManagerInit, TableInv, ManagerTypeOK, OneSessionPerDevice, AimInv
<1>2. TableInv /\ [ManagerStep \/ Hear]_<<tableVars, found>> => TableInv'
    BY StepInv
<1> QED BY <1>1, <1>2, PTL DEF ManagerSpec

\* Found and added as often as one likes, a device has one session task.
THEOREM OneSession == ManagerSpec => []OneSessionPerDevice
<1>1. TableInv => OneSessionPerDevice
    BY DEF TableInv
<1> QED BY <1>1, TableInvariance, PTL

\* An index the application has read goes on naming the same device.
THEOREM IndexStable == ManagerSpec => []RightDevice
<1>1. TableInv => RightDevice
    BY DEF TableInv, AimInv, RightDevice, Hit
<1> QED BY <1>1, TableInvariance, PTL

\* A serial that is known is never lost again.
THEOREM SerialStable == ManagerSpec => SerialKept
<1> DEFINE Kept == \A i \in DOMAIN devices :
                     devices[i].serial => \E j \in DOMAIN devices' : devices'[j] = devices[i]
<1>1. TableInv /\ [ManagerStep \/ Hear]_<<tableVars, found>> => [Kept]_devices
  <2> SUFFICES ASSUME TableInv, [ManagerStep \/ Hear]_<<tableVars, found>>
               PROVE  [Kept]_devices
      OBVIOUS
  <2>1. devices' = devices \/ Grown(devices, devices')
      BY StepInv
  <2> QED BY <2>1 DEF Grown
<1> QED BY <1>1, TableInvariance, PTL DEF ManagerSpec, SerialKept

-----------------------------------------------------------------------------
(* The segment.                                                            *)

\* A datagram that arrives tells the host of one device, or of nothing.
LEMMA ArriveHears ==
  ASSUME NEW from, NEW got, Net!Arrive(from, got), UNCHANGED tableVars
  PROVE  [Hear]_<<tableVars, found>>
<1>1. CASE Host \in got /\ from \in Device
    BY <1>1 DEF Net!Arrive, Hear
<1>2. CASE ~(Host \in got /\ from \in Device)
    BY <1>2 DEF Net!Arrive
<1> QED BY <1>1, <1>2

\* A step of the network is, to the manager, one more device heard or nothing.
LEMMA NetHears ==
  ASSUME Net!Next, UNCHANGED tableVars
  PROVE  [Hear]_<<tableVars, found>>
<1>1. ASSUME NEW e \in Emu, Net!Responder(e)
      PROVE  [Hear]_<<tableVars, found>>
  <2>1. CASE Net!Broadcast(e)
    <3>1. PICK got \in SUBSET Net!Node : Net!Arrive(e, got)
        BY <2>1 DEF Net!Broadcast, Net!BroadcastTo
    <3> QED BY <3>1, ArriveHears
  <2>2. ASSUME NEW n \in Net!Node, Net!ReceiveFrom(e, n)
        PROVE  [Hear]_<<tableVars, found>>
      BY <2>2 DEF Net!ReceiveFrom
  <2>3. CASE Net!ReceiveNone(e)
      BY <2>3 DEF Net!ReceiveNone
  <2>4. ASSUME NEW n \in Net!Asker, Net!ReceiveGroup(e, n)
        PROVE  [Hear]_<<tableVars, found>>
      BY <2>4 DEF Net!ReceiveGroup
  <2>5. CASE Net!ReceiveGroupNone(e)
      BY <2>5 DEF Net!ReceiveGroupNone
  <2>6. CASE Net!Reply(e)
    <3>1. PICK got \in SUBSET {target[e]} : Net!Arrive(e, got)
        BY <2>6 DEF Net!Reply
    <3> QED BY <3>1, ArriveHears
  <2> QED BY <1>1, <2>1, <2>2, <2>3, <2>4, <2>5, <2>6 DEF Net!Responder
<1>2. ASSUME NEW n \in Net!Asker, Net!Query(n)
      PROVE  [Hear]_<<tableVars, found>>
    BY <1>2 DEF Net!Query
<1>3. CASE Net!Presence
  <2>1. PICK got \in SUBSET Emu : Net!Arrive(Host, got)
      BY <1>3 DEF Net!Presence
  <2> QED BY <2>1, ArriveHears
<1>4. ASSUME NEW p \in Peer, Net!PeerSends(p)
      PROVE  [Hear]_<<tableVars, found>>
  <2>1. PICK got \in SUBSET (Emu \cup {Host}) : Net!Arrive(p, got)
      BY <1>4 DEF Net!PeerSends
  <2> QED BY <2>1, ArriveHears
<1> QED BY <1>1, <1>2, <1>3, <1>4 DEF Net!Next

\* The segment runs the manager as ManagerSpec describes it.
THEOREM RunsManager == Spec => ManagerSpec
<1>1. Init => ManagerInit
    BY DEF Init
<1>2. [Next]_vars => [ManagerStep \/ Hear]_<<tableVars, found>>
  <2>1. ASSUME Net!Next, UNCHANGED tableVars
        PROVE  [ManagerStep \/ Hear]_<<tableVars, found>>
      BY <2>1, NetHears
  <2>2. ASSUME UNCHANGED vars
        PROVE  UNCHANGED <<tableVars, found>>
      BY <2>2 DEF vars, tableVars
  <2> QED BY <2>1, <2>2 DEF Next
<1> QED BY <1>1, <1>2, PTL DEF Spec, ManagerSpec

\* On the segment, too, a device has one session, an index names one device
\* and a known serial is kept.
THEOREM TableOnSegment ==
  Spec => []OneSessionPerDevice /\ []RightDevice /\ SerialKept
  BY RunsManager, OneSession, IndexStable, SerialStable, PTL

=============================================================================

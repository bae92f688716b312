-------------------------------- MODULE Manager --------------------------------
(***************************************************************************)
(* The device table of the driver library: Fb4Manager, `ensure_device` and  *)
(* `net_loop` of fb4_rust/src/lib.rs, and the C interface of ffi.rs, which  *)
(* addresses a device by its index in the table.  The application reads an  *)
(* index in one call and uses it in a later one; in between net_loop and    *)
(* the application's other threads change the table, under its mutex.      *)
(***************************************************************************)
EXTENDS Naturals, Sequences

CONSTANTS
    Device,   \* addresses of FB4s
    Added,    \* the devices the application may add itself
    None

\* An entry; `add_device` may not know the serial (0).
DeviceInfo == [ip : Device, serial : BOOLEAN]

ASSUME DeviceAssumption == Added \subseteq DeviceInfo /\ None \notin Device

VARIABLES
    discovery,  \* config.discovery
    found,      \* devices run_net has parsed, on their way to net_loop
    devices,    \* the device table, in order of the indices
    aim         \* the application: the index it has picked, and the address it
                \*   read there

tableVars == <<discovery, devices, aim>>

Aim == [idx : Nat, ip : Device]

ManagerTypeOK ==
    /\ discovery \in BOOLEAN
    /\ found \in SUBSET Device
    /\ devices \in Seq(DeviceInfo)
    /\ aim \in Aim \cup {None}

ManagerInit ==
    /\ discovery \in BOOLEAN
    /\ found = {}
    /\ devices = << >>
    /\ aim = None

-----------------------------------------------------------------------------
\* Mutants: devices are told apart by address and serial; a new one comes first.
EnsureBySerial(dev) ==
    IF \E i \in DOMAIN devices : devices[i] = dev THEN devices ELSE Append(devices, dev)
EnsureFirst(dev) ==
    IF \E i \in DOMAIN devices : devices[i].ip = dev.ip THEN devices ELSE <<dev>> \o devices

\* Mutant: a known device stays as it is.
EnsureKeeps(dev) ==
    IF \E i \in DOMAIN devices : devices[i].ip = dev.ip THEN devices ELSE Append(devices, dev)

\* Mutant: the serial is overwritten, known or not.
EnsureOverwrites(dev) ==
    IF \E i \in DOMAIN devices : devices[i].ip = dev.ip
    THEN [i \in DOMAIN devices |-> IF devices[i].ip = dev.ip THEN dev ELSE devices[i]]
    ELSE Append(devices, dev)

\* The table after ensure_device, which holds the mutex throughout: a known
\* device gets its serial, a new one an entry and a session task.
Ensure(dev) ==
    IF \E i \in DOMAIN devices : devices[i].ip = dev.ip
    THEN [i \in DOMAIN devices |->
            IF devices[i].ip = dev.ip /\ dev.serial THEN dev ELSE devices[i]]
    ELSE Append(devices, dev)

NetLoop(d) ==
    /\ d \in found
    /\ found' = found \ {d}
    /\ devices' = IF discovery THEN Ensure([ip |-> d, serial |-> TRUE]) ELSE devices
    /\ UNCHANGED <<discovery, aim>>

\* fb4_add_device, Fb4Manager::add_device
AddDevice ==
    /\ \E dev \in Added : devices' = Ensure(dev)
    /\ UNCHANGED <<discovery, found, aim>>

\* fb4_device_count, fb4_device_ip: the application picks an index.
ReadIp ==
    /\ \E i \in DOMAIN devices : aim' = [idx |-> i, ip |-> devices[i].ip]
    /\ UNCHANGED <<discovery, found, devices>>

\* The entry that set_frame_index finds at the index: its frame is replaced.
Hit == {devices[i].ip : i \in {aim.idx} \cap DOMAIN devices}

\* fb4_set_frame, fb4_stop: the index is looked up again.
SetFrameIndex ==
    /\ aim # None
    /\ aim' = None
    /\ UNCHANGED <<discovery, found, devices>>

\* A device's announce has come: see Discovery.
Hear ==
    /\ \E d \in Device : found' = found \cup {d}
    /\ UNCHANGED tableVars

ManagerStep == (\E d \in Device : NetLoop(d)) \/ AddDevice \/ ReadIp \/ SetFrameIndex

ManagerSpec == ManagerInit /\ [][ManagerStep \/ Hear]_<<tableVars, found>>

-----------------------------------------------------------------------------
\* Every device has one entry in the table, and so one session task, however
\* often it is found (net_loop) and added (add_device).
OneSessionPerDevice ==
    \A i, j \in DOMAIN devices : devices[i].ip = devices[j].ip => i = j

\* A frame set by index goes to the device the application read the index of,
\* whatever was found or added in between (ffi.rs: "address a device by its
\* index into the current device list").
RightDevice == aim # None => Hit = {aim.ip}

\* The serial of a device, once known, stays known: adding its address again
\* (with serial 0, "if unknown") does not undo what discovery has told.
SerialKept ==
    [][\A i \in DOMAIN devices :
         devices[i].serial => \E j \in DOMAIN devices' : devices'[j] = devices[i]]_devices

=============================================================================

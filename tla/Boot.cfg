\* Three DACs on up to two sockets; one of them gets a new address meanwhile.
\* The second emulator is followed.
SPECIFICATION Spec
CONSTANTS
    Dac = {d1, d2, d3}
    Sockets = 2
    AddrMod = 4
    CommandLines <- NoneBaseOrList
    MaxQueue = 1
    MaxRenumber = 1
    Emu = {2}
INVARIANTS PairsDistinct HeardAreBridged
PROPERTIES Starts UsableIsServed
CHECK_DEADLOCK FALSE

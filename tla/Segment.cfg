\* An emulator, another FB4 and another host, and a host with or without
\* discovery.
SPECIFICATION Spec
CONSTANTS
    e1 = e1
    Emu = {e1}
    Peer = {f1, h2}
    Device = {e1, f1}
    Host = h1
    None = None
    Added <- AddedByAddress
INVARIANTS OneSessionPerDevice RightDevice
PROPERTIES SerialKept Discovered ProbesAnswered

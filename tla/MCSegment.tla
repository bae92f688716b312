------------------------------- MODULE MCSegment -------------------------------
(* An emulator, another FB4, another host, and a host whose application adds *)
(* the emulator by address.                                                *)
EXTENDS Segment

CONSTANT e1
AddedByAddress == {[ip |-> e1, serial |-> FALSE]}

=============================================================================

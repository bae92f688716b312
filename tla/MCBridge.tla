------------------------------- MODULE MCBridge -------------------------------
(* One host, one emulated FB4, one Ether Dream.                            *)
EXTENDS Bridge

MCRespond(a) == <<"B", a>>
MCSessionKeybase(a, b) == <<"key", a, b>>
MCFrameLen == [f \in 1..MaxFrame |-> 2]

=============================================================================

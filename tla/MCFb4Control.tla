---------------------------- MODULE MCFb4Control ----------------------------
(* Fb4Control on small instances, with a key derivation that never collides. *)
EXTENDS Fb4Control

MCRespond(a) == <<"B", a>>
MCSessionKeybase(a, b) == <<"key", a, b>>

=============================================================================

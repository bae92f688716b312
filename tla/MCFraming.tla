------------------------------ MODULE MCFraming ------------------------------
(* Framing on a small instance: messages that are only a header, longer     *)
(* ones, and one whose header tells less than its own length.              *)
EXTENDS Framing

MCSizes == <<5, 3, 4, 1, 3>>

=============================================================================

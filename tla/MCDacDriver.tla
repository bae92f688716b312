------------------------------ MODULE MCDacDriver ------------------------------
(* DacDriver on a small instance: frames of different lengths, one of them  *)
(* longer than a batch.                                                    *)
EXTENDS DacDriver

MCFrameLen == [f \in 1..MaxFrame |-> IF f % 2 = 1 THEN 3 ELSE 2]

=============================================================================

-------------------------- MODULE MCTurboReassembly --------------------------
(* TurboReassembly on a small instance: five frames of one host, of one to  *)
(* four fragments, and one of another host.                                *)
EXTENDS TurboReassembly

FrameSizes == << <<2, 1, 3, 1, 4>>, <<2>> >>

=============================================================================

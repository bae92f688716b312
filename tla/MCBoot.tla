-------------------------------- MODULE MCBoot --------------------------------
(* The bridge is started without an address, with a base address at the end *)
(* of the address space, or with a list of two, fewer than there are DACs.  *)
EXTENDS Boot

NoneBaseOrList == {<< >>, <<3>>, <<2, 0>>}

=============================================================================

---------------------------- MODULE MCPointStream ----------------------------
(* PointStream over the lowest and highest coordinates and the centre.      *)
EXTENDS PointStream

MCCoord == {-2, 0, 1}

=============================================================================

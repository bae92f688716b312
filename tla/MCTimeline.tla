------------------------------ MODULE MCTimeline ------------------------------
(* Timeline with a device whose clock runs slow, true and fast.             *)
EXTENDS Timeline

ClockSkews == {-1, 0, 1}

=============================================================================

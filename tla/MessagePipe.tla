------------------------------ MODULE MessagePipe ------------------------------
(***************************************************************************)
(* What Fb4Control assumes of the byte stream under it: the messages of a   *)
(* connection are handled one by one, in the order they were sent, and all  *)
(* of them.                                                                *)
(***************************************************************************)
EXTENDS Naturals

CONSTANT MaxMsgs   \* bound: messages sent

VARIABLES
    sent,      \* messages sent
    handled    \* messages handled

vars == <<sent, handled>>

Init == sent = 0 /\ handled = 0

Send ==
    /\ sent < MaxMsgs
    /\ sent' = sent + 1
    /\ UNCHANGED handled

Handle ==
    /\ handled < sent
    /\ handled' = handled + 1
    /\ UNCHANGED sent

Next == Send \/ Handle

Safety == Init /\ [][Next]_vars

Spec == Safety /\ WF_vars(Handle)

=============================================================================

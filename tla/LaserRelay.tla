------------------------------ MODULE LaserRelay ------------------------------
(***************************************************************************)
(* What one emulated FB4 and its Ether Dream promise together: the frames   *)
(* the hosts send are adopted one after the other, those of one connection  *)
(* in the order they were sent and without a gap; the last one of a host    *)
(* that goes on sending it may come back after another host's.  What the    *)
(* laser draws follows the adopted frames: it may skip some, it never goes  *)
(* back, and a frame that stays the last one adopted is eventually drawn.   *)
(***************************************************************************)
EXTENDS Naturals, Sequences

CONSTANTS
    Conn,     \* connections
    MaxSeq,   \* bound: frames sent on one connection
    MaxFrame  \* bound: frames adopted

VARIABLES
    sent,       \* sent[c]: frames sent on c
    taken,      \* taken[c]: frames of c adopted
    adopted,    \* the adopted frames, in order
    projected   \* position in `adopted` of the frame being drawn, 0 for none

vars == <<sent, taken, adopted, projected>>

Init ==
    /\ sent = [c \in Conn |-> 0]
    /\ taken = [c \in Conn |-> 0]
    /\ adopted = << >>
    /\ projected = 0

Offer(c) ==
    /\ sent[c] < MaxSeq
    /\ sent' = [sent EXCEPT ![c] = @ + 1]
    /\ UNCHANGED <<taken, adopted, projected>>

Adopt(c) ==
    /\ taken[c] < sent[c]
    /\ taken' = [taken EXCEPT ![c] = @ + 1]
    /\ adopted' = Append(adopted, [conn |-> c, seq |-> taken[c] + 1])
    /\ UNCHANGED <<sent, projected>>

\* The frame a host goes on sending comes back to the laser when another
\* host's was on it.
Readopt(c) ==
    /\ taken[c] = MaxSeq
    /\ MaxSeq > 0
    /\ adopted' = Append(adopted, [conn |-> c, seq |-> MaxSeq])
    /\ UNCHANGED <<sent, taken, projected>>

Project(n) ==
    /\ projected < n
    /\ n <= Len(adopted)
    /\ projected' = n
    /\ UNCHANGED <<sent, taken, adopted>>

\* Draw the last adopted frame, while it is the last.
CatchUp(n) == n = Len(adopted) /\ Project(n)

Next ==
    \/ \E c \in Conn : Offer(c) \/ Adopt(c) \/ Readopt(c)
    \/ \E n \in 1..MaxFrame : Project(n)

Safety == Init /\ [][Next]_vars

Fairness == \A n \in 1..MaxFrame : WF_vars(CatchUp(n))

Spec == Safety /\ Fairness

=============================================================================

-------------------------------- MODULE Bridge --------------------------------
(***************************************************************************)
(* One bridge of src/main.rs: an emulated FB4 and the driver of the Ether   *)
(* Dream it was paired with, around the one frame buffer they share.        *)
(*                                                                         *)
(* Fb4Control names the shared frame by the connection and position it was  *)
(* sent at, DacDriver by its publication number; `adopted`, the history of  *)
(* what was published, relates the two.                                    *)
(***************************************************************************)
EXTENDS Naturals, Sequences

CONSTANTS
    Conn, Nonce, MaxSeq, MaxInFlight, None, NoFrame, Garbage,
    Respond(_), SessionKeybase(_, _),
    Cap, MaxBatch, MaxFrame, FrameLen, MaxFaults

VARIABLES
    host, nonce, hostKey, sent, output, toDevice, reply,                 \* Fb4Control
    thread, chunk, keybase, scanning, ackDue, decoded, published, shared,
    pc, known, begun, cursor, batch, link, playback, buf, shown, stale,  \* DacDriver
    faults,
    adopted     \* history: the frames published, in order

Control == INSTANCE Fb4Control
Dac     == INSTANCE DacDriver WITH shared <- Len(adopted)

controlVars == <<host, nonce, hostKey, sent, output, toDevice, reply, thread,
                 chunk, keybase, scanning, ackDue, decoded, published, shared>>
dacVars     == <<pc, known, begun, cursor, batch, link, playback, buf, shown,
                 stale, faults>>
vars        == <<controlVars, dacVars, adopted>>

ASSUME BridgeAssumption ==
    /\ MaxSeq \in Nat /\ MaxInFlight \in Nat
    /\ None \notin Nonce \cup Control!Challenge \cup Control!Keybase
    /\ NoFrame \notin Control!Frame
    /\ Garbage \notin Control!Frame
    /\ NoFrame # Garbage
    /\ Cap \in Nat /\ Cap >= 2
    /\ MaxBatch \in Nat /\ MaxBatch >= 1
    /\ MaxFrame \in Nat /\ FrameLen \in [1..MaxFrame -> Nat \ {0}]
    /\ MaxFaults \in Nat

Init ==
    /\ adopted = << >>
    /\ Control!Init
    /\ Dac!Init

\* Writing the shared buffer is one step of both parts.
Forward ==
    IF shared' = shared
    THEN UNCHANGED <<adopted, dacVars>>
    ELSE /\ adopted' = Append(adopted, shared')
         /\ Dac!Publish

ThreadStep(c) == Control!ThreadNext(c) /\ Forward

HostStep(c) ==
    /\ Control!HostNext(c) \/ Control!ClockNext(c)
    /\ UNCHANGED <<adopted, dacVars>>

DriverStep == UNCHANGED <<adopted, controlVars>> /\ Dac!Driver

DacStep == UNCHANGED <<adopted, controlVars>> /\ Dac!Dac

FaultStep ==
    /\ UNCHANGED <<adopted, controlVars>>
    /\ Dac!LinkDrop \/ Dac!Reboot \/ Dac!AnswerLost

Next ==
    \/ \E c \in Conn : ThreadStep(c) \/ HostStep(c)
    \/ DriverStep
    \/ DacStep
    \/ FaultStep

Fairness ==
    /\ \A c \in Conn : WF_vars(ThreadStep(c))
    /\ WF_vars(DriverStep)
    /\ WF_vars(DacStep)

Spec == Init /\ [][Next]_vars /\ Fairness

-----------------------------------------------------------------------------
Relay == INSTANCE LaserRelay WITH taken <- published, projected <- shown

\* The bridge is a relay: frames reach the laser in order, none of a
\* connection is skipped on the way to the shared buffer, the picture never
\* goes back to an older one, and the last frame is eventually drawn, unless
\* the driver is left waiting for an answer of a DAC that is gone.
IsRelay == Relay!Safety /\ (Relay!Fairness \/ <>[](pc = "hung"))

Lit == playback = "playing" /\ buf # << >> /\ Head(buf).frame # 0

\* handle_msg on the 0100 message: "0100 = disable output".  Once the only host
\* has disabled the output and the device has handled that, the laser goes
\* dark, until the host asks for output again or leaves.
DisableDarkens ==
    \A c \in Conn :
      (Control!Serving(c) /\ ~output[c] /\ toDevice[c] = << >>)
        ~> (output[c] \/ host[c] # "up" \/ ~Lit)

=============================================================================

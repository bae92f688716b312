--------------------------------- MODULE Boot ---------------------------------
(***************************************************************************)
(* The start of the whole bridge: the main thread (Pairing) starts one      *)
(* emulator after the other, and each comes up by itself (Startup), while   *)
(* the main thread goes on.                                                *)
(***************************************************************************)
EXTENDS Pairing

CONSTANT Emu      \* the emulators followed, by their place among the bridges

ASSUME EmuAssumption == Emu \subseteq Nat \ {0}

VARIABLES addr, late, main, disc, turbo    \* of Startup

Up == INSTANCE Startup

upVars == <<addr, late, main, disc, turbo>>
vars   == <<given, at, renumbers, queue, over, pc, socks, turn, seen, dacs, ips, bridges,
            addr, late, main, disc, turbo>>

TypeOK == PairingTypeOK /\ Up!TypeOK

Init == PairingInit /\ Up!Init

\* The next pair, and its two threads.
StartBridge ==
    /\ Bridge
    /\ IF Len(bridges') \in Emu THEN Up!Run(Len(bridges')) ELSE UNCHANGED upVars

MainThread == (Main /\ UNCHANGED upVars) \/ StartBridge

Next ==
    \/ MainThread
    \/ Environment /\ UNCHANGED upVars
    \/ Up!Next /\ UNCHANGED pairingVars

\* The main thread runs, six seconds pass, and so for the emulators' threads.
Fairness ==
    /\ WF_vars(MainThread)
    /\ WF_vars(WindowPasses /\ UNCHANGED upVars)
    /\ \A e \in Emu :
         /\ WF_vars(Up!MainStep(e) /\ UNCHANGED pairingVars)
         /\ WF_vars(Up!DiscoveryBind(e) /\ UNCHANGED pairingVars)
         /\ WF_vars(Up!TurboBind(e) /\ UNCHANGED pairingVars)
         /\ WF_vars(Up!DeadlinePasses(e) /\ UNCHANGED pairingVars)
         /\ WF_vars(Up!DadEnds(e) /\ UNCHANGED pairingVars)

Spec == Init /\ [][Next]_vars /\ Fairness

-----------------------------------------------------------------------------
\* Broadcasts without end do not keep the bridge from starting.
Starts == <>(pc \in {"running", "exit"})

\* An emulator whose address becomes usable before the last attempt to bind it
\* serves, however that falls together with the retries and the deadline.
UsableIsServed ==
    \A e \in Emu :
      (addr[e] = "ready" /\ main[e] \in {"spawnDisc", "spawnTurbo", "try", "sleep"})
        ~> main[e] = "listening"

=============================================================================

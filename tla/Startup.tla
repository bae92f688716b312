-------------------------------- MODULE Startup --------------------------------
(***************************************************************************)
(* The start of the emulated FB4s (`run` of src/fb4_device.rs, one thread   *)
(* per emulator spawned by src/main.rs).  The address of an emulator was    *)
(* just added to the NIC and cannot be bound until the system has finished  *)
(* Duplicate Address Detection.  The control server retries its bind every  *)
(* second for 20 s; the discovery and turbo threads bind once.             *)
(***************************************************************************)
EXTENDS Naturals

CONSTANT Emu      \* emulators of the bridge

VARIABLES
    addr,     \* addr[e]: "tentative", "ready", or "absent" (no such address)
    late,     \* late[e]: the 20 s of bind_deadline have passed
    main,     \* main[e]: "off", "spawnDisc", "spawnTurbo", "try", "check", "sleep",
              \*   "listening" or "gaveUp"
    disc,     \* disc[e]: discovery_responder: "none", "start", "serving", "dead"
    turbo     \* turbo[e]: udp_turbo_loop, likewise

vars == <<addr, late, main, disc, turbo>>

ThreadState == {"none", "start", "serving", "dead"}

TypeOK ==
    /\ addr \in [Emu -> {"tentative", "ready", "absent"}]
    /\ late \in [Emu -> BOOLEAN]
    /\ main \in [Emu -> {"off", "spawnDisc", "spawnTurbo", "try", "check", "sleep",
                         "listening", "gaveUp"}]
    /\ disc \in [Emu -> ThreadState]
    /\ turbo \in [Emu -> ThreadState]

Init ==
    /\ addr = [e \in Emu |-> "tentative"]
    /\ late = [e \in Emu |-> FALSE]
    /\ main = [e \in Emu |-> "off"]
    /\ disc = [e \in Emu |-> "none"]
    /\ turbo = [e \in Emu |-> "none"]

\* Duplicate Address Detection is over, perhaps before anything else: the
\* address is usable, or it was refused or never there.
DadEnds(e) ==
    /\ main[e] # "off"
    /\ addr[e] = "tentative"
    /\ \E a \in {"ready", "absent"} : addr' = [addr EXCEPT ![e] = a]
    /\ UNCHANGED <<late, main, disc, turbo>>

\* `main` of the bridge spawns the emulator's thread.
Run(e) ==
    /\ main[e] = "off"
    /\ main' = [main EXCEPT ![e] = "spawnDisc"]
    /\ UNCHANGED <<addr, late, disc, turbo>>

SpawnDiscovery(e) ==
    /\ main[e] = "spawnDisc"
    /\ main' = [main EXCEPT ![e] = "spawnTurbo"]
    /\ disc' = [disc EXCEPT ![e] = "start"]
    /\ UNCHANGED <<addr, late, turbo>>

SpawnTurbo(e) ==
    /\ main[e] = "spawnTurbo"
    /\ main' = [main EXCEPT ![e] = "try"]
    /\ turbo' = [turbo EXCEPT ![e] = "start"]
    /\ UNCHANGED <<addr, late, disc>>

\* The deadline counts from the end of the spawns.
DeadlinePasses(e) ==
    /\ main[e] \in {"try", "check", "sleep"}
    /\ ~late[e]
    /\ late' = [late EXCEPT ![e] = TRUE]
    /\ UNCHANGED <<addr, main, disc, turbo>>

\* Mutant: the deadline is looked at before the attempt.
TryBindLate(e) ==
    /\ main[e] = "try"
    /\ main' = [main EXCEPT ![e] =
                  IF late[e] THEN "gaveUp"
                  ELSE IF addr[e] = "ready" THEN "listening" ELSE "check"]
    /\ UNCHANGED <<addr, late, disc, turbo>>

TryBind(e) ==
    /\ main[e] = "try"
    /\ main' = [main EXCEPT ![e] = IF addr[e] = "ready" THEN "listening" ELSE "check"]
    /\ UNCHANGED <<addr, late, disc, turbo>>

\* The bind failed: sleep for a second, or give up once the deadline is past.
CheckDeadline(e) ==
    /\ main[e] = "check"
    /\ main' = [main EXCEPT ![e] = IF late[e] THEN "gaveUp" ELSE "sleep"]
    /\ UNCHANGED <<addr, late, disc, turbo>>

WakeUp(e) ==
    /\ main[e] = "sleep"
    /\ main' = [main EXCEPT ![e] = "try"]
    /\ UNCHANGED <<addr, late, disc, turbo>>

\* One attempt each: a failure ends the thread.
Opened(e) == IF addr[e] = "ready" THEN "serving" ELSE "dead"

DiscoveryBind(e) ==
    /\ disc[e] = "start"
    /\ disc' = [disc EXCEPT ![e] = Opened(e)]
    /\ UNCHANGED <<addr, late, main, turbo>>

TurboBind(e) ==
    /\ turbo[e] = "start"
    /\ turbo' = [turbo EXCEPT ![e] = Opened(e)]
    /\ UNCHANGED <<addr, late, main, disc>>

MainStep(e) ==
    \/ SpawnDiscovery(e)
    \/ SpawnTurbo(e)
    \/ TryBind(e)
    \/ CheckDeadline(e)
    \/ WakeUp(e)

Next ==
    \E e \in Emu :
      \/ DadEnds(e)
      \/ DeadlinePasses(e)
      \/ MainStep(e)
      \/ DiscoveryBind(e)
      \/ TurboBind(e)

=============================================================================

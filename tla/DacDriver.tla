------------------------------- MODULE DacDriver -------------------------------
(***************************************************************************)
(* The Ether Dream driver thread (src/etherdream.rs: `run`, `drive`,        *)
(* `room`) and the DAC at the other end of its connection.                 *)
(*                                                                         *)
(* The driver keeps the DAC's point buffer full with the frame it finds in  *)
(* `shared`, round and round, whatever the FB4 emulator publishes there     *)
(* meanwhile.  It knows the buffer only from the status of the DAC's last   *)
(* answer; the DAC plays a point at a time, stops when it runs dry, and     *)
(* refuses what does not fit or does not suit its state.  Any refusal or    *)
(* broken connection ends `drive`, and `run` starts over 2 s later - but an *)
(* answer that never comes, of a DAC that died owing it, is waited for      *)
(* without a timeout and ends the driver.                                  *)
(*                                                                         *)
(* A frame is its publication number and the number of its points; 0 is the *)
(* empty buffer of the start, shown as blanked points.                     *)
(***************************************************************************)
EXTENDS Integers, Sequences

CONSTANTS
    Cap,         \* buffer_capacity of the DAC
    MaxBatch,    \* points sent at a time (1000 in the code)
    MaxFrame,    \* bound: frames published
    FrameLen,    \* FrameLen[f]: number of points of frame f
    MaxFaults    \* bound: failed connections, reboots and lost answers

ASSUME CapAssumption == Cap \in Nat /\ Cap >= 2
ASSUME BatchAssumption == MaxBatch \in Nat /\ MaxBatch >= 1
ASSUME FrameAssumption ==
    MaxFrame \in Nat /\ FrameLen \in [1..MaxFrame -> Nat \ {0}]
ASSUME FaultAssumption == MaxFaults \in Nat

Point == [frame : 0..MaxFrame, idx : Nat]
Blank == [frame |-> 0, idx |-> 0]

VARIABLES
    pc,        \* the driver: "connect", "prepare", "fill", "submit", "backoff",
               \* or "hung", in a read that never returns
    known,     \* the driver: buffer_fullness of the last status it read
    begun,     \* the driver: `begin` has been sent on this connection
    cursor,    \* the driver: index of the next point of the frame
    batch,     \* the driver: the points about to be sent
    shared,    \* the frame published by the emulator
    link,      \* the connection is up
    playback,  \* the DAC: "idle", "prepared" or "playing"
    buf,       \* the DAC: the points it has not played
    shown,     \* history: the frame of the last point played
    stale,     \* history: points of superseded frames played since the last Publish
    faults     \* failures so far

driverVars == <<pc, known, begun, cursor, batch>>
dacVars    == <<playback, buf, shown, stale>>
vars       == <<driverVars, shared, link, dacVars, faults>>

TypeOK ==
    /\ pc \in {"connect", "prepare", "fill", "submit", "backoff", "hung"}
    /\ known \in 0..Cap
    /\ begun \in BOOLEAN
    /\ cursor \in Nat
    /\ batch \in Seq(Point)
    /\ shared \in 0..MaxFrame
    /\ link \in BOOLEAN
    /\ playback \in {"idle", "prepared", "playing"}
    /\ buf \in Seq(Point)
    /\ shown \in 0..MaxFrame
    /\ stale \in Nat
    /\ faults \in 0..MaxFaults

Init ==
    /\ pc = "connect"
    /\ known = 0
    /\ begun = FALSE
    /\ cursor = 0
    /\ batch = << >>
    /\ shared = 0
    /\ link = FALSE
    /\ playback = "idle"
    /\ buf = << >>
    /\ shown = 0
    /\ stale = 0
    /\ faults = 0

-----------------------------------------------------------------------------
(* The emulator.                                                           *)

Publish ==
    /\ shared < MaxFrame
    /\ shared' = shared + 1
    /\ stale' = 0
    /\ UNCHANGED <<driverVars, link, playback, buf, shown, faults>>

-----------------------------------------------------------------------------
(* The driver.                                                             *)

\* `drive` starts: the status that comes with the connection is the first.
Connect ==
    /\ pc = "connect"
    /\ playback # "prepared"
    /\ link' = TRUE
    /\ known' = Len(buf)
    /\ pc' = "prepare"
    /\ UNCHANGED <<begun, cursor, batch, shared, dacVars, faults>>

ConnectFails ==
    /\ pc = "connect"
    /\ faults < MaxFaults
    /\ faults' = faults + 1
    /\ pc' = "backoff"
    /\ UNCHANGED <<known, begun, cursor, batch, shared, link, dacVars>>

\* The DAC takes `prepare` only when idle, and clears its buffer.
DacPrepares ==
    /\ pc = "prepare"
    /\ playback = "idle"
    /\ playback' = "prepared"
    /\ buf' = << >>

Prepare ==
    /\ DacPrepares
    /\ link
    /\ known' = 0
    /\ cursor' = 0
    /\ begun' = FALSE
    /\ pc' = "fill"
    /\ UNCHANGED <<batch, shared, link, shown, stale, faults>>

\* Mutant: the DAC is filled to the brim.
RoomWhole(full) == Cap - full

\* Points the DAC can take: its capacity less its fullness, less one.
Room(full) == IF full + 1 < Cap THEN Cap - full - 1 ELSE 0

\* Mutant: always a whole batch.
BatchWhole == MaxBatch

BatchSize == IF Room(known) < MaxBatch THEN Room(known) ELSE MaxBatch

\* The buffer is full as far as the driver knows: ask again.
Ping ==
    /\ pc = "fill"
    /\ link
    /\ Room(known) = 0
    /\ known' = Len(buf)
    /\ UNCHANGED <<pc, begun, cursor, batch, shared, link, dacVars, faults>>

\* Mutant: one point too far.
AdvancedMore(n) == (cursor + n + 1) % FrameLen[shared]

\* Where the next batch starts after one of n points.
Advanced(n) == (cursor + n) % FrameLen[shared]

\* Under the lock: a copy of the frame, from which the batch is cut.
Fill ==
    /\ pc = "fill"
    /\ Room(known) > 0
    /\ IF shared = 0
       THEN /\ cursor' = 0
            /\ batch' = [k \in 1..BatchSize |-> Blank]
       ELSE /\ cursor' = Advanced(BatchSize)
            /\ batch' = [k \in 1..BatchSize |->
                  [frame |-> shared, idx |-> (cursor + k - 1) % FrameLen[shared]]]
    /\ pc' = "submit"
    /\ UNCHANGED <<known, begun, shared, link, dacVars, faults>>

\* What makes the DAC take the data.
Accepts == link /\ playback # "idle" /\ Len(buf) + Len(batch) <= Cap

\* Mutant: `begin` is never sent.
NeverBegun == playback

\* `begin` goes with the first data of a connection.
Begun == IF begun THEN playback ELSE "playing"

\* The DAC takes `data`, with `begin` the first time.
DacTakes ==
    /\ pc = "submit"
    /\ Accepts
    /\ buf' = buf \o batch
    /\ playback' = Begun

\* The answer carries the new status.
Submit ==
    /\ DacTakes
    /\ known' = Len(buf')
    /\ batch' = << >>
    /\ begun' = TRUE
    /\ pc' = "fill"
    /\ UNCHANGED <<cursor, shared, link, shown, stale, faults>>

\* An error return from `drive`, which drops the stream.
StreamEnds ==
    /\ \/ pc = "prepare" /\ (~link \/ playback # "idle")
       \/ pc = "fill" /\ ~link /\ Room(known) = 0
       \/ pc = "submit" /\ ~Accepts
    /\ pc' = "backoff"
    /\ link' = FALSE
    /\ batch' = << >>
    /\ UNCHANGED <<known, begun, cursor, shared, dacVars, faults>>

\* The 2 s sleep of `run` is over.
Backoff ==
    /\ pc = "backoff"
    /\ pc' = "connect"
    /\ UNCHANGED <<known, begun, cursor, batch, shared, link, dacVars, faults>>

-----------------------------------------------------------------------------
(* The DAC and the network between them.                                   *)

Play ==
    /\ playback = "playing"
    /\ buf # << >>
    /\ buf' = Tail(buf)
    /\ shown' = Head(buf).frame
    /\ stale' = IF Head(buf).frame < shared THEN stale + 1 ELSE stale
    /\ UNCHANGED <<driverVars, shared, link, playback, faults>>

\* Running dry stops the playback.
Underflow ==
    /\ playback = "playing"
    /\ buf = << >>
    /\ playback' = "idle"
    /\ UNCHANGED <<driverVars, shared, link, buf, shown, stale, faults>>

\* The connection is gone: the DAC may stop at once or play out its buffer.
DacStops ==
    /\ ~link
    /\ playback # "idle"
    /\ playback' = "idle"
    /\ buf' = << >>
    /\ UNCHANGED <<driverVars, shared, link, shown, stale, faults>>

LinkDrop ==
    /\ link
    /\ faults < MaxFaults
    /\ faults' = faults + 1
    /\ link' = FALSE
    /\ UNCHANGED <<driverVars, shared, dacVars>>

Reboot ==
    /\ faults < MaxFaults
    /\ faults' = faults + 1
    /\ link' = FALSE
    /\ playback' = "idle"
    /\ buf' = << >>
    /\ UNCHANGED <<driverVars, shared, shown, stale>>

\* Requests that the driver has made, or `connect`, which reads a status too.
Asking ==
    \/ pc = "connect"
    \/ link /\ pc \in {"prepare", "submit"}
    \/ link /\ pc = "fill" /\ Room(known) = 0

\* The DAC has acknowledged a request, perhaps carried it out, and is gone
\* before its answer: `submit` reads without a timeout.
AnswerLost ==
    /\ Asking
    /\ faults < MaxFaults
    /\ faults' = faults + 1
    /\ DacPrepares \/ DacTakes \/ UNCHANGED <<playback, buf>>
    /\ pc' = "hung"
    /\ link' = FALSE
    /\ batch' = << >>
    /\ UNCHANGED <<known, begun, cursor, shared, shown, stale>>

-----------------------------------------------------------------------------
Driver ==
    \/ Connect
    \/ ConnectFails
    \/ Prepare
    \/ Ping
    \/ Fill
    \/ Submit
    \/ StreamEnds
    \/ Backoff

Dac == Play \/ Underflow \/ DacStops

Next == Publish \/ Driver \/ Dac \/ LinkDrop \/ Reboot \/ AnswerLost

Spec == Init /\ [][Next]_vars

\* The driver thread is scheduled and the DAC's clock runs; nothing obliges
\* the emulator to publish or the network to fail.
FairSpec == Spec /\ WF_vars(Driver) /\ WF_vars(Dac)

-----------------------------------------------------------------------------
(* Safety.                                                                 *)

\* The driver never sends more than fits: a batch sized from an old status is
\* still safe when the DAC has played on, been reset or stopped meanwhile.
NeverOverfull == pc = "submit" => Len(buf) + Len(batch) < Cap

\* In the buffer, and from the buffer into the batch, neighbouring points of
\* one frame follow each other around the frame: the beam never jumps inside
\* an image, across batches, pings and frames of other lengths.
Stream == buf \o batch

CyclicOrder ==
    \A i \in 1..(Len(Stream) - 1) :
      LET p == Stream[i]
          q == Stream[i + 1]
      IN  p.frame = q.frame /\ p.frame # 0
            => q.idx = (p.idx + 1) % FrameLen[p.frame]

\* After a frame is published the DAC plays fewer than Cap more points of
\* older frames: the lag of the picture is bounded by the DAC's buffer.
StaleBounded == stale < Cap

-----------------------------------------------------------------------------
(* The inductive strengthening of NeverOverfull and StaleBounded.          *)

\* The driver's idea of the fullness is never too low: the DAC only plays.
KnownInv ==
    /\ known < Cap
    /\ Len(buf) <= IF pc = "hung" THEN Cap - 1 ELSE known

\* A batch in hand fits above what the driver believes is buffered.
BatchInv == IF pc = "submit" THEN known + Len(batch) < Cap ELSE batch = << >>

\* A superseded point that is still to be played has its place in the budget.
StaleInv ==
    /\ stale < Cap
    /\ \A i \in 1..Len(Stream) : Stream[i].frame < shared => stale + i < Cap

IInv == TypeOK /\ KnownInv /\ BatchInv /\ StaleInv

-----------------------------------------------------------------------------
(* Liveness.                                                               *)

\* The driver always comes back to a playing DAC, but for an answer that never
\* comes.
KeepsPlaying == []<>(playback = "playing" \/ pc = "hung")

\* A frame that stays the current one is eventually on show, through failed
\* connections, refusals and underflows, with the same exception.
LatestShown ==
    \A f \in 1..MaxFrame : shared = f ~> (shown = f \/ shared # f \/ pc = "hung")

=============================================================================

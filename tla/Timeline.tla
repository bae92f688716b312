------------------------------- MODULE Timeline -------------------------------
(***************************************************************************)
(* The timeline of the frames (fb4_rust/src/clock.rs, `ClockBase`; the      *)
(* clock fields of the handshake reply and the pacing of `stream_frames` in *)
(* session.rs).                                                            *)
(*                                                                         *)
(* Frames are stamped on the device's clock, which the host learns once per *)
(* connection and extrapolates with its own; they are sent at a cadence     *)
(* kept in `next`.  Stamps and slots advance by the frame's span and the    *)
(* gap, each in its own resolution, and nobody compares them again: the     *)
(* stamp counts units of 2^-32 s and drops the rest, the slot nanoseconds   *)
(* and rounds.                                                             *)
(*                                                                         *)
(* Time is counted in ticks of which both are multiples: with 2^32 * 10^9   *)
(* ticks to the second StampUnit is 10^9 and SleepUnit 2^32.               *)
(***************************************************************************)
EXTENDS Integers

CONSTANTS
    StampUnit,    \* ticks of the unit of the stamps
    SleepUnit,    \* ticks of the unit of the slots
    Lead,         \* lead of the stamps on the device's clock (24 ms)
    Gap,          \* gap between frames (0.5 ms)
    Spans,        \* the spans of frames, count / pps
    Skews,        \* what the device's clock may gain on the host's in a tick
    MaxDelay,     \* bound: time the handshake reply is under way
    MaxUptime,    \* bound: the device's clock when the host starts
    MaxTime       \* bound: the time

ASSUME TimelineAssumption ==
    /\ StampUnit \in Nat \ {0} /\ SleepUnit \in Nat \ {0}
    /\ Lead \in Nat /\ Gap \in Nat /\ Spans \subseteq Nat
    /\ Skews \subseteq {-1} \cup Nat
    /\ MaxDelay \in Nat /\ MaxUptime \in Nat /\ MaxTime \in Nat

VARIABLES
    now,      \* the host's clock: the time since the session task started
    device,   \* the device's clock
    base,     \* ClockBase: the device's clock in the reply,
    wall,     \*   when it was read,
    set,      \*   and whether it holds
    phase,    \* "down", "config", "open" (streaming, nothing sent) or "stream"
    timing,   \* the stamp of the next frame
    next,     \* the slot of the next frame
    begin,    \* history: when the streaming loop was entered
    seeded,   \* history: when the first frame was stamped
    sent,     \* history: frames stamped on this connection
    gained    \* history: what the device's clock has gained since the reply

streamVars   == <<timing, next, begin, seeded, sent>>
timelineVars == <<now, device, base, wall, set, phase, streamVars, gained>>

TimelineTypeOK ==
    /\ now \in 0..MaxTime
    /\ device \in Nat
    /\ base \in Nat
    /\ wall \in 0..MaxTime
    /\ set \in BOOLEAN
    /\ phase \in {"down", "config", "open", "stream"}
    /\ timing \in Nat
    /\ next \in Nat
    /\ begin \in 0..MaxTime
    /\ seeded \in 0..MaxTime
    /\ sent \in Nat
    /\ gained \in Int

TimelineInit ==
    /\ now = 0
    /\ device \in 0..MaxUptime
    /\ base = 0
    /\ wall = 0
    /\ set = FALSE
    /\ phase = "down"
    /\ timing = 0
    /\ next = 0
    /\ begin = 0
    /\ seeded = 0
    /\ sent = 0
    /\ gained = 0

-----------------------------------------------------------------------------
(* The two resolutions.                                                    *)

\* A duration in units of the stamps, the rest dropped: `frame_span_acc`,
\* `secs_to_acc` and the constant INTER_FRAME_GAP.
Acc(t) == StampUnit * (t \div StampUnit)

\* A duration in units of the slots, rounded: Duration::from_secs_f64.
Slept(t) == SleepUnit * ((2 * t + SleepUnit) \div (2 * SleepUnit))

\* Mutant: the gap is forgotten.
NoGap(span) == Slept(span)

\* Timeline and cadence advance each on its own account.
TimelineStep(span) == Acc(span) + Acc(Gap)
CadenceStep(span)  == Slept(span) + Gap

\* Mutant: the time since the reply is taken off.
ClockBack == IF set THEN base - Acc(now - wall) ELSE Acc(now - wall)

\* ClockBase::now.
Clock == IF set THEN base + Acc(now - wall) ELSE Acc(now - wall)

-----------------------------------------------------------------------------
\* Two crystals: the device's clock runs faster or slower, and never back.
Tick ==
    /\ now < MaxTime
    /\ now' = now + 1
    /\ \E e \in Skews :
         /\ device' = device + 1 + e
         /\ gained' = IF set THEN gained + e ELSE gained
    /\ UNCHANGED <<base, wall, set, phase, streamVars>>

\* The device restarts, and its clock with it.  On a connection that dies of
\* it no frame arrives any more, so it is of interest between connections only.
DeviceRestarts ==
    /\ phase = "down"
    /\ device' = 0
    /\ UNCHANGED <<now, base, wall, set, phase, streamVars, gained>>

\* The reply was stamped by the device before it travelled; a device that
\* reports no clock (seconds of zero) leaves the base as it is.
Handshake ==
    /\ phase = "down"
    /\ \/ \E d \in 0..MaxDelay :
            /\ device > d
            /\ base' = device - d
            /\ wall' = now
            /\ set' = TRUE
            /\ gained' = 0
       \/ UNCHANGED <<base, wall, set, gained>>
    /\ phase' = "config"
    /\ UNCHANGED <<now, device, streamVars>>

StartStream ==
    /\ phase = "config"
    /\ next' = now
    /\ begin' = now
    /\ phase' = "open"
    /\ UNCHANGED <<now, device, base, wall, set, timing, seeded, sent, gained>>

\* The first frame is stamped from the clock, every other after the one before.
Stamp == IF phase = "open" THEN Clock + Lead ELSE timing

\* The slot has come, now or while the loop was held up; what was set as the
\* frame in the meantime determines the span.
StampFrame ==
    /\ phase \in {"open", "stream"}
    /\ next <= now
    /\ seeded' = IF phase = "open" THEN now ELSE seeded
    /\ \E span \in Spans :
         /\ timing' = Stamp + TimelineStep(span)
         /\ next' = next + CadenceStep(span)
    /\ sent' = sent + 1
    /\ phase' = "stream"
    /\ UNCHANGED <<now, device, base, wall, set, begin, gained>>

\* Mutant: the base outlives the connection.
Kept == set

\* ClockBase::unset.
Unset == FALSE

\* The connection fails: the base is forgotten, and so are the variables of
\* the streaming loop.
Disconnect ==
    /\ phase # "down"
    /\ phase' = "down"
    /\ set' = Unset
    /\ timing' = 0 /\ next' = 0
    /\ begin' = 0 /\ seeded' = 0 /\ sent' = 0
    /\ UNCHANGED <<now, device, base, wall, gained>>

TimelineNext ==
    Tick \/ DeviceRestarts \/ Handshake \/ StartStream \/ StampFrame \/ Disconnect

TimelineSpec == TimelineInit /\ [][TimelineNext]_timelineVars

-----------------------------------------------------------------------------
\* What a frame's stamp may gain on its slot, or lose, by the two resolutions.
MaxGain == (SleepUnit - 1) \div 2 - (Gap % StampUnit)
MaxLoss == StampUnit - 1 + SleepUnit \div 2 + (Gap % StampUnit)

\* The device's clock as the host would have it, from the reply on.
Extrapolated == device - gained

\* Once the device has told its time, no frame is stamped further ahead of its
\* clock than the lead, the time the first frame was late, a fraction of a
\* nanosecond per frame sent, and what the device's clock has gained or lost
\* against the host's since the reply: however the spans change, however long
\* the loop is held up and however often the clock was learned and forgotten
\* before, or restarted ("Cadence must match the timeline advance").
NeverFarAhead ==
    phase = "stream" /\ set =>
      timing <= Extrapolated + Lead + (next - now) + (seeded - begin) + sent * MaxGain

\* Nor is it stamped later than its slot on the same clock, but for the time
\* the reply was under way and what the stamps lose: the lead lasts for as many
\* frames as cover it.
NeverBehind ==
    phase = "stream" /\ set =>
      timing >= Extrapolated + Lead + (next - now)
                  - MaxDelay - (StampUnit - 1) - sent * MaxLoss

(* The inductive strengthening: the base is never ahead of the device, and  *)
(* from the first frame on stamps and slots part by the resolutions only.   *)

BaseInv ==
    /\ wall <= now
    /\ phase = "down" => ~set
    /\ set => /\ base <= Extrapolated - (now - wall)
              /\ Extrapolated - (now - wall) <= base + MaxDelay

\* What the stamps have gained on the slots.
Parted == timing - (base + Acc(seeded - wall) + Lead) - (next - begin)

StreamInv ==
    /\ phase # "stream" => sent = 0
    /\ phase = "open" => begin = next
    /\ phase \in {"open", "stream"} => wall <= begin /\ begin <= now
    /\ phase = "stream" =>
         /\ begin <= seeded
         /\ set => /\ Parted <= sent * MaxGain
                   /\ Parted >= -(sent * MaxLoss)

TimelineInv == TimelineTypeOK /\ BaseInv /\ StreamInv

=============================================================================

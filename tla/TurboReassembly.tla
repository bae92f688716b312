---------------------------- MODULE TurboReassembly ----------------------------
(***************************************************************************)
(* UDP turbo frames: the host cuts a frame into 0dbe fragments              *)
(* (build_udp_turbo_frames of fb4_rust/src/proto.rs, sent by stream_frames  *)
(* of session.rs), the network carries the datagrams, and the emulator      *)
(* collects them by counter and publishes the body when the fragment marked *)
(* last is there (udp_turbo_loop of src/fb4_device.rs).                     *)
(*                                                                         *)
(* The bytes of a fragment are named by the frame they are cut from and     *)
(* their place in it, and a copy that the network has made of a datagram by *)
(* its number besides.  A body decrypts if it starts with the header of a   *)
(* frame that was sealed with the counter it was collected under; any       *)
(* other passes the test and parses by chance, and is noise.                *)
(*                                                                         *)
(* `recv` does not tell the sender: the sources are two hosts that stream   *)
(* to one emulator, or one host's session and the next one, whose           *)
(* datagrams meet those of the first.                                      *)
(***************************************************************************)
EXTENDS Naturals, FiniteSets, SequencesExt

CONSTANTS
    NFrags,       \* NFrags[s][n]: fragments of the n-th frame of source s
    MaxInNet,     \* bound: datagrams under way
    MaxCopies,    \* bound: datagrams the network duplicates
    CounterMod,   \* size of the wire counter (2^16 in the code)
    Chunk,        \* bytes of a fragment (1452 in the code)
    OffsetMod,    \* size of the wire offset (2^16 in the code)
    MaxPending    \* the limit on `frags` (64 in the code)

Source    == 1..Len(NFrags)
MaxFrames == Max({Len(NFrags[s]) : s \in Source})
MaxFrags  == Max(UNION {Range(NFrags[s]) : s \in Source})

ASSUME TurboAssumption ==
    /\ NFrags \in Seq(Seq(Nat \ {0})) /\ MaxFrames > 0
    /\ CounterMod \in Nat \ {0} /\ MaxPending \in Nat \ {0} /\ MaxCopies \in Nat
    /\ Chunk \in Nat \ {0} /\ OffsetMod \in Nat \ {0}

Part     == [source : Source, num : 1..MaxFrames, idx : 1..MaxFrags, copy : 0..MaxCopies]
Datagram == [part : Part, offset : 0..(OffsetMod - 1),
             counter : 0..(CounterMod - 1), last : BOOLEAN]

VARIABLES
    lossy,       \* the network loses datagrams
    reordering,  \* the network overtakes datagrams
    copies,      \* datagrams the network has duplicated
    num,      \* num[s]: framenum of the frame source s is sending
    cut,      \* cut[s]: fragments of that frame already sent
    net,      \* datagrams under way
    frags,    \* the emulator: fragments collected, by counter
    shared,   \* the parts of the body published last, in order
    since     \* history, num[s] when a datagram not of s, or a copy, last came, or 0

network == <<lossy, reordering, copies>>
vars    == <<network, num, cut, net, frags, shared, since>>

TypeOK ==
    /\ lossy \in BOOLEAN
    /\ reordering \in BOOLEAN
    /\ copies \in 0..MaxCopies
    /\ num \in [Source -> 1..(MaxFrames + 1)]
    /\ cut \in [Source -> 0..MaxFrags]
    /\ net \in Seq(Datagram)
    /\ frags \in [0..(CounterMod - 1) -> Seq(Part)]
    /\ shared \in Seq(Part)
    /\ since \in [Source -> 0..(MaxFrames + 1)]

Init ==
    /\ lossy \in BOOLEAN
    /\ reordering \in BOOLEAN
    /\ copies = 0
    /\ num = [s \in Source |-> 1]
    /\ cut = [s \in Source |-> 0]
    /\ net = << >>
    /\ frags = [c \in 0..(CounterMod - 1) |-> << >>]
    /\ shared = << >>
    /\ since = [s \in Source |-> 0]

-----------------------------------------------------------------------------
(* The host.                                                               *)

\* Mutants: the counter always is 0 on the wire, or it is cut to one bit.
WireCounterZero(n)   == 0
WireCounterNarrow(n) == n % 2

WireCounter(n) == n % CounterMod

\* The offset a fragment has on the wire, cut to 16 bits.
WireOffset(idx) == ((idx - 1) * Chunk) % OffsetMod

\* A source may stop in the middle of a frame for good: a failed send, or the
\* loss of the control connection, ends stream_frames.
SendFragment(s) ==
    /\ num[s] <= Len(NFrags[s])
    /\ Len(net) < MaxInNet
    /\ LET last == cut[s] + 1 = NFrags[s][num[s]]
       IN  /\ net' = Append(net,
                 [part    |-> [source |-> s, num |-> num[s], idx |-> cut[s] + 1, copy |-> 0],
                  offset  |-> WireOffset(cut[s] + 1),
                  counter |-> WireCounter(num[s]),
                  last    |-> last])
           /\ cut' = [cut EXCEPT ![s] = IF last THEN 0 ELSE @ + 1]
           /\ num' = [num EXCEPT ![s] = IF last THEN @ + 1 ELSE @]
    /\ UNCHANGED <<network, frags, shared, since>>

-----------------------------------------------------------------------------
(* The network.                                                            *)

\* The positions the network may deliver from.
Deliverable == IF reordering THEN 1..Len(net) ELSE 1..(IF net = << >> THEN 0 ELSE 1)

Lose ==
    /\ lossy
    /\ \E i \in 1..Len(net) : net' = RemoveAt(net, i)
    /\ UNCHANGED <<network, num, cut, frags, shared, since>>

\* A datagram comes again, behind those under way.
Duplicate ==
    /\ copies < MaxCopies
    /\ Len(net) < MaxInNet
    /\ copies' = copies + 1
    /\ \E i \in 1..Len(net) :
         net' = Append(net, [net[i] EXCEPT !.part.copy = copies + 1])
    /\ UNCHANGED <<lossy, reordering, num, cut, frags, shared, since>>

-----------------------------------------------------------------------------
(* The emulator.                                                           *)

\* Mutant: fragments are put together as they came.
BodyUnsorted(parts) == parts

\* The place of the i-th fragment in the order of the offsets; of two with the
\* same offset the one that came first stays ahead.
Place(parts, i) ==
    Cardinality({j \in DOMAIN parts :
        \/ WireOffset(parts[j].idx) < WireOffset(parts[i].idx)
        \/ WireOffset(parts[j].idx) = WireOffset(parts[i].idx) /\ j <= i})

\* A stable sort by offset, and the concatenation of what is sorted.
Body(parts) ==
    [k \in DOMAIN parts |-> parts[CHOOSE i \in DOMAIN parts : Place(parts, i) = k]]

\* Mutant: the host seals with its frame number, all of it.
SealWhole(n) == n

\* What the host mixes into the key of frame n: `param5`, masked to 16 bits.
Seal(n) == n % CounterMod

\* A body without its header, or sealed with another counter, may still pass
\* for a turbo frame, or not.
Published(body, counter) ==
    IF body[1].idx = 1 /\ Seal(body[1].num) = counter THEN {body} ELSE {body, shared}

Pending(f) == {c \in DOMAIN f : f[c] # << >>}

\* Mutant: the guard drops what is in progress.
GuardedAlways(f) == [c \in DOMAIN f |-> << >>]

\* The guard against growth: too many incomplete frames, and all are dropped.
Guarded(f) ==
    IF Cardinality(Pending(f)) > MaxPending THEN [c \in DOMAIN f |-> << >>] ELSE f

\* What is kept under the counter of datagram d.
Collected(d, parts) == IF d.last THEN << >> ELSE parts

\* The source that expects the datagram: for a copy there is none.
Owner(p) == IF p.copy = 0 THEN p.source ELSE 0

Receive ==
    /\ \E i \in Deliverable :
         LET d     == net[i]
             parts == Append(frags[d.counter], d.part)
         IN  /\ net' = RemoveAt(net, i)
             /\ frags' = Guarded([frags EXCEPT ![d.counter] = Collected(d, parts)])
             /\ IF d.last THEN shared' \in Published(Body(parts), d.counter)
                          ELSE UNCHANGED shared
             /\ since' = [s \in Source |->
                            IF s = Owner(d.part) THEN since[s] ELSE num[s]]
    /\ UNCHANGED <<network, num, cut>>

-----------------------------------------------------------------------------
Next == (\E s \in Source : SendFragment(s)) \/ Lose \/ Duplicate \/ Receive

Spec == Init /\ [][Next]_vars

-----------------------------------------------------------------------------
\* Datagrams of another source, and copies, no longer matter to frame n of s:
\* none ever came, or since the last one every counter has been used by a frame
\* of s.
Recovered(s, n) == since[s] = 0 \/ n > since[s] + CounterMod

\* The wire offsets of the frame's fragments do not wrap.
Fits(s, n) == (NFrags[s][n] - 1) * Chunk < OffsetMod

Frame(s, n) ==
    [i \in 1..NFrags[s][n] |-> [source |-> s, num |-> n, idx |-> i, copy |-> 0]]

\* Without loss and overtaking what is published is a frame, all of it and
\* nothing else, also when the counter has wrapped; its parts are in order
\* unless it is too long for the wire offsets.  What another host, or an
\* interrupted session, has left behind, and a datagram that came twice, spoil
\* one frame per counter at most ("reassemble": the doc comment of
\* udp_turbo_loop).
WholeFrames ==
    ~lossy /\ ~reordering =>
      \A k \in 1..Len(shared) :
        LET s == shared[k].source
            n == shared[k].num
        IN  Recovered(s, n) =>
              /\ ToSet(shared) = ToSet(Frame(s, n)) /\ Len(shared) = NFrags[s][n]
              /\ Fits(s, n) => shared = Frame(s, n)

\* Two hosts' frames may be joined, lost datagrams may leave holes, and a
\* fragment that came twice may be there twice; but a body never holds parts of
\* two frames of one host, within one turn of the counter, and beyond it as long
\* as nothing is lost and it holds no copy.
OneFrameBodies ==
    ~reordering =>
      \A i, j \in 1..Len(shared) :
        LET s == shared[i].source
            n == Max({shared[i].num, shared[j].num})
        IN  /\ s = shared[j].source
            /\ lossy \/ shared[i].copy > 0 \/ shared[j].copy > 0 => n <= CounterMod
            => shared[i].num = shared[j].num

\* No datagram is used twice, so that a body has a fragment twice only if the
\* network has duplicated it (`push` does not ask whether it is there): what was
\* published is neither waiting for another frame nor still under way, and a
\* body has the parts of a frame in their order, whatever was lost, duplicated,
\* overtaken, joined or broken off.
FragmentsUsedOnce ==
    \A k \in 1..Len(shared) :
      /\ \A j \in 1..(k - 1) :
           LET s == shared[k].source
               n == shared[k].num
           IN  shared[j].source = s /\ shared[j].num = n =>
                 /\ shared[j] # shared[k]
                 /\ Fits(s, n) => shared[j].idx <= shared[k].idx
      /\ \A c \in DOMAIN frags : shared[k] \notin ToSet(frags[c])
      /\ \A n \in 1..Len(net) : net[n].part # shared[k]

\* Without loss and overtaking the last frame sent has been published whenever
\* the network is empty: none is left out, also after the counter has wrapped,
\* and also when another host has been streaming, or datagrams have come twice,
\* some frames before.
AllForwarded ==
    ~lossy /\ ~reordering /\ net = << >> =>
      \A s \in Source :
        cut[s] = 0 /\ num[s] > 1 /\ Recovered(s, num[s] - 1) =>
          shared # << >> /\ shared[1].source = s /\ shared[1].num = num[s] - 1

\* Whatever is lost, the picture of a host that streams alone never goes back
\* to an earlier frame, within one turn of the counter and as long as no
\* datagram comes twice.
NeverBack ==
    [][\A s \in Source :
         ~reordering /\ since'[s] = 0 /\ num[s] <= CounterMod + 1 =>
           shared = << >> \/ (shared' # << >> /\ shared'[1].num > shared[1].num)]_shared

=============================================================================

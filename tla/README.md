# A verification project for fb4_bridge

`fb4_bridge` presents Ether Dream laser DACs to QuickShow/BEYOND as FB4
controllers.  This directory holds TLA+ models of the bridge (`src/`) and of the
FB4 driver library vendored with it (`fb4_rust/`), the TLC configurations that
check them, and TLAPS proofs of the properties that matter most.  Paths below
are relative to the repository.

## 1. The system

    host (QuickShow, or fb4_rust)         fb4_bridge                    Ether Dream
    +--------------------------+   +-----------------------------+   +-------------+
    | run_net    <--- UDP 9022/20808 ---> discovery_responder     |   |             |
    | run_session ---- TCP 3348 --------> serve (thread per conn.)|   |             |
    |   stream_frames - UDP 3348 -------> udp_turbo_loop          |   |             |
    +--------------------------+   |          | shared (mutex)    |   |             |
                                   |          v                   |   |             |
                                   |      etherdream::drive ----- TCP ---> buffer   |
                                   |      discover_dacs <---- UDP 7654 - broadcast  |
                                   +-----------------------------+   +-------------+

| Component | State it keeps | Operations | What makes it correct |
|---|---|---|---|
| Control server (`fb4_device.rs`: `run`, `serve`, `handle_msg`, `decode_tcp_frame`) | per connection: buffer, key base, scanning flag, ack timer; common: the shared frame | accept, read, handshake, frame, enable, disable, query, ack | only frames that were sent are shown; both ends hold the same key; frames in order; acks not starved; threads end |
| Turbo receiver (`udp_turbo_loop`) and sender (`build_udp_turbo_frames`) | fragments by counter; frame number | fragment, collect, publish, guard | bodies whole and of one frame; no datagram used twice |
| Discovery responder (`discovery_responder`) | two sockets, one-second timer | broadcast, receive, reply | every host finds the emulator; every probe is answered |
| Main thread (`main`, `discover_dacs`) | sockets, DACs heard, addresses | open, listen, deduplicate, assign, start | each DAC that was heard has one bridge, and no two share an address |
| Start of an emulator (`run`) | listener, deadline | bind, retry, give up | a usable address is served |
| DAC driver (`etherdream.rs`) | cursor, `begun`, the last status | connect, prepare, ping, fill, submit, back off | never overfill, no jump in the image, bounded lag, back to playing after every failure but an answer that never comes |
| Network task, device table (`discovery.rs`, `lib.rs`, `ffi.rs`) | table of devices, channel | tick, receive, ensure, add, read an index, set a frame by index | one session per device; an index goes on naming its device; a serial is kept |
| Session task (`session.rs`) | phase, connection, reader task | connect, handshake, configure, stream, keep alive, tear down | death noticed, own death only, reconnection, no leaked readers |
| Timeline (`clock.rs`, pacing in `session.rs`) | base, wall, stamp, slot | set, unset, stamp, advance | stamps and slots part by no more than their resolutions |
| Point codec and conversion (`proto.rs`, `convert.rs`) | last point on both sides | serialize, pad, parse, convert | what is parsed is what was drawn |
| Calendar (`session.rs`, `proto.rs`) | none | two conversions | agree with the calendar (not modelled) |

The hard parts are the connection threads that share one frame buffer, a driver
that acts on the DAC's status of a moment ago, datagrams that are lost, late or doubled,
a host that reconnects with state of its last session still in the emulator, a
notification that only wakes who is waiting, and retries that race a deadline.
`PROJECT.json` lists each of these hazards at its line, with the properties that
would catch it going wrong.

## 2. The modules

Actions are named after the code: one action is one pass of a thread from one
point where another can interfere to the next (a read, a write, a lock, an
`await`).

| Module | Models | Remarks |
|---|---|---|
| `Fb4Control` | `run`'s accept loop, `serve`, `handle_msg`, `decode_tcp_frame`; on the host `session_once`, TCP streaming | The thread's position in `serve` is `thread[c]`: "top" (the ack), "read", "handle" (the loop over messages), "publish" (decoded, the lock not yet taken). A connection is opened once; a reconnection is another one. A host closes, breaks off, or is "gone" without a word; what is written to it then is never acknowledged ("unanswered"), and the kernel gives it up. |
| `Framing`, `MessagePipe` | the extraction of messages from `buf`; the pipe of messages `Fb4Control` assumes | A header may tell a size that no message has: the loop is never past it. `Framing` implements `MessagePipe` up to there. |
| `DacDriver` | `run`, `drive`, `room`; the DAC is external | "fill" is the top of the loop, "submit" the moment before the data are sent. `known` is `dac.status.buffer_fullness`. A request and its answer are one step, but for the DAC that acknowledges and dies (`AnswerLost`): the driver is then "hung", in a read without a timeout. |
| `Bridge`, `LaserRelay` | `main.rs` 79-89: an emulator and a driver around one buffer | `Bridge` joins `Fb4Control` and `DacDriver`: writing the buffer is one step of both. It implements `LaserRelay`: frames are adopted in order and without gaps, the last one of a host that goes on sending it may come back after another host's, the picture never goes back, the last frame is eventually drawn, unless the driver hangs. |
| `TurboReassembly` | `build_udp_turbo_frames` and `udp_turbo_loop` | Two sources: two hosts, or a session and the one after it, whose datagrams meet. Counter, key counter and offset have a width. Whether the network loses or overtakes is drawn in `Init`, and it may duplicate any datagram under way (`Duplicate`; a copy has a number, so that it can be told from the first). The properties say which of the three they need absent; `since` remembers when a copy, or a datagram of the other source, last came to disturb a source. The stable sort by offset is given by the place each fragment gets (`Place`), which needs no recursion. |
| `Pairing` | `main`, `discover_dacs`, `ip_offset` | Broadcasts arrive on several sockets, again, and from an address that changed. |
| `Startup`, `Boot` | `run` 68-101, the binds of the three threads; the main thread that starts emulator after emulator | `Boot` composes `Pairing` and `Startup`: `Bridge` starts an emulator's threads while the main thread goes on. |
| `Discovery` | `discovery_responder`, `run_net`, `parse_reply` | A buffer is the set of the senders whose datagrams wait in it. |
| `Manager` | `net_loop`, `ensure_device`, `add_device`, `set_frame_index`; in `ffi.rs` the count, the address and the frame of an index | The application reads an index in one step (`aim`) and uses it in a later one. |
| `Segment` | a network: emulators, other FB4s, other hosts, and the host of the driver library | Composes `Discovery` and `Manager` around `found`, the channel between `run_net` and `net_loop`. |
| `HostSession` | `run_session` with both transports, the reader task, `set_frame` | Each connection keeps its own ends and reader, so that what an earlier session left behind is still there. |
| `Timeline` | `ClockBase`, the stamps and slots of `stream_frames` | Stamps drop what is below their unit of 2^-32 s (`Acc`), slots round to nanoseconds (`Slept`); the device's clock runs at its own rate (`Skews`) and starts again from zero when the device does. |
| `PointStream` | `FrameData::from_points`, `serialize_points`, the padding, the chaining of the cipher's blocks and back, `parse_point_stream`, `to_dac_points` | The fields have their sizes in bytes, so that the blocks fall where they fall in the code. |

`MC*` modules give constants their values for TLC; the other modules are checked
as they are.  `*Proofs` modules hold the theorems.  Modules that are composed, or that
one proof module extends together, carry their component in the names of the common
definitions (`ManagerInit`, `TimelineNext`, `PointSpec`).

Some operators are commented `Mutant:`.  Each is a plausible mistake in the code
that the definition after it stands for (a missing guard, an off-by-one, a
forgotten reset), and `PROJECT.json` names for every checked property a mistake
under which TLC finds it violated.  No specification uses them.

### What is abstracted

* Bytes.  A message is a record; a frame is the connection and the position it was
  sent at; a fragment is the frame and its index.  Only `Framing` and `PointStream`
  count bytes, because their properties are about them.
* Ciphers.  `Respond` and `SessionKeybase` are parameters.  A frame decrypts to
  itself with its own key, and to nothing or to noise with any other.  A block of
  cipher text is named by the plain block and the block it is chained to.
* Values.  `Timeline` counts ticks of which both units are multiples (in the code
  `StampUnit` = 10^9 and `SleepUnit` = 2^32 ticks of 1/(2^32 * 10^9) s); `PointStream` has a field of a few coordinates and
  one colour channel, which is coded as the three are.

### What is assumed of the surroundings

* An Ether Dream answers with its state after the command, or dies first; takes `prepare` only when
  idle, and clears its buffer then; stops when it runs dry; refuses data that do not
  fit; stops, at once or after playing out, when its connection is gone; and greets a
  new connection only once it has left "prepared".
* TCP delivers in order and without gaps up to the point where a connection breaks; a
  write succeeds until the kernel knows that the connection is dead, and it comes to
  know that once bytes it has sent are not taken.
* Datagrams may be lost, overtaken and duplicated on the way of the turbo frames.  A copy comes
  behind what is under way when it is made, `MaxCopies` times.
* A socket on :9022 bound to its own address receives the broadcasts of its interface,
  its own included (`main.rs` 172-175 says of Windows that a socket must be bound so).
* Another FB4 or host (`Peer`) sends what it likes when it likes, so it stands for an
  emulator, a real FB4 or another copy of the driver library.  A node whose datagrams
  are all lost stands for one whose socket could not be opened.
* The addresses listed on the command line differ (`PairingAssumption`).  A bridge has no
  more DACs than there are addresses.
* `Notify::notify_waiters` wakes those who wait and is not remembered; dropping the
  write half of a tokio stream shuts down that direction.

## 3. What TLC checks

Bounds are constants with a comment `bound:` in the module that declares them; each
appears as a guard of the action it limits.  `CHECK_DEADLOCK FALSE` stands in the
configurations in which the system may stop: a bridge that is running or has given up, a
host that has left, a frame that is parsed, time that is up, datagrams that are used up, a driver
that waits for an answer that never comes.  `HostSession` and `Segment` never stop, and their
runs check that.

| Run | Shows | Bounds, and why they are enough |
|---|---|---|
| `fb4control_pair` | `LatestConnection` | Two connections, of two hosts or of one that lost its first; one frame each, which the host sends again and again, so that every order of the two threads at the buffer occurs for ever. |
| `fb4control_single` | `NoGarbage`, `KeyAgreement`, `OutputAgrees`, `FramesInOrder`, `FrameDelivered`, `AckNotStarved`, `ThreadEnds` | Two nonces give a wrong key for each right one. Three messages under way: enough for a read that returns some but not all of them, with a frame, an enable and a disable in any order. The theorems lift the bounds of the first four, and the one connection. |
| `dac_driver` | `NeverOverfull`, `CyclicOrder`, `StaleBounded`, `KeepsPlaying`, `LatestShown` | Frames of different lengths, shorter and longer than a batch; a buffer of more than two batches; two failures, of which a lost answer is one kind, so that one can hit the recovery from the other. 75 thousand states. |
| `bridge` | `IsRelay` | One host, two frames, one failure: a frame is superseded while the first is in every place it can be. 387 thousand states. For more hosts see `BridgeProofs`. |
| `bridge_disable` | finding: disabling does not darken | |
| `turbo` | `WholeFrames`, `OneFrameBodies`, `FragmentsUsedOnce`, `AllForwarded`, `NeverBack` | Every kind of network, and a copy of any one datagram; five frames of one source with counters modulo 3, so that they wrap and meet the counter of the other source; a frame of four fragments whose last offset wraps; a limit of one incomplete frame, which loss exceeds. Two datagrams under way are enough for every overtaking of neighbours. 2.4 million states in a minute. The theorems lift the bounds of all five. |
| `segment` | `OneSessionPerDevice`, `RightDevice`, `SerialKept`, `Discovered`, `ProbesAnswered` | An emulator, another FB4, another host, and the host, with discovery on or off, whose application adds the emulator before, between and after the announces and holds an index meanwhile. The theorems lift the bounds of the first three. |
| `host_session` | `OwnDeathOnly`, `DeadNoticed`, `StreamsLatest`, `ReadersEnd` | Two failures give three connections: one whose leftovers meet the next, and one after both. Two configuration messages stand for sixteen that differ in nothing the model has. The theorem lifts the bounds of the first. |
| `timeline` | `NeverFarAhead`, `NeverBehind` | Units of two and of three ticks: a frame of two ticks makes the stamps lose one, a frame of four makes them gain one. Eleven ticks are several frames of both, with reconnections, restarts, and a device's clock that is slow, true or fast in every tick. The theorems lift the bounds. |
| `point_stream` | `RoundTrip`, `BodyRecovered`, `DacInRange` | All frames of up to three points over the extremes and the centre: the third is the first that is sent as a difference, the lengths of the bodies leave every kind of rest in the last block, and the count, modulo 8, wraps in the longer ones. The theorems lift the bounds. |
| `framing` | `NothingLost`, `IsPipe` | Reads of 1 to 7 bytes on messages of 3 and more, one of them with a size that is too small: a read can end at every place of a message and hold more than one. The theorems lift the bounds, but for the fairness of the pipe. |
| `boot` | `PairsDistinct`, `HeardAreBridged`, `Starts`, `UsableIsServed` | Three DACs on up to two sockets; no address, a base that is the last of four addresses, so that counting wraps, or a list of two; one change of address; the second emulator followed through its start. |

`TypeOK` (`ManagerTypeOK`, `TimelineTypeOK`, ...) is in no configuration: the proofs show it,
or have a stronger one of their own, and where there are none it documents what the
variables range over.

### Fairness

Threads and tasks are scheduled: weak fairness of each thread's own steps, never of a
choice within them, never of hosts that need not send, of the application, or of
failures.  On top of that:

* `Fb4Control`: 500 ms pass (`AckTimer`), the kernel gives up a connection whose bytes are
  not taken (`KernelGivesUp`), and a host that has a connection streams: strong fairness of
  `SendFrame`, which is not possible while the queue is full.  Hosts may leave at any time.
* `DacDriver`: the DAC's point clock runs (`Dac`).  Failures are bounded by `MaxFaults`:
  what is shown holds once the network is quiet for long enough, and unless the driver hangs.
* `HostSession`: the keep-alive second passes; a kernel whose bytes are not taken gives
  up; a device closes a connection its host has shut down.
* `Boot`: the six seconds of the window and the 20 s of the binds pass, and address
  detection ends.
* `Segment`: responder and `net_loop` run.  Strong fairness says that not all broadcasts of
  an emulator are lost to the host or to the emulator itself, and that the datagram of
  every sender has its turn in a buffer, which is read in the order it was filled (the model
  keeps the buffer as a set and has to say so).  Ticks of `run_net`, peers and the
  application are free.
* `Framing`, `MessagePipe`, `LaserRelay`: the thread's step; `CatchUp(n)` for the frame that
  stays the last.

### Findings

`bridge_disable` confronts a comment of the code, "disable output", with what the code
does: the connection's scanning flag is cleared and nothing else, and the laser stays lit
with the last frame.

Other places where code and comment disagree were met while modelling.  No run is kept
for them; the properties state what does hold.

* The discovery responder binds once (`src/fb4_device.rs` 167-173), the control server
  for 20 s: an emulator whose address is a moment late is served and never announced.
  `Discovered` is about responders that came up.  `UsableIsServed` is about the control server
  only, and not about an address that comes up between its last failed bind (90) and the look
  at the deadline (91): that one is given up.
* "Reconnects on error", says `src/etherdream.rs` 28 of `run`.  But an answer is read without a
  timeout (51 and 68, and in `connect`): when the DAC has acknowledged a request and
  dies, nothing is outstanding that TCP would miss, and the driver waits for ever.
  `KeepsPlaying`, `LatestShown` and `LaserRelay` except that state.
* "Cadence must match the timeline advance", says `fb4_rust/src/session.rs` 236; it does up to
  rounding.  The span and the gap of a frame are cut to units of 0.23 ns in the stamp (`proto.rs` 24,
  279-280) and the sum is rounded to a nanosecond in the slot (237): per frame the stamps gain
  at most 0.35 ns on the slots or lose at most 0.88 ns.  A lead of 24 ms lasts for 27 million
  frames at least - hours of the shortest frames, days of long ones - and nobody corrects it
  on a connection that lasts longer; two crystals that differ by a millionth eat it up in less than seven hours.  `NeverFarAhead` and
  `NeverBehind` state both, with the number of frames and the drift as they are.
* `udp_turbo_loop` publishes what it has when the fragment marked last is there (360),
  holes included, takes a fragment twice if it comes twice (359), and joins fragments of a broken-off session, or of another host, with the
  frame of the same counter (359).  `WholeFrames` is about networks without loss, and
  names the frames that such leftovers and copies spoil.
* Any datagram from another address counts as a probe (200), other emulators' announces
  and answers included: two emulators on one segment answer each other without end.
  `Discovered` and `ProbesAnswered` hold in spite of it.
* A thread whose host has vanished, and that was not scanning, reads timeouts for ever
  (241); `ThreadEnds` says so.
* `ClockBase::unset` keeps `wall` (`fb4_rust/src/clock.rs` 52): an unset clock counts from the
  last handshake, not from the start.
* The count of a frame wraps from 65536 points on (`fb4_rust/src/proto.rs` 184).

## 4. What is proved

TLAPS checks these for all values of the constants that satisfy the named assumptions.

* `Fb4ControlProofs` - `Spec => []TypeOK`, `[]NoGarbage`, `[]KeyAgreement`, from
  `BoundsAssumption` and `DistinctAssumption` (the special values are no frames or keys).
  `NoGarbage` is not inductive: it needs to know the key under which a queued frame was
  sealed.  `IInv` adds, per connection, that nothing travels before the handshake and
  that the handshake travels alone (`HandshakeInv`), that both keys derive from the host's
  nonce (`KeyInv`), and what the queued and decoded frames are.  The step is one case per
  action; nothing on one connection disturbs another's part.
  `FramesInOrder` and `[]OutputAgrees` follow there too.  Both say that a thread ends up where
  its host wants it, so one invariant serves them: handling the messages under way leads
  from what the thread has (`Now`: the frame decoded or published, the flag) to what the host
  has asked for (`Asked`).  `Leads` states that by a function from the places of the queue to
  the intermediate states, which needs no recursion; the queue lemmas say what it does when
  a message is appended, when the head is handled, and when the end of the queue is lost.
* `DacDriverProofs` - `[]TypeOK`, `[]NeverOverfull`, `[]StaleBounded`, `[]CyclicOrder` and
  `PictureInOrder`, from the assumptions on capacity, batch size and frames.  Numbers:
  `known` is never below the true fullness, because between two answers the DAC only plays
  (`KnownInv`); the batch was cut to fit above it (`BatchInv`); and a superseded point at
  place i of what is still to be played, plus the superseded points already played, stays
  below the capacity (`StaleInv`).  Order: every step but `Fill` leaves a stretch of the stream
  of points (`OtherSteps`), and `Fill` goes on behind its last point, because the cursor is
  one past it as long as the frame is the same (`CursorInv`), which is arithmetic modulo the
  length of the frame (`NextModulo`).  Picture: what waits is no older than what is shown and
  in the order of publication (`PictureInv`).
* `BridgeProofs` - `Spec => Relay!Safety`: the bridge takes only steps of `LaserRelay`, for any
  number of hosts.  It runs the control server and the driver (`ControlRuns`, `DacRuns`), so
  the theorems of both hold in it; the buffer never holds a frame that its connection has
  not counted (`SharedInv`).  `BridgeAssumption` collects the assumptions of the parts.
* `TurboProofs` - everything the `turbo` run checks, for any number of sources, frames and
  fragments and any width of the counter, from `TurboAssumption`; the limit of the table is
  not zero (it is 64).  How many datagrams are duplicated, and which, is free.
  - `[]FragmentsUsedOnce`, on every network.  `PlaceInv` says where a datagram can be: whatever is
    about was sent, and is collected under its own counter (`SentInv`); a copy has a number the
    network has given, to one datagram only (`CopyInv`); a datagram is under way, in the
    table or published, but never in two places (`OnceInv`); and a body lies in the order of the
    offsets (`BodyInv`).  So a fragment is used as often as the network delivers it, and never more.  That a sort keeps each fragment once is the lemma `BodyArranges`:
    `Place` maps the fragments one to one onto the places, a fact about cardinalities.
  - `NeverBack`.  Without overtaking what is under way and what is in the table, but for copies, lies
    in the order it was sent (`OrderInv`), and what is published of a source that is alone comes before
    all of it (`AloneInv`).
  - `[]WholeFrames`, `[]OneFrameBodies`, `[]AllForwarded`, without loss and overtaking.  `FifoInv` says
    which fragment the emulator gets next from each source, that no fragment is missing behind
    it (`RunInv`), and what it has of the source by then (`Awaits`): of the frame under way
    just the fragments before that one, and published the frame before.  A frame that another
    source or a copy has met is the only exception, and what is left of it is swept away at the latest
    when the counter has come round.  `OneFrame` and `WholeFrames` are part of the
    invariant, because `Published` may keep the body there was.
* `FramingProofs` - `[]NothingLost` and `Spec => Pipe!Safety` for messages of any sizes and reads of any
  length.  `StreamedInv` says how the bytes not yet handled, in the buffer and under way, are laid
  out: `Laid` gives the place of every message in them, with nothing but stray bytes
  around.  A read moves the boundary of what has arrived, resynchronisation passes stray bytes
  only, and extraction takes exactly the first message off (`Cuts`).  That nothing from the first
  malformed header on is handled is an argument by a least number (`Least`).
* `StreamingProofs` - the host's three parts.
  - `OwnDeathOnly` of `HostSession`, for any number of failures.  `SessionInv`: a wake-up that has
    reached the loop belongs to the current connection, and that one is over and stays so.
  - `[]NeverFarAhead`, `[]NeverBehind`, for any two resolutions.  The base is never ahead of the device,
    drift taken off (`BaseInv`), and from the first frame on the stamp is the base's clock at that
    moment, plus the lead, plus what the slots have advanced, give or take what each frame
    sent adds (`StreamInv`); that is arithmetic about the two conversions (`Truncated`, `Rounded`,
    `StepsPart`).
  - `[]RoundTrip`, `[]BodyRecovered`, `[]DacInRange` of `PointStream`, for frames of any length.  Both
    sides follow `Beam`, the place of the beam after each point: the k-th item in the body is
    its way from one to the next (`BodyInv`), and the parser's values are its place
    (`ParseInv`).  `LayoutInv` says at which byte each point ends, so that the parser's position is
    known, and with `PadInv` and `CipherInv` that the text goes on to the footer: no field is
    cut, and the body ends before the text.
* `SegmentProofs` - `[]OneSessionPerDevice`, `[]RightDevice`, `SerialKept` of `ManagerSpec`, in
  which anything may be heard at any time.  One lemma about `ensure_device` carries all
  three: its result is the table before, `Grown` - every entry in its place, with its address
  and with its serial if it had one, and no address twice.
  `Spec => ManagerSpec`, and so the same three on the segment, for any number of emulators,
  peers and devices.
* `BootProofs` - `[]PairsDistinct` and `[]HeardAreBridged` for any number of DACs, sockets and
  addresses.  `IInv` follows the DACs: each one heard has one entry (`HeardInv`), the addresses
  are those assigned (`AssignedInv`), and the bridges are the first entries with the first
  addresses (`BridgesInv`).  That counting up from a base gives no address twice, although it
  wraps, is arithmetic (`OffsetsDistinct`) and needs that there are no more DACs than
  addresses (`FewEnough`).

So every invariant and every action property that a run checks is a theorem.  Only
model-checked is liveness, and with it the fairness of `IsRelay` and `IsPipe`: it is out of the
prover's reach, as is `ENABLED`.  So are the library's induction theorems, which take an operator
as a parameter.  The proofs do without: recursive notions are stated by functions that
the invariants carry along (`Leads`, `Laid`), and where a least number is needed, by the
set form of well-foundedness (`WFMin`).

## 5. What is not modelled

* The bits of DES, of the key table and of messages (`proto.rs` 28-111, 285-315,
  `messages.rs`): arithmetic on bits, without state, which known answers test.
* The calendar conversions (`civil_from_days`, `days_from_civil`): pure arithmetic, which a
  unit test over every day of an era settles.
* In the C interface (`ffi.rs`) `fb4_new`, `fb4_free`, the null checks and the conversion of
  points: nothing of it is kept between two calls.
* The one-shot `discover`, which nothing calls; `netsh` and the listing of interfaces.
* The contents of replies other than 0181, which no host in the repository looks at.
* A host that does not read its replies and so blocks the thread that writes them
  (`fb4_device.rs` 234): the model writes without blocking, because replies are few and small.
* A bridge that goes on with the first address of a DAC that has got another one
  (`main.rs` 86): nothing promises that it follows.
* A 02 or 0e message shorter than 32 bytes, whose slices (`fb4_device.rs` 327-331) would end the
  thread in a panic: no host in the repository sends one.
* The base's 32.32 fixed point and its wrap after 136 years; a device that restarts while its
  connection still counts as up (none of its frames arrive).
* `invert_y`, which `main.rs` 84 never sets, is an input of `PointStream` all the same.
* DACs with a capacity below 2; a table of devices that is read while the manager is freed.

## 6. Plan

The order is that of importance: control server and DAC driver, which every frame passes;
their composition; the turbo path; how a bridge starts and is found; the driver library's
table, session, timeline and codec.  Done: the modules above, each with its run, and the
proofs above.

Next, the models:

1. Compose `HostSession` with `Fb4Control` (the session's phases driving a connection and
   its reconnection against the thread that the last connection left behind), and state
   what the two promise together.
2. Let turbo frames and TCP frames feed one `Bridge`, which has the TCP path only.

Next, the proofs:

1. What the two steps above add.
2. That a connection of `Fb4Control` runs the pipe, so that the theorems of `Framing` carry over to
   its queue.
3. For the turbo path, an abstract relay of frames as `LaserRelay` is for TCP, and the step
   simulation from `TurboReassembly`.

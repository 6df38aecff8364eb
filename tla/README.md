# Formal models of the UDP/QUIC audio server

The server receives audio from one client at a time and plays it through WASAPI. Over
UDP the client talks to `tcpHandler` (hello, heartbeats) and sends packets to the main
thread; over QUIC a Rust bridge (`quic-bridge/src/lib.rs`) accepts the client and hands
events to the main thread. The main thread puts packets in order, decodes them and writes
samples to a ring buffer, from which the render thread feeds the sound device.

This directory holds TLA+ models of those parts, the TLC configurations that check them
on small instances, and TLAPS proofs of what can be proved for every instance.

## Inventory

| Component | State | Operations | Interacts with | What is hard |
|---|---|---|---|---|
| Ring buffer (`ring_buffer.h`) | `buffer_`, `head_`, `tail_` | `write`, `read`, `availableToRead`, (`reset`: no caller) | main writes, render thread reads, without a lock | two `memcpy` at once, cursor wrap, cut batches |
| Sequence receiver (`main.cpp:546-609`, `protocol.h`) | `expectedSeq`, `sortingArea` | one packet in each of three modes; start of a session | decoder, ring, `bufferLow_` of the renderer | 8-bit numbers over loss, duplication, reordering |
| UDP session (`main.cpp`) | `g_running`, `g_configReady`, `g_udpSocket`, `g_tcpSocket`, `g_tcpClient`, `initialized`, the ring pointer | main loop, `tcpHandler`, `closeTcpClient`, `signalHandler` | four threads, one mutex for the configuration only | sockets closed by one thread under another's feet; shutdown |
| QUIC session (`lib.rs`, `main.cpp`) | `running`, `disconnect_requested`, the event channel | accept, hello, audio, end; poll, set up, tear down | an unbounded channel one way, two flags the other way | events of several sessions queued; requests that name no session |
| Bridge statistics (`lib.rs` `SessionStats`) | expected number, missing marks, last-seen times, counters, clock bounds | `accept`, `stats_payload`, sync result | filters what reaches C++; reported to the client | 8-bit numbers against a wall clock |
| Heartbeat (`main.cpp:222-260,611-620`) | `g_seqTimestamps`, `g_hbLastEndSeq`, `g_expectedSeq` | reply; arrival; reset at set-up | TCP thread reads, main writes, relaxed atomics | reset in the middle of a reply; 256 frames look like none |
| Renderer (`wasapi_renderer.cpp`) | speed, stretch buffer, `bufferLow_`, running flag | `init`, `start`, `stop`, `renderThread` | ring, `onFatalTimeout` | timeouts, arithmetic of skip and fade |
| Opus decoder (`opus_decoder.cpp`) | decoder handle | `init`, `reset`, `decode`, `decodeLoss` | called by main only | may refuse any payload |
| Packet queue (`packet_queue.h`) | a ring of packets | `push`, `pop` | nobody includes it | - |
| Message parsing, DLL loading, CLI, build | - | - | - | one message or one call each, no state kept |

What makes each of them correct: the **ring** is a FIFO and its two copies never meet; the
**receiver** writes frames in order, at most once, and loses none it has cached; a **UDP
session** that was acknowledged is served or ends, nobody uses a freed ring or a foreign
socket, and Ctrl+C ends the process; a **QUIC session** is decoded with its own
configuration and decoder, ends when its client goes, and never blocks the next; the
**statistics** add up and do not eat frames; the **heartbeat** names every frame once, with its
own arrival time; the **renderer** fills every buffer it is given from what it read, without a
step in the sound, and skips frames only when there are too many.

## Modules

| Module | Models | Its state and actions in the code |
|---|---|---|
| `SampleFifo` | abstract: a bounded FIFO of samples | `Put` and `Get` of a whole batch |
| `RingBuffer` | `ring_buffer.h` | `WriteBegin`/`WriteCopy`/`WriteEnd` are `write()` split at the load of the other cursor, at every sample of the two `memcpy`, and at the store of its own cursor; `ReadBegin`/`ReadCopy`/`ReadEnd` likewise; `AvailableToRead` is the question `renderPitchPreserved()` asks first |
| `ModArithmetic` | lemmas about numbers that wrap, used by the proofs | |
| `RingBufferProofs` | theorems about `RingBuffer` | |
| `SequenceReceiver` | `main.cpp:546-609`, `isNewer()` | one action per mode and case of a packet (`ReceiveQuic`, `ReceiveDiscard`, `ReceiveExpected`, `ReceiveEarly`, `Drop`), `Underrun` of the renderer, `NewSession` |
| `SequenceReceiverProofs` | theorems about `SequenceReceiver` | |
| `SessionOrder` | abstract: sessions are played one at a time, in order | refined by both transports |
| `UdpSession` | threads and sockets over TCP + UDP | `mpc`, `tpc`, `rpc`, `spc` say where main, `tcpHandler`, the render thread and the signal handler are; a step is what a thread does between two accesses another thread can see |
| `UdpSessionProofs` | theorems about `UdpSession` | |
| `QuicSession` | bridge thread, event channel, main | `bpc`, `mpc`, `spc`; `events` is the `mpsc` channel. The bridge looks at `running` when it begins to listen (`BridgeListens`) and again after 100 ms (`BridgeTimesOut`); a client that comes in between is accepted (`BridgeAccept`) although the server may have been stopped |
| `QuicSessionProofs` | theorems about `QuicSession` | |
| `BridgeStats` | `SessionStats` | one action per arm of `accept()`, `SyncResult`, `Report`, and the clock. What arrives when is not read off the code's own state: each frame has a capture time (`CapturedAt`) and comes within `Latency` of it (`Arrives`), so after a stall many come at once. `absent` is there for the properties: the frames passed over that have not come since |
| `BridgeStatsProofs` | theorems about `BridgeStats` | |
| `Heartbeat` | `main.cpp:222-260,453-460,611-620` | extends `SequenceReceiver`, whose actions are the part of main between `recvfrom()` and the arrival times. `mpc` and `tpc` say between which two accesses to `g_seqTimestamps`, `g_hbLastEndSeq` and `g_expectedSeq` main and `tcpHandler` are; `ReadEntry` is one turn of the loop over the range. `told`, `arrival` and the unwrapped `published` and `end` are there for the properties |
| `HeartbeatProofs` | theorems about `Heartbeat` | |
| `TimeStretch` | the arithmetic of `wasapi_renderer.cpp:123-293` | operators only: how much to read, where the skip may begin, and the output as a sequence of cells, each naming the input frames it lies between and its gain |
| `RenderLoop` | `renderThread()` from `WaitForMultipleObjects` on | extends `TimeStretch`. `LookAtBacklog`, `LookAtProtect`, `ChooseSpeed` are `renderThread()`'s three looks at what main writes and sets, `Ask` and `Plan` the two of `renderPitchPreserved()`; `Read`, `Fill`, `Release` follow; main writes, clears `bufferLow_` and sets the parameters after `start()` |
| `RenderLoopProofs` | theorems about `RenderLoop` | |
| `MC*` | the instances TLC checks | |

Sample values, frames, sockets and sessions are model values or small numbers; what a
payload contains is left out. The receiver and the statistics number frames without
wrapping beside the 8-bit numbers the code keeps: the code's decisions are computed from
the wrapped numbers only, and the properties compare them with the true ones.

In `RenderLoop` frames are numbered as they are written, and a cell of the output is not a
sample but its origin: the two frames it is mixed from and a gain, as a fraction of the
way through the fade (the code bends it by `smoothStep()`, which is monotone). So the
properties can say that frames follow one another without knowing any sample. The target
speed `exp(x * x * x * protect / baseline)` is left open: any speed from normal to the limit
while more than `protect` is buffered, and normal speed otherwise, which is what the formula
and its guard give. `findSmoothSkip()` takes the best of the places for the skip; the model
takes any. The ring is the FIFO that `RingBuffer` refines.

In `Heartbeat` the atomics are relaxed in the code; the model takes them in program order,
as the x64 build executes them. The loop that clears the 256 arrival times is one step. A
tick of the clock is the time of one frame.

The ring's acquire and release pairs make an interleaving of these steps exact: each cursor
has one writer, and a sample is read only after the store that published it.

Sockets in `UdpSession` are handles with a kind. A handle that was closed may be given out
again. `Reissuable` keeps a number that some thread still holds from being reused, unless
`ReissuesHeld` is set; the operating system gives no such promise, so one run sets it.

## Runs

| Run | Bounds | Shows |
|---|---|---|
| `ring` | 4 slots, cursors modulo 8, batches up to 3 frames, mono and stereo, two sample values | every interleaving of the two sides: `NoSlotRace`, `AvailabilityOnlyGrows`, `WholeFrames`, refinement of `SampleFifo`. Three cuts (at the array's end, at the free space, at the width of `size_t`) all happen in four slots; two values are enough to see a sample in the wrong place |
| `receiver` | 16 sequence numbers, a window of 6, forced skip at 3, concealment up to 2, 40 frames | two and a half laps, all three modes and both codecs. A packet may be late by up to `SeqMod - Window` and ahead of the expected frame by less than a lap (`NetworkBounded`). Losing so many frames that every packet is outside the window, until the number has almost come round, is within these bounds |
| `stale_lap` (violation) | as above, one frame further ahead | see finding 1 |
| `udp_session` | 4 handles, 2 clients | everything `UdpSession` promises, when the next client comes only once main is idle. Two sessions give every hand-over from one to the next; four handles are the listener, the UDP socket, a client and a spare, so reuse happens |
| `udp_reconnect` (violation) | the same with `FastReconnect` | see finding 3 |
| `udp_handle_reuse` (violation) | the same with `ReissuesHeld`, no set-up failure | see finding 4 |
| `quic_session` | 3 clients, 2 frames each, the second client sends PCM, the others Opus | sessions that fail at every stage while earlier events are still queued; a session is decoded by its own decoder |
| `bridge_stats` | 6 sequence numbers, half range 4, 8 frames, one captured per tick, up to 2 ticks on their way, a duplicate within 4; gaps up to 2 of which one frame is marked, late by up to 2, 1 duplicate counted, offsets 0 and 1, three ages, latencies cut at 1 | a lap and a third with every arm of `accept()`, in every order with synchronisations and reports, and with marks left behind on numbers that come round again. A lap of captures is exactly as long as latency and duplicate time together (`StreamInStep`) and the latency shorter than the duplicate time (`Prompt`, see Proofs for both). An offset changes the sign of a latency in one step and both ends of the cut are reached |
| `reliable_stream` (violation) | 4 sequence numbers, 6 frames, nothing lost or late, up to 3 ticks on their way, a duplicate within 2 | see finding 5: one tick less on their way and `StreamInStep` would hold |
| `heartbeat` | 4 sequence numbers, 6 frames, a window of 3, 2 clients, an arrival time kept for 2 ticks, packets up to 1 late, discard and reorder mode | a lap and a half for each client, with every interleaving of `tcpHandler`'s reads and main's writes. Four numbers are the fewest for which the end of a range can pass the place where the next begins; the second client is there to find what the first left behind |
| `heartbeat_early` (violation) | the same with `EarlyHeartbeats`, discard mode | see finding 2 |
| `renderer` | a ring of 10 frames, 16 frames written, callbacks of 1, 4 and 6 frames, fades of up to 3, speeds up to 6/8 above normal in steps of 2/8 | backlog, catching up, running dry and recovering, within one callback and over several, with a callback too short for a cross-fade among them; parameters set one by one after the thread has started |

`udp_session`, `quic_session` and `heartbeat` do not check deadlock: with the last client gone
and nobody pressing Ctrl+C the server waits for ever, as it should.

### Fairness

`UdpSession` and `QuicSession` assume weak fairness of each thread: the operating system
runs it while it can take a step. `socket()` succeeds if tried again and again (strong
fairness of `MainCreateSocket`, which a free handle enables only now and then). Nothing is
assumed of the outside: a client need not connect, speak or leave, a packet need not
arrive, the device need not time out, and Ctrl+C need not be pressed. `recv()` returns when
the client has left or its socket is closed; `recvfrom()` returns when its socket is closed.

The bridge is taken to go on listening and to look at `running` again and again
(`BridgeListens`, `BridgeTimesOut`); that a client is accepted is not assumed.

`Heartbeat` assumes that both threads run and that a client that stays asks again; no packet
need arrive, which is why `CatchesUp` speaks of a stream that pauses.

`ShutdownCompletes` has an exception in both models that is in the code: over UDP
`signalHandler` does not close `g_tcpClient`, so a client that stays connected and says
nothing keeps `tcpHandler` in `recv()` and main in `join()`; over QUIC `handle_connection`
reads the hello without a timeout and without looking at `running`.

## Findings

1. **A frame of the lap before is played after a newer one** (`stale_lap`, `main.cpp:590`).
   A frame cached in `sortingArea` stays there until `expectedSeq` reaches it. If the
   expected frame is lost and 14 frames later nothing has come that moves `expectedSeq`, every
   packet is outside the window of `isNewer()` and dropped until the expected number comes
   round: then the packet of the next lap is taken for the expected one, played, and the old
   frame after it. `README.md:91` says old sequence numbers are dropped. `InOrder` holds as
   long as no packet that arrives is a lap ahead of the expected frame (`NetworkBounded`); a
   loss of 14 frames is enough to get there, if the client goes on sending.
2. **A heartbeat during set-up** (`heartbeat_early`, `main.cpp:459`). `tcpHandler` sends the
   acknowledgement before main has seen that there is a client. Until main has reset
   `g_hbLastEndSeq` and `g_expectedSeq`, a heartbeat is answered with frames of the client
   before; one that read `g_expectedSeq` before the reset and stores it afterwards makes all
   later answers of the session begin in the wrong place. `README.md:97` lets a client ask as
   soon as it is acknowledged. Run `heartbeat` has clients that wait.
3. **A session without a UDP socket** (`udp_reconnect`, `main.cpp:489`). `tcpHandler` closes
   the UDP socket with every client, even one that never said hello. If the next hello is
   published before main looks, main sets up the renderer with `g_udpSocket` invalid and
   creates a socket only when no session is initialized.
4. **A handle is closed twice** (`udp_handle_reuse`, `main.cpp:70` and `274`).
   `closeTcpClient()` closes the handle `tcpHandler` holds. If main creates the next UDP
   socket before `tcpHandler` closes its copy again, and is given the same number, the new
   socket is closed and `g_udpSocket` keeps naming it.
5. **Frames of a reliable stream are dropped as duplicates** (`reliable_stream`,
   `lib.rs:114`). After a stall of the connection the frames held up come at once. If it was
   long enough, one of them and the frame a lap after it come less than 500 ms apart, and the
   second is dropped. 256 frames of 10 ms take 2.56 s to capture, so a stall of a little more
   than 2.06 s is enough.

Besides, the comment at `main.cpp:587` says that the forced skip sets the expectation straight
to the packet that arrived; the code moves it by one. The code is right: skipping to the
packet breaks `CachedAreCurrent` (that is its mutant).

`OwnArrivalReported` leaves out one case on purpose: a number whose frame was lost is still
answered, with the arrival time of the lap before, although `main.cpp:57` says that 0 stands
for "not arrived". `UdpAudioProtocol.md:33` says that the times need not be valid and that a
client is to leave out those which come to a latency below -20 ms; a time that is a lap old does.

## Proofs

Everything in `RingBufferProofs` holds for every capacity, number of laps of the cursors,
batch size, sample set and set of channel counts allowed by the assumptions of `RingBuffer`.

- `TypeCorrect`, `RaceFree`: neither invariant is inductive. The cursors of a copy in
  progress were read before the other thread moved its own; what makes the copy safe is that
  it still fits. `CopiesFit` says so: the samples in the ring are at most `Cap`, those being
  written fit in the space that is free now, and those being read are there now.
  `IInv == TypeOK /\ CopiesFit` is inductive (`InitIInv`, `NextIInv`).
- The arithmetic rests on `ModArithmetic` and is in three lemmas: `UsedAfterWrite` and
  `UsedAfterRead` say how the distance of the cursors changes when one of them advances
  modulo `Cap * Laps`, and `SlotDistance` that two positions less than `Cap` apart never
  share a slot. `RaceFree` follows: positions read lie in `[tail, tail + rcount)`,
  positions written in `[head, head + n)`, and `CopiesFit` keeps all of them within one
  lap of `tail`.
- `PromiseKept`: only `ReadEnd` shrinks what is available, and it needs a `ReadBegin`, which
  forgets the answer.
- `FramesStayWhole`: the invariant `FramesWhole` says that the cursors, the batch being
  written and the batch being read are multiples of the channel count. A batch that is cut is
  cut to the free space or to what is there, which are multiples too, because the capacity
  is one and so is the modulus of the cursors.
- `RingIsFifo`, the refinement of `SampleFifo`: `CopiedSoFar` says that what a write has copied
  lies beyond the contents, and what a read has copied is their beginning. It is stated by
  positions counted from `tail` (`Place`); `HeadSlot`, `AdvanceSlot` and `CopySlot` bring the
  slots of the code to that form, where `WholeLaps` takes care of the wrap, and `PlacesApart`
  says that positions less than a capacity apart do not share a slot. So a `WriteCopy` leaves
  the contents alone, `WriteEnd` is a `Put` and `ReadEnd` a `Get`.

`SequenceReceiverProofs` holds for every number of sequence numbers, window, forced-skip
distance, longest concealed gap and length of stream. Its theorems have the hypothesis
`NetworkBounded`: a packet is at most `SeqMod - Window` frames (241 in the program) behind
the newest one and fewer than `SeqMod` ahead of the *expected* one. That is less than it
sounds: see finding 1 for how few losses it takes to leave it. The `stale_lap` run shows what
happens when a packet may be one frame further ahead.

- `Typed`, `CachedCurrent`: by the inductive invariant
  `IInv == TypeOK /\ CachedAreCurrent /\ Reached`. `Reached` adds that the expected frame is
  at most one past the newest that arrived, which the forced skip keeps because it
  skips one frame only when a later one is there; that what was played is before what is
  expected; and that only the reorder mode caches, and only frames that arrived. Without the
  first of these the bound on late packets says nothing about the distance to the expected
  frame. `AcceptedFrame` uses it, with the lemma on differences modulo `SeqMod`, to show that
  a packet which `isNewer()` accepts is the frame it is taken for.
- `WritesInOrder`, `CachedIsPlayed`: both follow from what one run of the drain loop does
  (`DrainStep`). The frames it releases are the expected one and those right after it, so
  the batch is a run of consecutive numbers after the last frame played (`WriteInTurn`), and
  a frame cached before it is either in that run or still cached after it.

`RenderLoopProofs` holds for every ring, callback, fade and speed. `IInv == TypeOK /\ Planned /\
OutputFilled`. `Planned` relates the ring to the phase of the callback: between the question and
the read at least as much is buffered as was planned, because only this thread reads, and more
is planned than the output needs only when there was a surplus. That holds although main may
set the parameters between any two of the thread's looks, because the speed is above normal
only when the first looks found a surplus. `Filled` needs that every way of
making the sound (`SoundFills`, and `SpliceFills` for the three parts of a cross-faded skip) gives
as many frames as are needed or were read, taken from those frames; the underrun path fills up
the rest (`FillCells`). `PlanHolds` and `FromSurplus` follow from `Planned`.

- `SoundUnbroken` and `FadesMeet` speak of two frames heard one after the other, and the hard
  pair is the one across two callbacks: nothing in the output says what the next read will
  begin with. `HeardInv == LastHeard /\ OutputGoesOn`, inductive relative to `IInv`, does.
  `LastHeard`: the frame remembered from the last callback is silence exactly when the
  next one will fade in (before the first callback there is none), and otherwise at full
  gain and the last frame taken from the ring, unless that callback cut a read short.
  `OutputGoesOn` says the same of the end of the output that was just made, and that every
  frame of it follows on from the one before (`Smooth`), with the gain changed by at most
  one step of a fade (`Level`).
- What one callback makes is in four lemmas: `SoundRuns` (a copy or a splice goes on without
  a break across the skip and ends with the last frame read), `RisenSound` (fading in keeps
  that, and begins with the first step of the fade), `SilenceFalls` (what fills up an underrun
  dies away from the last frame heard, in this callback or the one before), and `FillGoesOn`,
  which puts sound and silence together.
- The only step that may be heard is behind a callback too short for a cross-fade, where the
  code copies what fits and drops the rest. `NeverAStep`: a device that always asks for enough,
  eight frames in the program, never gets to hear one.

`HeartbeatProofs` holds for every width of the sequence number, length of stream and number of
clients that satisfies `ClockAssumption`, for clients that do not ask during set-up
(`~EarlyHeartbeats`; finding 2 is what happens otherwise).

- `ReceiverImplemented`: every step of `Heartbeat` is a step of `SequenceReceiver` or leaves its
  variables alone, so what is proved of the receiver holds here. `HbTyped` uses that, with the
  receiver's hypothesis `NetworkBounded`; the other two need no bound on the network.
- `Meet`: by `Meets == Counters /\ SettingUp /\ Telling`. `Telling` says what the range being
  answered stands for in numbers that do not wrap: it begins at `told`, ends at a number that
  had been published, and is shorter than a lap, so the walk over wrapped numbers stops at
  the right place.
- `OwnTimes`: by `Times`. `Recorded(s)` says of the slot of a number that it holds the arrival of
  the newest frame with that number, or will once main has recorded the packet it holds. A
  slot is rewritten after 300 ms; `ClockAssumption` puts a duplicate before that and the next
  lap (`LapApart`) after it.

`BridgeStatsProofs` holds for every width, half range, limit of marks, length of stream and
capture times. `TypeCorrect` and `LatencyInterval` have no hypothesis. The others have
`StreamInStep`, which is about the stream and not about what the code remembers of it: a lap
of frames takes longer to capture than the latency and the duplicate time together, a gap is
shorter than half the range, and nothing is so late that its number looks newer. The last two
have `Prompt`, which adds that a frame is on its way for less than the duplicate time.

- `InTurn`: the invariant `Seen` says that a time remembered for a number is 0 or not later
  than the latest that a frame with that number and not newer than the newest can arrive. A
  newer frame with the same number was captured at least a lap later, so the filter lets it
  pass (`NewerNotSeen`). Finding 5 is what happens when a lap is shorter than that.
- `CountersAddUp`: by `AtNewest`. Before the first frame every counter is zero, and afterwards
  the expected number is the one after the newest frame and the highest counted frame is that
  frame. `NewerAccepted` and `OlderNotAhead` say that the code, which sees distances modulo
  256, then tells newer frames from older ones.
- `LossIsTrue`, `RecoveredLost`: by `Ghosts`. Every frame from the first to the newest is absent
  or has arrived, and of one that arrived, its number keeps the time until a later lap uses it
  (`StillRecorded`). A duplicate comes within the latency of its capture, hence of that time,
  and is refused before its mark is looked at; so what is accepted as recovered is absent
  (`RecoveredAbsent`), even if the mark that let it in is of an earlier lap.

`UdpSessionProofs` holds for every set of handles, number of clients and setting of the three
switches, except where it says so.

- `RingOutlives`: `RingInSession` says that the ring is there exactly as long as there is a
  session, and that the render thread lives and main receives only within one. It needs
  nothing of the sockets.
- `UdpUsable` has the hypothesis `~ReissuesHeld`: a number that some thread still remembers is
  not handed out again. Then the handles that `tcpHandler` and `closeTcpClient()` hold are a
  client's or closed (`SocketInv`), so closing them never hits the UDP socket. Finding 4 is the
  same property without the hypothesis.
- `OneAtATime`, the refinement of `SessionOrder`: `Ordered` says that when main may still set up
  what is published (`Open`), it is newer than what it played last. It holds also with
  `FastReconnect`, where a session may be played under the wrong socket but never twice.
- `TypeCorrect` is inductive by itself.

`QuicSessionProofs` holds for every number of clients and frames, hence for a channel of any
length. The channel is described by two operators. `Leads(events, a, b)`: applied in order, the
events take the configuration from session `a` to session `b`, and each packet is of the
session published when its turn comes. `Ascends`: the configurations in the channel are of
ever later sessions, later than the one applied last. `ChannelInv` says that the channel leads
from what is published now to what the bridge is serving; the bridge's steps extend such a
channel (`LeadsOn`, `AscendsOn`) and main's take its head (`LeadsFrom`, `AscendsFrom`). With it
`Playing` is inductive: main plays what was published last, each session once, with its
decoder. `Decoded` is part of `Playing`; `OneAtATime` is the refinement of `SessionOrder`.

Only model-checked: the liveness properties `SessionServed`, `SessionEnds`,
`ShutdownCompletes`, `ConfigSettles` and `CatchesUp`. They need fairness, hence `ENABLED`, which
TLAPS does not reach. Every invariant, action property and refinement that a passing run checks
is also a theorem.

## Assumptions of the models

- `NetworkBounded` (`SequenceReceiver`): see Proofs.
- `ClockAssumption` (`Heartbeat`): a lap of sequence numbers takes longer than 300 ms and the
  latest packet, and a packet is not later than 300 ms. 256 frames of 10 ms are 2.5 s.
- `StreamInStep` (`BridgeStats`, proofs only; `bridge_stats` satisfies it): see Proofs. Finding 5
  is what happens without it. Stalls longer than the duplicate time, which it allows, are
  covered by the proofs of `InTurn` and `CountersAddUp` and by no run.
- `Prompt` (`BridgeStats`, proofs only; `bridge_stats` satisfies it). Without it
  `RecoveredWasLost` is violated, as TLC shows when a frame may be on its way for as long as its
  number counts as a duplicate: a frame is lost and marked; a lap later the frame with that
  number comes in its turn, which leaves the mark; a duplicate of it after the duplicate time is
  taken for a recovered frame, counted and handed on again. It takes a client that sends a frame
  twice over a reliable stream, which `QuicAudioProtocol.md:43` rules out, so no run presents it
  as a finding.
- `AsksOften` (`Heartbeat`): a client asks at least once in a lap. Otherwise the range is
  taken modulo 256, and a whole lap looks like nothing. No run shows that, nor what happens
  without `ClockAssumption`: neither contradicts anything a document says.
- No packet of one client reaches the socket of the next. Nothing in a packet names its
  session, so the code could not tell.
- The wall clock is not set back (`BridgeStats`, `Heartbeat`).
- The device asks for what it has room for and hands out that buffer (`RenderLoop`);
  `GetBuffer()` does not fail.

## Not modelled, and why

- `nextPowerOf2()`: bit operations on one number, called once per session with a value that
  is never 0; the capacity is a parameter of `RingBuffer`.
- `packet_queue.h`: nothing includes it, so nothing says how it is used.
- WASAPI, MMCSS, libopus, quinn, Winsock: external; modelled by the outcomes the code sees.
  Set-up of the device is a list of such calls; its success or failure is in the sessions.
- Parsing of single messages, DLL loading, endpoint set-up, options, logging: no state that
  outlives the call. A message is accepted or refused, and both are explored. A heartbeat
  request is taken as one piece.
- The jitter of the report: a floating-point average nothing else depends on.
- `bind()` of a socket created again is taken to succeed.

## Plan

Done: ring, receiver, both sessions, statistics, heartbeat, renderer; proofs of every safety
property and refinement the passing runs check. Next, in order of what is at stake:

1. Composition of the receiver and the render loop over one ring: what an underrun does to
   the order of frames when `bufferLow_` makes main skip.
2. Fragmented heartbeat requests, with the bytes left over in one `recv()`.

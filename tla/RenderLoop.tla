------------------------------ MODULE RenderLoop ------------------------------
(***************************************************************************)
(* The render thread of wasapi_renderer.cpp: what it does each time the     *)
(* device asks for frames, while the main thread writes to the ring, clears *)
(* bufferLow and, after start(), sets the parameters of the speed control.  *)
(*                                                                         *)
(* A step is what the thread does between two accesses to what it shares    *)
(* with main.  The ring is the FIFO that RingBuffer implements, in whole    *)
(* frames, which are numbered as they are written.  How far the speed rises *)
(* with the backlog is left open: any speed up to the limit.                *)
(***************************************************************************)
EXTENDS TimeStretch

CONSTANTS Capacity,        \* frames the ring holds
          Frames,          \* a bound of the model: how many frames main writes
          Batches,         \* how many it writes at once
          Needs,           \* how many frames the device may ask for
          Climb,           \* the speed rises by at most 0.02 from one callback to the next
          Protect,         \* frames that may be buffered without raising the speed,
          DefaultProtect,  \* ... and before setProtect()
          MaxSpeed,        \* the fastest speed,
          DefaultMaxSpeed  \* ... and before setMaxSpeed()

ASSUME LoopAssumption ==
  /\ {Capacity, Frames, Climb, Protect, DefaultProtect, MaxSpeed, DefaultMaxSpeed} \subseteq Nat
  /\ Batches \subseteq Nat /\ Needs \subseteq Nat \ {0}

VARIABLES
  written, consumed,  \* frames written to the ring and read from it
  bufferLow, wrote,   \* bufferLow_; whether main is about to clear it after a write
  settings,           \* how many parameters are set: baseline, protect, speed limit
  rpc,                \* where the thread is
  baseline, buffered, \* what the thread saw: a baseline set, frames buffered
  speed,              \* currentSpeed_
  surplus,            \* was more than protect buffered when it looked?
  need, want, got,    \* needSamples, what is asked of the ring, what it gave, in frames
  output,             \* the device's buffer
  last,               \* lastOutputSamples_, or NoCell before the first callback
  cut,                \* did the last callback leave out frames at its end?
  recovering          \* recoveringFromSilence_

ring == <<written, consumed>>
shared == <<bufferLow, wrote, settings>>
local == <<rpc, baseline, buffered, speed, surplus, need, want, got, output, last, cut, recovering>>
vars == <<ring, shared, local>>

NoCell == [left |-> -1, right |-> -1, gain |-> <<0, 1>>]

Buffered == written - consumed
SpeedsUp == settings >= 1
protect == IF settings >= 2 THEN Protect ELSE DefaultProtect
maxSpeed == IF settings >= 3 THEN MaxSpeed ELSE DefaultMaxSpeed
RoomInclusive == Capacity - Buffered + 1
Room == Capacity - Buffered

\* init(), then start(); a renderer that played before keeps its parameters.
Init ==
  /\ written = 0 /\ consumed = 0
  /\ bufferLow \in BOOLEAN /\ wrote = FALSE /\ settings \in {0, 3}
  /\ rpc = "wait" /\ baseline = FALSE /\ buffered = 0 /\ speed = 0 /\ surplus = FALSE
  /\ need = 0 /\ want = 0 /\ got = 0
  /\ output = <<>> /\ last = NoCell /\ cut = FALSE /\ recovering = FALSE

-------------------------------------------------------------------------------
(* The main thread.                                                        *)

MainSets ==
  /\ settings < 3
  /\ settings' = settings + 1
  /\ UNCHANGED <<ring, bufferLow, wrote, local>>

\* writePcm(): what does not fit is lost.
MainWrites(n) ==
  /\ written + n <= Frames
  /\ written' = written + Min2(n, Room)
  /\ wrote' = TRUE
  /\ UNCHANGED <<consumed, bufferLow, settings, local>>

MainClearsLow ==
  /\ wrote
  /\ bufferLow' = FALSE /\ wrote' = FALSE
  /\ UNCHANGED <<ring, settings, local>>

-------------------------------------------------------------------------------
(* The render thread.                                                      *)

\* The device has room for n frames.
DeviceAsks(n) ==
  /\ rpc = "wait"
  /\ need' = n
  /\ rpc' = "look"
  /\ UNCHANGED <<ring, shared, baseline, buffered, speed, surplus, want, got, output, last,
                 cut, recovering>>

\* The baseline and the backlog.  These two looks may be one: without a baseline the backlog
\* does not matter, and a baseline that is set stays set.
LookAtBacklog ==
  /\ rpc = "look"
  /\ baseline' = SpeedsUp /\ buffered' = Buffered
  /\ rpc' = "protect"
  /\ UNCHANGED <<ring, shared, speed, surplus, need, want, got, output, last, cut, recovering>>

LookAtProtect ==
  /\ rpc = "protect"
  /\ surplus' = (baseline /\ buffered > protect)
  /\ buffered' = 0
  /\ rpc' = "speed"
  /\ UNCHANGED <<ring, shared, baseline, speed, need, want, got, output, last, cut, recovering>>

\* Normal speed up to protect, some higher speed above it.
Targets == IF surplus THEN 0 .. maxSpeed ELSE {0}

\* Up a little at a time, down at once.
SpeedLagging(target) == IF target > speed THEN Min2(target, speed + Climb)
                                          ELSE Clamp(target, speed - Climb, maxSpeed)
NewSpeed(target) == IF target > speed THEN Min2(target, speed + Climb) ELSE target

\* The speed, within the limit set by now; without a baseline the ring is simply read.
ChooseSpeed ==
  /\ rpc = "speed"
  /\ \E target \in Targets : speed' = NewSpeed(target)
  /\ rpc' = IF baseline THEN "ask" ELSE "read"
  /\ want' = need /\ got' = 0 /\ baseline' = FALSE
  /\ UNCHANGED <<ring, shared, buffered, surplus, need, output, last, cut, recovering>>

\* renderPitchPreserved() asks how much there is ...
Ask ==
  /\ rpc = "ask"
  /\ buffered' = Buffered
  /\ rpc' = "plan"
  /\ UNCHANGED <<ring, shared, baseline, speed, surplus, need, want, got, output, last, cut,
                 recovering>>

\* ... and plans what to read of it, at a speed within the limit as it is then.
Plan ==
  /\ rpc = "plan"
  /\ want' = Wanted(need, Min2(speed, maxSpeed), buffered)
  /\ buffered' = 0
  /\ rpc' = "read"
  /\ UNCHANGED <<ring, shared, baseline, speed, surplus, need, got, output, last, cut,
                 recovering>>

Read ==
  /\ rpc = "read"
  /\ got' = Min2(want, Buffered)
  /\ consumed' = consumed + got'
  /\ rpc' = "fill"
  /\ UNCHANGED <<written, shared, baseline, buffered, speed, surplus, need, want, output,
                 last, cut, recovering>>

\* The frames of this read, numbered as they were written.
Numbered(sound) ==
  [i \in 1 .. Len(sound) |-> [sound[i] EXCEPT !.left = @ + consumed - got,
                                              !.right = @ + consumed - got]]
Risen(sound) == IF recovering /\ Len(sound) > 0 THEN FadedIn(sound) ELSE sound
Held(sound) == IF sound = <<>> THEN last ELSE sound[Len(sound)]

RecoveringUnless(sound) == recovering /\ Len(sound) < need
RecoveringAfter(sound) == Len(sound) < need
Fill ==
  /\ rpc = "fill"
  /\ \E s \in Sounds(need, got) :
       LET sound == Risen(Numbered(s))
       IN  /\ output' = sound \o Silence(need - Len(sound), Held(sound))
           /\ recovering' = RecoveringAfter(sound)
           /\ bufferLow' = (Len(sound) < need \/ bufferLow)
  /\ rpc' = "release"
  /\ UNCHANGED <<ring, wrote, settings, baseline, buffered, speed, surplus, need, want, got,
                 last, cut>>

\* rememberLastSamples(), and the buffer goes to the device.
Remembered == output[Len(output)]
Release ==
  /\ rpc = "release"
  /\ last' = Remembered
  /\ output' = <<>>
  /\ cut' = (got > need /\ CutsShort(need))
  /\ rpc' = "wait"
  /\ need' = 0 /\ want' = 0 /\ got' = 0 /\ surplus' = FALSE
  /\ UNCHANGED <<ring, shared, baseline, buffered, speed, recovering>>

Next ==
  \/ MainSets \/ (\E n \in Batches : MainWrites(n)) \/ MainClearsLow
  \/ (\E n \in Needs : DeviceAsks(n)) \/ LookAtBacklog \/ LookAtProtect \/ ChooseSpeed
  \/ Ask \/ Plan \/ Read \/ Fill \/ Release

Spec == Init /\ [][Next]_vars

-------------------------------------------------------------------------------
(* Properties.                                                             *)

Cells == [left : -1 .. Frames, right : -1 .. Frames, gain : Nat \X Nat]

\* Type invariant; main and the render thread never put more into the ring than it holds or
\* take out what is not there, and the speed never passes its limit.
TypeOK ==
  /\ written \in 0 .. Frames /\ consumed \in 0 .. Frames /\ Buffered \in 0 .. Capacity
  /\ {bufferLow, wrote, baseline, surplus, cut, recovering} \subseteq BOOLEAN
  /\ settings \in 0 .. 3 /\ buffered \in 0 .. Capacity
  /\ rpc \in {"wait", "look", "protect", "speed", "ask", "plan", "read", "fill", "release"}
  /\ speed \in 0 .. MaxSpeed \cup 0 .. DefaultMaxSpeed
  /\ need \in Needs \cup {0} /\ want \in 0 .. Frames \cup Needs /\ got \in 0 .. Frames
  /\ output \in Seq(Cells) /\ last \in Cells

\* renderPitchPreserved() and fillSmoothSilence(): whatever was there to read, however far
\* it was skipped and wherever the skip was put, each frame of the device's buffer is
\* filled once, and from frames of this read only (the frame held over into silence may
\* be the last one of the callback before); there is silence only when too little was read.
OutputFilled ==
  rpc = "release" =>
    /\ Len(output) = need
    /\ recovering <=> got < need
    /\ \A i \in 1 .. need :
         \/ {output[i].left, output[i].right} \subseteq consumed - got .. consumed - 1
         \/ got = 0 /\ output[i].left = last.left

\* renderPitchPreserved(): what was planned from availableToRead() is what read() gives, so
\* that the branch which copies a read that came out short is never taken.
ReadAsPlanned == rpc \in {"fill", "release"} /\ want > need => got = want

\* The frames heard one after the other, over the boundary of the callbacks.
Heard == IF last = NoCell THEN output ELSE <<last>> \o output
IsSilent(c) == c.gain[1] = 0
Continues(c, d) == c.right + 1 \in {d.left, d.right}
Holds(c, d) == d.left = c.left /\ d.right = c.right /\ d.gain[1] < d.gain[2]

\* The three loops of the splice and the two fades leave no step in the sound: a frame
\* follows on from the one before it on one side of a cross-fade or on both, or dies away
\* from it, or comes after silence.  Only a callback too short for a cross-fade may leave a
\* step behind it.
NoStepInSound ==
  rpc = "release" =>
    \A i \in 1 .. Len(Heard) - 1 :
      \/ Continues(Heard[i], Heard[i + 1])
      \/ Holds(Heard[i], Heard[i + 1])
      \/ IsSilent(Heard[i])
      \/ i = 1 /\ cut

\* fadeInAfterSilence() and fillSmoothSilence(): silence and sound never meet abruptly, in
\* one callback or over the boundary of two: sound rises from silence from the first step
\* of a fade as long as the callback allows, and otherwise the gain changes by one step of
\* a fade from one frame to the next.
GainChange(c, d) == c.gain[1] * d.gain[2] - d.gain[1] * c.gain[2]
MeetsGently(c, d) ==
  IF IsSilent(c) THEN IsSilent(d) \/ d.gain = <<1, Min2(Min2(got, need), SilenceFade)>>
  ELSE LET step == Min2(c.gain[2], d.gain[2]) IN GainChange(c, d) \in -step .. step
EdgesAreFaded ==
  rpc = "release" => \A i \in 1 .. Len(Heard) - 1 : MeetsGently(Heard[i], Heard[i + 1])

\* The speed control of renderThread(): frames are only skipped from a surplus, when more
\* than protect was buffered, and never in a callback that then runs dry.
SkipsOnlySurplus ==
  rpc = "release" /\ got > need => surplus /\ ~recovering
===============================================================================

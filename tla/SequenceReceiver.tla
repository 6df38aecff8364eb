--------------------------- MODULE SequenceReceiver ---------------------------
(***************************************************************************)
(* What the main loop of main.cpp does with the sequence number of a media *)
(* packet: the acceptance window isNewer(), the three ways of handling a   *)
(* gap (QUIC, --discard-out-of-order, reordering) and the sorting area.    *)
(*                                                                         *)
(* Frames are numbered from 0 in the order the client produced them; on    *)
(* the wire a frame carries only its number modulo SeqMod (a uint8_t).     *)
(* UDP may lose, duplicate and reorder packets; what the QUIC bridge hands *)
(* on is in order, with gaps where its filter dropped a frame.             *)
(***************************************************************************)
EXTENDS Integers, Sequences

CONSTANTS SeqMod,       \* sequence numbers: 256
          Window,       \* the 15 of isNewer(): 14 sequence numbers count as new
          SkipDistance, \* the 4 of the forced skip
          PlcLimit,     \* the longest gap concealed in QUIC mode: 3
          Frames,       \* how many frames the client sends in a session
          Modes,        \* the ways of handling gaps that are considered
          Delay,        \* how far a packet may fall behind the newest that arrived
          Reach,        \* how far it may be ahead of the expected frame
          None          \* an empty entry of the sorting area

ASSUME WindowAssumption ==
  /\ SeqMod \in Nat /\ Window \in Nat
  /\ 2 <= Window /\ Window <= SeqMod
ASSUME SkipAssumption == SkipDistance \in Nat \ {0} /\ PlcLimit \in Nat
ASSUME FramesAssumption == Frames \in Nat /\ None \notin Int
ASSUME ModesAssumption == Modes \subseteq {"quic", "discard", "reorder"}
ASSUME NetworkAssumption == Delay \in Nat /\ Reach \in Nat

\* No packet is so late, or so far ahead of the expected frame, that the low bits of its
\* number place it a lap away from where it belongs.  It does not take the loss of a whole
\* lap to come that far ahead: once Window - 1 frames are lost, 14 in the program, every
\* packet is dropped (Drop) and the expected frame stays behind, until its number comes
\* round again.
NetworkBounded == Delay <= SeqMod - Window /\ Reach < SeqMod

VARIABLES
  mode,          \* how gaps are handled: transport and command line
  opus,          \* activeCodec == AUDIO_CODEC_OPUS
  expectedCount, \* expectedSeq, counted without wrapping
  sortingArea,   \* the frame cached under each sequence number
  newest,        \* the newest frame that has arrived in this session, -1 if none has
  bufferLow,     \* WasapiRenderer::bufferLow_
  written,       \* the frames the last packet caused to be written to the ring
  played         \* the last frame written in this session, -1 if none was

vars == <<mode, opus, expectedCount, sortingArea, newest,
          bufferLow, written, played>>

Seqs == 0 .. SeqMod - 1
FrameIds == 0 .. Frames - 1

SeqOf(frame) == frame % SeqMod
expectedSeq == SeqOf(expectedCount)

\* uint8_t(a - b)
Distance(a, b) == (a - b) % SeqMod

IsNewerOrSame(last, incoming) == Distance(incoming, last) < Window
IsNewerAnyDistance(last, incoming) == incoming # last
IsNewer(last, incoming) == incoming # last /\ Distance(incoming, last) < Window

\* isNewer(expectedSeq - 1, seq): the expected frame or one of the Window - 2 after it.
Accepts(frame) == IsNewer(Distance(expectedSeq, 1), SeqOf(frame))

\* How far ahead of the expected frame the receiver takes a packet to be.
Gap(frame) == Distance(SeqOf(frame), expectedSeq)

\* OpusDecoderRuntime::decode() may reject a payload; PCM is copied and always decodes.
OpusDecodes == BOOLEAN
Decodes == IF opus THEN OpusDecodes ELSE {TRUE}

\* How many frames of a gap OpusDecoderRuntime::decodeLoss() makes up: any of them may fail.
MadeUp(gap) == 0 .. gap

\* A packet that may come off the socket or the stream now, measured from the expected
\* frame: a client that goes on sending while its packets are dropped gets out of Reach.
Arrivals ==
  {f \in FrameIds : /\ f <= expectedCount + Reach
                    /\ f >= IF mode = "quic" THEN newest + 1 ELSE newest - Delay}

EmptyArea == [s \in Seqs |-> None]

Init ==
  /\ mode \in Modes
  /\ opus \in BOOLEAN
  /\ expectedCount = 0 /\ newest = -1
  /\ sortingArea = EmptyArea
  /\ bufferLow = FALSE
  /\ written = <<>> /\ played = -1

\* writePcm() of the frames of batch, in that order.
Write(batch) ==
  /\ written' = batch
  /\ played' = IF batch = <<>> THEN played ELSE batch[Len(batch)]

-------------------------------------------------------------------------------
(* One packet.                                                             *)

\* An old or duplicate sequence number, or one too far ahead, is dropped.
Drop(frame) ==
  /\ ~Accepts(frame)
  /\ Write(<<>>)
  /\ UNCHANGED <<mode, opus, expectedCount, sortingArea, bufferLow>>

\* QUIC: a short gap is concealed at once, then the packet is decoded; the gap is never
\* waited for.
Concealed(gap) == IF opus /\ gap <= PlcLimit THEN MadeUp(gap) ELSE {0}
ReceiveQuic(frame) ==
  /\ mode = "quic"
  /\ Accepts(frame)
  /\ \E lost \in Concealed(Gap(frame)), ok \in Decodes :
       /\ LET concealed == [i \in 1 .. lost |-> expectedCount + Gap(frame) - lost + i - 1]
          IN  Write(IF ok THEN Append(concealed, frame) ELSE concealed)
       /\ bufferLow' = (bufferLow /\ ~ok)
  /\ expectedCount' = expectedCount + Gap(frame) + 1
  /\ UNCHANGED <<mode, opus, sortingArea>>

\* --discard-out-of-order: the frames in between are given up.
ReceiveDiscard(frame) ==
  /\ mode = "discard"
  /\ Accepts(frame)
  /\ \E ok \in Decodes : Write(IF ok THEN <<frame>> ELSE <<>>)
  /\ expectedCount' = expectedCount + Gap(frame) + 1
  /\ UNCHANGED <<mode, opus, sortingArea, bufferLow>>

\* The sorting area holds n frames in a row from frame number count on, and not n + 1.
IsRun(area, count, n) ==
  /\ \A k \in 0 .. n - 1 : area[SeqOf(count + k)] # None
  /\ n < SeqMod => area[SeqOf(count + n)] = None

ReleasedAll(area, count, n) == IF n = 0 THEN area ELSE EmptyArea
Released(area, count, n) ==
  [s \in Seqs |-> IF Distance(s, SeqOf(count)) < n THEN None ELSE area[s]]

\* The loop at the end of the reorder branch: release the frames that are now in turn.
Drain(first, area, count) ==
  \E n \in 0 .. SeqMod :
    /\ IsRun(area, count, n)
    /\ Write(first \o [i \in 1 .. n |-> area[SeqOf(count + i - 1)]])
    /\ sortingArea' = Released(area, count, n)
    /\ expectedCount' = count + n

\* The frame that is in turn is written at once; if it does not decode it stays expected.
ReceiveExpected(frame) ==
  /\ mode = "reorder"
  /\ Accepts(frame) /\ Gap(frame) = 0
  /\ \E ok \in Decodes :
       IF ok THEN Drain(<<frame>>, sortingArea, expectedCount + 1) /\ bufferLow' = FALSE
             ELSE Drain(<<>>, sortingArea, expectedCount) /\ UNCHANGED bufferLow
  /\ UNCHANGED <<mode, opus>>

\* Give up the expected frame when a packet is far ahead or the renderer ran dry.
ForcesSkip(frame) == Gap(frame) >= SkipDistance \/ bufferLow
SkipToSeq(frame) == expectedCount + (IF ForcesSkip(frame) THEN Gap(frame) ELSE 0)
AfterSkip(frame) == expectedCount + (IF ForcesSkip(frame) THEN 1 ELSE 0)

\* A frame that came too early is decoded and cached under its sequence number.
CachedAs(frame) == [sortingArea EXCEPT ![SeqOf(frame)] = frame]

ReceiveEarly(frame) ==
  /\ mode = "reorder"
  /\ Accepts(frame) /\ Gap(frame) # 0
  /\ \E ok \in Decodes :
       LET area == IF ok /\ sortingArea[SeqOf(frame)] = None
                     THEN CachedAs(frame) ELSE sortingArea
       IN  Drain(<<>>, area, AfterSkip(frame))
  /\ UNCHANGED <<mode, opus, bufferLow>>

-------------------------------------------------------------------------------
(* The render thread, and the start of a session.                          *)

\* The render thread found too little in the ring and filled in silence.
Underrun ==
  /\ bufferLow' = TRUE
  /\ Write(<<>>)
  /\ UNCHANGED <<mode, opus, expectedCount, newest, sortingArea>>

\* The client went away and another was set up, perhaps with the other codec.
NewSession ==
  /\ opus' \in BOOLEAN
  /\ expectedCount' = 0 /\ newest' = -1
  /\ sortingArea' = EmptyArea
  /\ bufferLow' = FALSE
  /\ written' = <<>> /\ played' = -1
  /\ UNCHANGED mode

Receive(frame) ==
  /\ \/ Drop(frame) \/ ReceiveQuic(frame) \/ ReceiveDiscard(frame)
     \/ ReceiveExpected(frame) \/ ReceiveEarly(frame)
  /\ newest' = IF frame > newest THEN frame ELSE newest

Next == (\E frame \in Arrivals : Receive(frame)) \/ Underrun \/ NewSession

Spec == Init /\ [][Next]_vars

-------------------------------------------------------------------------------
(* Properties.                                                             *)

\* The receiver never expects a frame past the end of the stream and never writes or
\* caches one that does not exist.
TypeOK ==
  /\ mode \in Modes /\ opus \in BOOLEAN
  /\ expectedCount \in 0 .. Frames
  /\ sortingArea \in [Seqs -> FrameIds \cup {None}]
  /\ bufferLow \in BOOLEAN
  /\ written \in Seq(FrameIds)
  /\ newest \in FrameIds \cup {-1}
  /\ played \in FrameIds \cup {-1}

\* A cached frame is one still to come: it sits under its own sequence number, after the
\* expected frame and inside the window.  None is left behind when expectedSeq moves on,
\* to be played one lap of the sequence numbers later.
CachedAreCurrent ==
  \A s \in Seqs :
    sortingArea[s] # None =>
      /\ s = SeqOf(sortingArea[s])
      /\ sortingArea[s] \in expectedCount + 1 .. expectedCount + Window - 2

\* Frames reach the ring in the order they were produced, each at most once: never an
\* old frame, never a duplicate, whatever was lost, repeated or reordered on the way.
InOrderStep ==
  \A i \in 1 .. Len(written') :
    written'[i] > (IF i = 1 THEN played ELSE written'[i - 1])
InOrder == [][NewSession \/ InOrderStep]_vars

\* A frame that was cached stays cached until it is written: moving expectedSeq on,
\* skipping a lost frame and draining never lose one that had arrived.
CachedKeptOrWritten ==
  \A s \in Seqs :
    \/ sortingArea[s] = None
    \/ sortingArea'[s] = sortingArea[s]
    \/ \E i \in 1 .. Len(written') : written'[i] = sortingArea[s]
NothingCachedIsDropped == [][NewSession \/ CachedKeptOrWritten]_vars
===============================================================================

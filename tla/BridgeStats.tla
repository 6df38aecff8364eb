------------------------------ MODULE BridgeStats -----------------------------
(***************************************************************************)
(* SessionStats of quic-bridge/src/lib.rs: the filter every audio frame of *)
(* a QUIC session passes before C++ sees it, and the counters and latency  *)
(* bounds that are reported to the client.                                 *)
(*                                                                         *)
(* Frames are numbered from 0 as the client produces them and carry that   *)
(* number modulo SeqMod.  Time is the wall clock of received_at, which     *)
(* only moves forward here.  Each frame has the time it was captured at    *)
(* and arrives within Latency of it.  It may be skipped by the client, or  *)
(* come late or twice (Delay), which the code defends against.             *)
(***************************************************************************)
EXTENDS Integers, FiniteSets

CONSTANTS SeqMod,          \* sequence numbers: 256
          Half,            \* the 128 of sequence_is_newer()
          MissingLimit,    \* at most so many frames of a gap are marked missing: 64
          DuplicateTime,   \* the 500 ms within which a sequence number is a duplicate
          Frames,          \* how many frames the client produces
          MaxSkip,         \* how many of them may be missing in a row
          Delay,           \* how far a frame may fall behind the newest
          MaxDuplicates,   \* a bound of the model: how many duplicates are counted
          CapturedAt,      \* when the client produces each frame
          Latency,         \* a frame that arrives does so within this time
          Offsets,         \* clock offsets the client may report
          Ages,            \* receive time minus send time of a frame, before correction
          BoundsLimit,     \* wider intervals of offsets are ignored: 10 000 ms
          LatencyLimit,    \* the 60 000 ms latencies are cut to
          None

ASSUME SeqAssumption ==
  /\ SeqMod \in Nat /\ Half \in Nat /\ MissingLimit \in Nat /\ DuplicateTime \in Nat
  /\ 0 < Half /\ Half < SeqMod
ASSUME InputAssumption ==
  /\ Frames \in Nat \ {0} /\ MaxSkip \in Nat /\ Delay \in Nat /\ Latency \in Nat
  /\ Offsets \subseteq Int /\ Ages \subseteq Int
  /\ LatencyLimit \in Nat /\ BoundsLimit \in Nat
  /\ MaxDuplicates \in Nat /\ None \notin Int
ASSUME CaptureAssumption ==
  /\ CapturedAt \in [0 .. Frames - 1 -> Nat]
  /\ \A f, g \in 0 .. Frames - 1 : f <= g => CapturedAt[f] <= CapturedAt[g]
  /\ DuplicateTime <= CapturedAt[0]

VARIABLES
  now,                 \* epoch_ms()
  newest,              \* the newest frame that has arrived, -1 if none has
  expectedSequence, missing, lastSeenAt, lastSequence,
  received, lost, recovered, duplicates,
  clockBounds,         \* offsets <<minimum, maximum>> from the last sync, or None
  latencyMinimum, latencyMaximum,
  first,               \* the first frame accepted
  highest,             \* the newest frame accepted
  forwarded,           \* the frame the last step handed to C++, or None
  absent               \* frames passed over and not handed to C++ since: for the
                       \* properties only, no step depends on it

sequenceVars == <<expectedSequence, missing, lastSeenAt, lastSequence>>
counters == <<received, lost, recovered, duplicates>>
latencyVars == <<clockBounds, latencyMinimum, latencyMaximum>>
streamVars == <<first, highest, absent>>
vars == <<now, newest, sequenceVars, counters, latencyVars, streamVars, forwarded>>

Seqs == 0 .. SeqMod - 1
FrameIds == 0 .. Frames - 1
MaxTime == CapturedAt[Frames - 1] + Latency

SeqOf(frame) == frame % SeqMod
Next1NoWrap(seq) == seq + 1
Next1(seq) == (seq + 1) % SeqMod
Distance(a, b) == (a - b) % SeqMod

NewerUpTo(last, incoming) == incoming # last /\ Distance(incoming, last) <= Half
SequenceIsNewer(last, incoming) == incoming # last /\ Distance(incoming, last) < Half

Init ==
  /\ now = DuplicateTime /\ newest = -1
  /\ expectedSequence = None /\ missing = {} /\ lastSequence = 0
  /\ lastSeenAt = [s \in Seqs |-> 0]
  /\ received = 0 /\ lost = 0 /\ recovered = 0 /\ duplicates = 0
  /\ clockBounds = None /\ latencyMinimum = -1 /\ latencyMaximum = -1
  /\ first = 0 /\ highest = -1 /\ forwarded = None /\ absent = {}

-------------------------------------------------------------------------------
(* accept()                                                                *)

\* The same number came less than DuplicateTime ago.
SeenAtOnce(seq) == now = lastSeenAt[seq]
SeenUpTo(seq) == now - lastSeenAt[seq] <= DuplicateTime
SeenLately(seq) == now - lastSeenAt[seq] < DuplicateTime

RejectDuplicate(frame) ==
  /\ SeenLately(SeqOf(frame)) /\ duplicates < MaxDuplicates
  /\ duplicates' = duplicates + 1
  /\ forwarded' = None
  /\ UNCHANGED <<sequenceVars, received, lost, recovered, latencyVars, streamVars>>

Clamp(x) == IF x < 0 THEN 0 ELSE IF x > LatencyLimit THEN LatencyLimit ELSE x

\* The corrected latency lies between the age less the largest and less the smallest
\* offset of the clocks.
SameBound(bounds, age) == <<Clamp(age - bounds[1]), Clamp(age - bounds[2])>>
LatencyRange(bounds, age) == <<Clamp(age - bounds[2]), Clamp(age - bounds[1])>>

\* The latency interval of the report is widened by that of the frame.
MeasureLatency ==
  \E age \in Ages :
    /\ UNCHANGED clockBounds
    /\ IF clockBounds = None
         THEN UNCHANGED <<latencyMinimum, latencyMaximum>>
         ELSE LET range == LatencyRange(clockBounds, age)
              IN  /\ latencyMinimum' = IF latencyMinimum < 0 \/ range[1] < latencyMinimum
                                         THEN range[1] ELSE latencyMinimum
                  /\ latencyMaximum' = IF range[2] > latencyMaximum
                                         THEN range[2] ELSE latencyMaximum

\* What every accepted frame does, whichever branch accepted it.
Forward(frame) ==
  /\ lastSeenAt' = [lastSeenAt EXCEPT ![SeqOf(frame)] = now]
  /\ received' = received + 1
  /\ lastSequence' = SeqOf(frame)
  /\ MeasureLatency
  /\ first' = IF expectedSequence = None THEN frame ELSE first
  /\ highest' = IF frame > highest THEN frame ELSE highest
  /\ absent' = (absent \ {frame}) \cup
                 (IF expectedSequence = None THEN {} ELSE highest + 1 .. frame - 1)
  /\ forwarded' = frame
  /\ UNCHANGED duplicates

\* The expected frame, or the first of the session.  A mark from an earlier lap stays.
AcceptExpected(frame) ==
  /\ ~SeenLately(SeqOf(frame))
  /\ expectedSequence \in {None, SeqOf(frame)}
  /\ expectedSequence' = Next1(SeqOf(frame))
  /\ UNCHANGED <<missing, lost, recovered>>
  /\ Forward(frame)

IsAhead(seq) ==
  /\ expectedSequence # None /\ seq # expectedSequence
  /\ SequenceIsNewer(Distance(expectedSequence, 1), seq)

\* A newer one: the frames in between count as lost; the first few are marked missing.
GapFromLast(seq) == Distance(seq, Distance(expectedSequence, 1))
Gap(seq) == Distance(seq, expectedSequence)
Marked(gap) ==
  {(expectedSequence + k) % SeqMod :
     k \in 0 .. (IF gap < MissingLimit THEN gap ELSE MissingLimit) - 1}
AcceptAhead(frame) ==
  /\ ~SeenLately(SeqOf(frame))
  /\ IsAhead(SeqOf(frame))
  /\ LET gap == Gap(SeqOf(frame))
     IN  missing' = missing \cup Marked(gap) /\ lost' = lost + gap
  /\ expectedSequence' = Next1(SeqOf(frame))
  /\ UNCHANGED recovered
  /\ Forward(frame)

IsBehind(seq) ==
  expectedSequence # None /\ seq # expectedSequence /\ ~IsAhead(seq)

\* An older one that is marked missing has been recovered ...
AcceptRecovered(frame) ==
  /\ ~SeenLately(SeqOf(frame))
  /\ IsBehind(SeqOf(frame)) /\ SeqOf(frame) \in missing
  /\ missing' = missing \ {SeqOf(frame)} /\ recovered' = recovered + 1
  /\ UNCHANGED <<expectedSequence, lost>>
  /\ Forward(frame)

\* ... and any other is refused; the time of its number is remembered all the same.
RefuseOld(frame) ==
  /\ ~SeenLately(SeqOf(frame))
  /\ IsBehind(SeqOf(frame)) /\ SeqOf(frame) \notin missing
  /\ lastSeenAt' = [lastSeenAt EXCEPT ![SeqOf(frame)] = now]
  /\ forwarded' = None
  /\ UNCHANGED <<expectedSequence, missing, lastSequence, counters, latencyVars, streamVars>>

\* A copy of a frame arrives on the stream, neither before it was captured nor more than
\* Latency after: what is held up in a stall comes in one burst when the stall ends.
Arrives(frame) ==
  /\ now \in CapturedAt[frame] .. CapturedAt[frame] + Latency
  /\ frame >= newest - Delay + (IF Delay = 0 THEN 1 ELSE 0)
  /\ frame <= newest + 1 + MaxSkip
  /\ newest' = IF frame > newest THEN frame ELSE newest
  /\ UNCHANGED now

Accept(frame) ==
  \/ RejectDuplicate(frame) \/ AcceptExpected(frame) \/ AcceptAhead(frame)
  \/ AcceptRecovered(frame) \/ RefuseOld(frame)

-------------------------------------------------------------------------------
(* Time, clock synchronisation and the report.                             *)

Tick ==
  /\ now < MaxTime
  /\ now' = now + 1
  /\ forwarded' = None
  /\ UNCHANGED <<newest, sequenceVars, counters, latencyVars, streamVars>>

\* CONTROL_SYNC_RESULT; an interval that is empty or too wide is ignored.
SyncResult ==
  /\ \E lo, hi \in Offsets :
       lo <= hi /\ hi - lo <= BoundsLimit /\ clockBounds' = <<lo, hi>>
  /\ forwarded' = None
  /\ UNCHANGED <<now, newest, sequenceVars, counters, latencyMinimum, latencyMaximum,
                 streamVars>>

\* stats_payload(), every 250 ms: the latency interval starts over.
Report ==
  /\ latencyMinimum' = -1 /\ latencyMaximum' = -1
  /\ forwarded' = None
  /\ UNCHANGED <<now, newest, sequenceVars, counters, clockBounds, streamVars>>

Next ==
  \/ \E frame \in FrameIds : Arrives(frame) /\ Accept(frame)
  \/ Tick \/ SyncResult \/ Report

Spec == Init /\ [][Next]_vars

-------------------------------------------------------------------------------
(* Properties.                                                             *)

TypeOK ==
  /\ now \in DuplicateTime .. MaxTime /\ newest \in FrameIds \cup {-1}
  /\ expectedSequence \in Seqs \cup {None} /\ missing \subseteq Seqs
  /\ lastSeenAt \in [Seqs -> 0 .. MaxTime] /\ lastSequence \in Seqs
  /\ {received, lost, recovered, duplicates} \subseteq Nat
  /\ clockBounds \in (Offsets \X Offsets) \cup {None}
  /\ {latencyMinimum, latencyMaximum} \subseteq -1 .. LatencyLimit
  /\ first \in FrameIds \cup {0} /\ highest \in FrameIds \cup {-1}
  /\ forwarded \in FrameIds \cup {None} /\ absent \subseteq FrameIds

\* The counters sent to the client add up: every frame from the first accepted to the
\* newest one was received in its turn, or counted as lost and perhaps recovered later.
FramesAccountedFor ==
  expectedSequence # None => received - recovered + lost = highest - first + 1

\* What the client is told is lost for good (lost less recovered) is the number of frames
\* between the first and the newest that never reached C++, across any number of laps.
LossReported == lost - recovered = Cardinality(absent)

\* A report has a latency interval or none, and its ends are in order, although the clock
\* offsets change between the frames it covers.
LatencyIntervalOrdered ==
  /\ (latencyMinimum = -1) = (latencyMaximum = -1)
  /\ latencyMinimum <= latencyMaximum

\* accept() hands every frame to C++ at most once, and one that is not newer than all before
\* only if that very frame had been counted as lost: a mark that another lap left on the
\* number never makes accept() take a duplicate for a frame that was missing.
RecoveredWasLost ==
  [][forwarded' # None =>
       IF forwarded' > highest THEN recovered' = recovered
       ELSE forwarded' \in absent /\ recovered' = recovered + 1]_vars

\* The protocol document: the stream is reliable and ordered, and sequence numbers only
\* serve to diagnose protocol errors.  So a frame that arrives in turn reaches C++.
InTurnForwarded ==
  [][\A frame \in FrameIds :
       newest' = frame /\ frame = newest + 1 => forwarded' = frame]_vars
===============================================================================

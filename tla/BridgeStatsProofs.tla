--------------------------- MODULE BridgeStatsProofs --------------------------
(***************************************************************************)
(* For every width of the sequence numbers, limit of marks and length of   *)
(* stream: the counters of SessionStats in quic-bridge/src/lib.rs add up   *)
(* and its latency interval is one.                                        *)
(***************************************************************************)
EXTENDS BridgeStats, FiniteSetTheorems, ModArithmetic, TLAPS

\* The audio is in step with its clock: a lap of numbers takes longer to capture than a frame
\* may be held up and its number then counts as a duplicate, no gap is as long as Half, and
\* nothing comes so late that its number looks newer.
StreamInStep ==
  /\ \A f \in FrameIds :
       f + SeqMod \in FrameIds =>
         CapturedAt[f] + Latency + DuplicateTime <= CapturedAt[f + SeqMod]
  /\ MaxSkip + 1 < Half /\ Delay <= SeqMod - Half

\* And no frame is held up for longer than its number counts as a duplicate.
Prompt == StreamInStep /\ Latency < DuplicateTime

-------------------------------------------------------------------------------
(* Arithmetic of sequence numbers.                                         *)

LEMMA Sizes ==
  /\ SeqMod \in Nat /\ SeqMod >= 2 /\ Half \in Nat /\ 0 < Half /\ Half < SeqMod
  /\ MissingLimit \in Nat /\ Frames \in Nat /\ MaxSkip \in Nat /\ Delay \in Nat
  /\ DuplicateTime \in Nat /\ Latency \in Nat
  /\ LatencyLimit \in Nat /\ Offsets \subseteq Int /\ Ages \subseteq Int
  /\ FrameIds \subseteq Nat /\ None \notin Int /\ 0 \in Seqs
BY SeqAssumption, InputAssumption DEF FrameIds, Seqs

LEMMA Times ==
  /\ \A f \in FrameIds : CapturedAt[f] \in Nat
  /\ \A f, g \in FrameIds : f <= g => CapturedAt[f] <= CapturedAt[g]
  /\ MaxTime \in Nat /\ DuplicateTime <= MaxTime
<1>1. 0 \in 0 .. Frames - 1 /\ Frames - 1 \in 0 .. Frames - 1 /\ Frames - 1 >= 0
  BY InputAssumption
<1>2. CapturedAt[0] \in Nat /\ CapturedAt[Frames - 1] \in Nat
      /\ CapturedAt[0] <= CapturedAt[Frames - 1]
  BY <1>1, CaptureAssumption
<1> QED BY <1>2, CaptureAssumption, InputAssumption, SeqAssumption DEF FrameIds, MaxTime

LEMMA NumberRange == ASSUME NEW a \in Int PROVE SeqOf(a) \in Seqs /\ SeqOf(a) \in Int
BY Sizes DEF SeqOf, Seqs

LEMMA SeqDistance ==
  ASSUME NEW a \in Nat, NEW b \in Nat, -SeqMod <= a - b, a - b < SeqMod
  PROVE  Distance(SeqOf(a), SeqOf(b)) = IF a >= b THEN a - b ELSE a - b + SeqMod
<1>1. SeqMod \in Nat /\ SeqMod > 0
  BY Sizes
<1> QED BY <1>1, ModDiff, Zenon DEF Distance, SeqOf

LEMMA SameSeq ==
  ASSUME NEW a \in Nat, NEW b \in Nat, -SeqMod < a - b, a - b < SeqMod,
         SeqOf(a) = SeqOf(b)
  PROVE  a = b
<1>1. Distance(SeqOf(a), SeqOf(b)) = IF a >= b THEN a - b ELSE a - b + SeqMod
  BY Sizes, SeqDistance
<1>2. SeqOf(b) - SeqOf(b) = 0
  BY NumberRange
<1>3. Distance(SeqOf(a), SeqOf(b)) = 0
  BY <1>2, Sizes DEF Distance
<1> QED BY <1>1, <1>3, Sizes

\* Next1() and wrapping_sub(1) go from a frame's number to that of its neighbour.
LEMMA Neighbours ==
  ASSUME NEW n \in Nat
  PROVE  Next1(SeqOf(n)) = SeqOf(n + 1) /\ Distance(SeqOf(n + 1), 1) = SeqOf(n)
<1>1. SeqMod \in Nat /\ SeqMod > 1
  BY Sizes
<1> DEFINE x == SeqOf(n + 1)
           y == SeqOf(n)
<1>2. x \in 0 .. SeqMod - 1 /\ y \in 0 .. SeqMod - 1
  BY NumberRange DEF Seqs
<1>3. (x - y) % SeqMod = 1
  BY <1>1, SeqDistance DEF Distance
<1> HIDE DEF x, y
<1>4. x - y = 1 \/ x - y = 1 - SeqMod
  <2>1. CASE x >= y
    BY <1>1, <1>2, <1>3, <2>1
  <2>2. CASE x < y
    <3>1. (x - y) % SeqMod = x - y + SeqMod
      BY <1>1, <1>2, <2>2
    <3> QED BY <1>1, <1>2, <1>3, <3>1
  <2> QED BY <1>2, <2>1, <2>2
<1>5. (y + 1) % SeqMod = x /\ (x - 1) % SeqMod = y
  BY <1>1, <1>2, <1>4
<1> QED BY <1>5 DEF Next1, Distance, x, y

\* Counting on from a frame's number gives the numbers of the frames after it.
LEMMA NumbersOn ==
  ASSUME NEW n \in Nat, NEW k \in Nat, k < SeqMod
  PROVE  (SeqOf(n) + k) % SeqMod = SeqOf(n + k)
<1>1. SeqMod \in Nat /\ SeqMod > 1
  BY Sizes
<1> DEFINE x == SeqOf(n + k)
           y == SeqOf(n)
<1>2. x \in 0 .. SeqMod - 1 /\ y \in 0 .. SeqMod - 1
  BY NumberRange DEF Seqs
<1>3. (x - y) % SeqMod = k
  BY <1>1, SeqDistance DEF Distance
<1> HIDE DEF x, y
<1>4. x - y = k \/ x - y = k - SeqMod
  <2>1. CASE x >= y
    BY <1>1, <1>2, <1>3, <2>1
  <2>2. CASE x < y
    <3>1. (x - y) % SeqMod = x - y + SeqMod
      BY <1>1, <1>2, <2>2
    <3> QED BY <1>1, <1>2, <1>3, <3>1
  <2> QED BY <1>2, <2>1, <2>2
<1>5. (y + k) % SeqMod = x
  BY <1>1, <1>2, <1>4
<1> QED BY <1>5 DEF x, y

\* Two frames with the same number are the same or a lap apart.
LEMMA LapBetween ==
  ASSUME NEW g \in Nat, NEW f \in Nat, SeqOf(g) = SeqOf(f), g < f
  PROVE  g + SeqMod <= f
<1>1. CASE f < g + SeqMod
  <2>1. -SeqMod < g - f /\ g - f < SeqMod
    BY <1>1, Sizes
  <2> QED BY <2>1, SameSeq
<1> QED BY <1>1, Sizes

-------------------------------------------------------------------------------
(* Type correctness.                                                       *)

LEMMA ClampRange == ASSUME NEW x \in Int PROVE Clamp(x) \in 0 .. LatencyLimit
BY Sizes DEF Clamp

\* What MeasureLatency adds to the interval is one.
LEMMA LatencyRangeOrdered ==
  ASSUME NEW lo \in Int, NEW hi \in Int, lo <= hi, NEW age \in Int
  PROVE  LET r == LatencyRange(<<lo, hi>>, age)
         IN  r[1] \in 0 .. LatencyLimit /\ r[2] \in 0 .. LatencyLimit /\ r[1] <= r[2]
<1>1. age - lo \in Int /\ age - hi \in Int /\ age - hi <= age - lo
  OBVIOUS
<1>2. Clamp(age - hi) <= Clamp(age - lo)
  BY <1>1, Sizes DEF Clamp
<1> QED BY <1>1, <1>2, ClampRange DEF LatencyRange

\* The bounds of the clocks are an interval.
BoundsOrdered == clockBounds # None => clockBounds[1] <= clockBounds[2]

LatencyInv ==
  /\ clockBounds \in (Offsets \X Offsets) \cup {None} /\ BoundsOrdered
  /\ {latencyMinimum, latencyMaximum} \subseteq -1 .. LatencyLimit
  /\ LatencyIntervalOrdered

LEMMA MeasureKeeps == ASSUME LatencyInv, MeasureLatency PROVE LatencyInv'
<1>1. PICK age \in Ages :
        /\ UNCHANGED clockBounds
        /\ IF clockBounds = None
             THEN UNCHANGED <<latencyMinimum, latencyMaximum>>
             ELSE LET range == LatencyRange(clockBounds, age)
                  IN  /\ latencyMinimum' = IF latencyMinimum < 0 \/ range[1] < latencyMinimum
                                             THEN range[1] ELSE latencyMinimum
                      /\ latencyMaximum' = IF range[2] > latencyMaximum
                                             THEN range[2] ELSE latencyMaximum
  BY DEF MeasureLatency
<1>2. CASE clockBounds = None
  BY <1>1, <1>2 DEF LatencyInv, BoundsOrdered, LatencyIntervalOrdered
<1>3. CASE clockBounds # None
  <2> DEFINE lo == clockBounds[1]
             hi == clockBounds[2]
             r1 == LatencyRange(clockBounds, age)[1]
             r2 == LatencyRange(clockBounds, age)[2]
  <2>1. lo \in Int /\ hi \in Int /\ clockBounds = <<lo, hi>> /\ lo <= hi
    <3>1. clockBounds \in Offsets \X Offsets /\ lo <= hi
      BY <1>3 DEF LatencyInv, BoundsOrdered
    <3>2. lo \in Offsets /\ hi \in Offsets /\ clockBounds = <<lo, hi>>
      BY <3>1
    <3> QED BY <3>1, <3>2, Sizes
  <2>2. age \in Int
    BY Sizes
  <2> HIDE DEF lo, hi
  <2>3. r1 \in 0 .. LatencyLimit /\ r2 \in 0 .. LatencyLimit /\ r1 <= r2
    BY <2>1, <2>2, LatencyRangeOrdered
  <2>4. /\ latencyMinimum' = IF latencyMinimum < 0 \/ r1 < latencyMinimum
                               THEN r1 ELSE latencyMinimum
        /\ latencyMaximum' = IF r2 > latencyMaximum THEN r2 ELSE latencyMaximum
        /\ clockBounds' = clockBounds
    BY <1>1, <1>3
  <2> HIDE DEF r1, r2
  <2>5. /\ latencyMinimum \in -1 .. LatencyLimit /\ latencyMaximum \in -1 .. LatencyLimit
        /\ (latencyMinimum = -1) = (latencyMaximum = -1)
        /\ latencyMinimum <= latencyMaximum
    BY DEF LatencyInv, LatencyIntervalOrdered
  <2>6. /\ latencyMinimum' \in 0 .. LatencyLimit /\ latencyMaximum' \in 0 .. LatencyLimit
        /\ latencyMinimum' <= latencyMaximum'
    BY <2>3, <2>4, <2>5, Sizes
  <2>7. latencyMinimum' # -1 /\ latencyMaximum' # -1
        /\ {latencyMinimum', latencyMaximum'} \subseteq -1 .. LatencyLimit
    BY <2>6, Sizes
  <2> QED BY <2>4, <2>6, <2>7 DEF LatencyInv, BoundsOrdered, LatencyIntervalOrdered
<1> QED BY <1>2, <1>3

LEMMA LatencyKeeps == LatencyInv /\ [Next]_vars => LatencyInv'
<1> SUFFICES ASSUME LatencyInv, [Next]_vars PROVE LatencyInv'
  OBVIOUS
<1>1. CASE SyncResult
  <2>1. PICK lo \in Offsets, hi \in Offsets :
          lo <= hi /\ hi - lo <= BoundsLimit /\ clockBounds' = <<lo, hi>>
    BY <1>1 DEF SyncResult
  <2> QED BY <1>1, <2>1 DEF SyncResult, LatencyInv, BoundsOrdered, LatencyIntervalOrdered
<1>2. CASE Report
  <2>1. {-1} \subseteq -1 .. LatencyLimit
    BY Sizes
  <2> QED BY <1>2, <2>1 DEF Report, LatencyInv, BoundsOrdered, LatencyIntervalOrdered
<1>3. CASE UNCHANGED latencyVars
  BY <1>3 DEF latencyVars, LatencyInv, BoundsOrdered, LatencyIntervalOrdered
<1>4. ASSUME NEW frame \in FrameIds, Accept(frame)
      PROVE  MeasureLatency \/ UNCHANGED latencyVars
  BY <1>4 DEF Accept, RejectDuplicate, AcceptExpected, AcceptAhead, AcceptRecovered,
              RefuseOld, Forward
<1>5. Tick \/ UNCHANGED vars => UNCHANGED latencyVars
  BY DEF Tick, vars, latencyVars
<1> QED BY <1>1, <1>2, <1>3, <1>4, <1>5, MeasureKeeps DEF Next

LEMMA InitLatency == Init => LatencyInv
BY Sizes DEF Init, LatencyInv, BoundsOrdered, LatencyIntervalOrdered

\* The latency interval that stats_payload() sends has both ends or none, in order.
THEOREM LatencyInterval == Spec => []LatencyIntervalOrdered
<1>1. LatencyInv => LatencyIntervalOrdered
  BY DEF LatencyInv
<1> QED BY <1>1, InitLatency, LatencyKeeps, PTL DEF Spec

\* The types of what accept() counts and remembers.
SequenceTypes ==
  /\ now \in DuplicateTime .. MaxTime /\ lastSeenAt \in [Seqs -> 0 .. MaxTime]
  /\ newest \in FrameIds \cup {-1} /\ expectedSequence \in Seqs \cup {None}
  /\ missing \subseteq Seqs /\ lastSequence \in Seqs
  /\ received \in Nat /\ lost \in Nat /\ recovered \in Nat /\ duplicates \in Nat
  /\ first \in FrameIds \cup {0} /\ highest \in FrameIds \cup {-1}
  /\ forwarded \in FrameIds \cup {None} /\ absent \subseteq FrameIds

LEMMA GapRange ==
  ASSUME NEW a \in Int, expectedSequence \in Seqs
  PROVE  Gap(SeqOf(a)) \in Nat /\ Marked(Gap(SeqOf(a))) \subseteq Seqs
<1>1. expectedSequence \in Int /\ SeqOf(a) - expectedSequence \in Int
      /\ SeqMod \in Nat /\ SeqMod > 0
  BY NumberRange, Sizes DEF Seqs
<1>2. Gap(SeqOf(a)) \in Nat
  BY <1>1 DEF Gap, Distance
<1>3. ASSUME NEW k \in Int PROVE (expectedSequence + k) % SeqMod \in Seqs
  BY <1>1 DEF Seqs
<1>4. ASSUME NEW gap \in Nat PROVE Marked(gap) \subseteq Seqs
  BY <1>3, Sizes DEF Marked
<1> QED BY <1>2, <1>4

\* What a frame that is accepted leaves behind.
LEMMA ForwardTypes ==
  ASSUME SequenceTypes, NEW frame \in FrameIds, Forward(frame)
  PROVE  /\ received' \in Nat /\ lastSequence' \in Seqs /\ duplicates' \in Nat
         /\ first' \in FrameIds \cup {0} /\ highest' \in FrameIds \cup {-1}
         /\ forwarded' \in FrameIds \cup {None} /\ absent' \subseteq FrameIds
         /\ lastSeenAt' \in [Seqs -> 0 .. MaxTime]
<1>1. SeqOf(frame) \in Seqs /\ now \in 0 .. MaxTime
  BY Sizes, Times, NumberRange DEF SequenceTypes
<1>2. highest + 1 .. frame - 1 \subseteq FrameIds
  BY Sizes DEF SequenceTypes, FrameIds
<1> QED BY <1>1, <1>2 DEF Forward, SequenceTypes

LEMMA SequenceKeeps == SequenceTypes /\ [Next]_vars => SequenceTypes'
<1> SUFFICES ASSUME SequenceTypes, [Next]_vars PROVE SequenceTypes'
  OBVIOUS
<1>1. CASE Tick \/ SyncResult \/ Report \/ UNCHANGED vars
  <2>1. now' \in DuplicateTime .. MaxTime
    BY <1>1, Sizes, Times DEF Tick, SyncResult, Report, vars, SequenceTypes
  <2> QED BY <1>1, <2>1 DEF Tick, SyncResult, Report, vars, sequenceVars, counters,
                            streamVars, SequenceTypes
<1>2. ASSUME NEW frame \in FrameIds, Arrives(frame), Accept(frame)
      PROVE  SequenceTypes'
  <2>1. /\ newest' \in FrameIds \cup {-1} /\ now' \in DuplicateTime .. MaxTime
        /\ frame \in Nat /\ SeqOf(frame) \in Seqs /\ Next1(SeqOf(frame)) \in Seqs
    <3>1. frame \in Nat /\ SeqOf(frame) \in Seqs
      BY Sizes, NumberRange
    <3>2. Next1(SeqOf(frame)) \in Seqs
      BY <3>1, Neighbours, NumberRange
    <3> QED BY <1>2, <3>1, <3>2 DEF Arrives, SequenceTypes
  <2>2. CASE RejectDuplicate(frame)
    BY <2>1, <2>2 DEF RejectDuplicate, sequenceVars, streamVars, SequenceTypes
  <2>3. CASE RefuseOld(frame)
    <3>1. now \in 0 .. MaxTime
      BY Sizes, Times DEF SequenceTypes
    <3>2. [lastSeenAt EXCEPT ![SeqOf(frame)] = now] \in [Seqs -> 0 .. MaxTime]
      BY <3>1 DEF SequenceTypes
    <3> QED BY <2>1, <2>3, <3>2 DEF RefuseOld, counters, streamVars, SequenceTypes
  <2>4. CASE AcceptExpected(frame)
    BY <2>1, <2>4, ForwardTypes DEF AcceptExpected, SequenceTypes
  <2>5. CASE AcceptAhead(frame)
    <3>1. expectedSequence \in Seqs
      BY <2>5 DEF AcceptAhead, IsAhead, SequenceTypes
    <3>2. Gap(SeqOf(frame)) \in Nat /\ Marked(Gap(SeqOf(frame))) \subseteq Seqs
      BY <2>1, <3>1, GapRange
    <3> QED BY <2>1, <2>5, <3>2, ForwardTypes DEF AcceptAhead, SequenceTypes
  <2>6. CASE AcceptRecovered(frame)
    BY <2>1, <2>6, ForwardTypes DEF AcceptRecovered, SequenceTypes
  <2> QED BY <1>2, <2>2, <2>3, <2>4, <2>5, <2>6 DEF Accept
<1> QED BY <1>1, <1>2 DEF Next

LEMMA InitSequence == Init => SequenceTypes
BY Sizes, Times DEF Init, SequenceTypes

\* The types of the fields of SessionStats: sequence numbers stay below SeqMod, latencies
\* at or below the limit they are cut to, whatever comes in whatever order.
THEOREM TypeCorrect == Spec => []TypeOK
<1>1. SequenceTypes /\ LatencyInv => TypeOK
  BY DEF SequenceTypes, LatencyInv, TypeOK
<1> QED BY <1>1, InitSequence, SequenceKeeps, InitLatency, LatencyKeeps, PTL DEF Spec

-------------------------------------------------------------------------------
(* When a number was seen last.                                            *)

\* The time kept for a number is when a copy of some frame with that number came, and the
\* newest frame was captured before now.
Seen ==
  /\ newest # -1 => CapturedAt[newest] <= now
  /\ \A s \in Seqs :
       \/ lastSeenAt[s] = 0
       \/ \E g \in FrameIds : /\ g <= newest /\ SeqOf(g) = s
                              /\ lastSeenAt[s] <= CapturedAt[g] + Latency

LEMMA SeenKeeps == SequenceTypes /\ Seen /\ [Next]_vars => Seen'
<1> SUFFICES ASSUME SequenceTypes, Seen, [Next]_vars PROVE Seen'
  OBVIOUS
<1>1. CASE Tick \/ SyncResult \/ Report \/ UNCHANGED vars
  <2>1. newest' = newest /\ lastSeenAt' = lastSeenAt /\ now' \in {now, now + 1}
    BY <1>1 DEF Tick, SyncResult, Report, vars, sequenceVars
  <2>2. now \in Int /\ (newest # -1 => CapturedAt[newest] \in Int)
    BY Sizes, Times DEF SequenceTypes
  <2> QED BY <2>1, <2>2 DEF Seen
<1>2. ASSUME NEW frame \in FrameIds, Arrives(frame), Accept(frame)
      PROVE  Seen'
  <2>1. /\ now' = now /\ now \in Int /\ CapturedAt[frame] \in Int /\ Latency \in Int
        /\ CapturedAt[frame] <= now /\ now <= CapturedAt[frame] + Latency
        /\ newest \in Int /\ frame \in Int /\ SeqOf(frame) \in Seqs
        /\ newest' = IF frame > newest THEN frame ELSE newest
    BY <1>2, Sizes, Times, NumberRange DEF Arrives, SequenceTypes
  <2>2. \/ lastSeenAt' = lastSeenAt
        \/ lastSeenAt' = [lastSeenAt EXCEPT ![SeqOf(frame)] = now]
    BY <1>2 DEF Accept, RejectDuplicate, RefuseOld, AcceptExpected, AcceptAhead,
                AcceptRecovered, Forward, sequenceVars
  <2>3. ASSUME NEW s \in Seqs
        PROVE  \/ lastSeenAt'[s] = 0
               \/ \E g \in FrameIds : g <= newest' /\ SeqOf(g) = s
                                      /\ lastSeenAt'[s] <= CapturedAt[g] + Latency
    <3>1. CASE s = SeqOf(frame) /\ lastSeenAt' = [lastSeenAt EXCEPT ![SeqOf(frame)] = now]
      <4>1. lastSeenAt'[s] = now
        BY <2>1, <3>1 DEF SequenceTypes
      <4>2. frame <= newest'
        BY <2>1
      <4> QED BY <2>1, <3>1, <4>1, <4>2
    <3>2. CASE ~(s = SeqOf(frame) /\ lastSeenAt' = [lastSeenAt EXCEPT ![SeqOf(frame)] = now])
      <4>1. lastSeenAt'[s] = lastSeenAt[s]
        BY <2>2, <3>2 DEF SequenceTypes
      <4>2. CASE lastSeenAt[s] = 0
        BY <4>1, <4>2
      <4>3. CASE lastSeenAt[s] # 0
        <5>1. PICK g \in FrameIds : g <= newest /\ SeqOf(g) = s
                                    /\ lastSeenAt[s] <= CapturedAt[g] + Latency
          BY <4>3 DEF Seen
        <5>2. g <= newest'
          BY <2>1, <5>1, Sizes
        <5> QED BY <4>1, <5>1, <5>2
      <4> QED BY <4>2, <4>3
    <3> QED BY <3>1, <3>2
  <2>4. newest' # -1 => CapturedAt[newest'] <= now'
    BY <2>1 DEF Seen
  <2> QED BY <2>3, <2>4 DEF Seen
<1> QED BY <1>1, <1>2 DEF Next

\* On a stream in step the number of a frame newer than all before was not seen lately: the
\* last frame that had it is a whole lap older.
LEMMA NewerNotSeen ==
  ASSUME StreamInStep, SequenceTypes, Seen, NEW frame \in FrameIds, Arrives(frame),
         frame > newest
  PROVE  ~SeenLately(SeqOf(frame))
<1>1. /\ SeqOf(frame) \in Seqs /\ now \in Int /\ lastSeenAt[SeqOf(frame)] \in Int
      /\ DuplicateTime <= now /\ DuplicateTime \in Int /\ CapturedAt[frame] <= now
      /\ frame \in Nat /\ newest \in Int /\ Latency \in Int /\ CapturedAt[frame] \in Int
  BY Sizes, Times, NumberRange DEF Arrives, SequenceTypes
<1>2. CASE lastSeenAt[SeqOf(frame)] = 0
  BY <1>1, <1>2 DEF SeenLately
<1>3. CASE lastSeenAt[SeqOf(frame)] # 0
  <2>1. PICK g \in FrameIds : /\ g <= newest /\ SeqOf(g) = SeqOf(frame)
                              /\ lastSeenAt[SeqOf(frame)] <= CapturedAt[g] + Latency
    BY <1>1, <1>3 DEF Seen
  <2>2. g \in Nat /\ g + SeqMod <= frame /\ SeqMod \in Nat
    BY <1>1, <2>1, Sizes, LapBetween
  <2>3. g + SeqMod \in FrameIds
    BY <1>1, <2>2, Sizes DEF FrameIds
  <2>4. CapturedAt[g] + Latency + DuplicateTime <= CapturedAt[g + SeqMod]
        /\ CapturedAt[g + SeqMod] <= CapturedAt[frame]
        /\ CapturedAt[g] \in Int /\ CapturedAt[g + SeqMod] \in Int
    BY <2>2, <2>3, Times DEF StreamInStep
  <2> QED BY <1>1, <2>1, <2>4 DEF SeenLately
<1> QED BY <1>2, <1>3

-------------------------------------------------------------------------------
(* The counters add up.                                                    *)

\* On a stream in step accept() is at the newest frame that came.
AtNewest ==
  /\ expectedSequence = None =>
       newest = -1 /\ highest = -1 /\ received = 0 /\ recovered = 0 /\ lost = 0
  /\ expectedSequence # None =>
       /\ newest \in Nat /\ first <= newest
       /\ highest = newest /\ expectedSequence = SeqOf(newest + 1)

\* Which branch of accept() a frame takes that is newer than all that came ...
LEMMA NewerAccepted ==
  ASSUME StreamInStep, SequenceTypes, Seen, AtNewest, NEW frame \in FrameIds,
         Arrives(frame), Accept(frame), frame > newest
  PROVE  \/ AcceptExpected(frame) /\ (expectedSequence = None \/ frame = newest + 1)
         \/ /\ AcceptAhead(frame) /\ expectedSequence # None
            /\ Gap(SeqOf(frame)) = frame - newest - 1
<1>1. ~SeenLately(SeqOf(frame))
  BY NewerNotSeen
<1>2. CASE expectedSequence = None
  BY <1>1, <1>2 DEF Accept, RejectDuplicate, RefuseOld, AcceptAhead, AcceptRecovered, IsAhead,
                    IsBehind
<1>3. CASE expectedSequence # None
  <2>1. newest \in Nat /\ expectedSequence = SeqOf(newest + 1) /\ frame \in Nat
    BY <1>3, Sizes DEF AtNewest
  <2>2. newest + 1 <= frame /\ frame <= newest + 1 + MaxSkip /\ MaxSkip + 1 < Half
        /\ MaxSkip \in Nat
    BY <2>1, Sizes DEF Arrives, StreamInStep
  <2>3. Gap(SeqOf(frame)) = frame - newest - 1
    <3>1. newest + 1 \in Nat /\ -SeqMod <= frame - (newest + 1)
          /\ frame - (newest + 1) < SeqMod
      BY <2>1, <2>2, Sizes
    <3> QED BY <2>1, <2>2, <3>1, SeqDistance DEF Gap
  <2>4. Distance(expectedSequence, 1) = SeqOf(newest)
    BY <2>1, Neighbours
  <2>5. Distance(SeqOf(frame), SeqOf(newest)) = frame - newest
    <3>1. -SeqMod <= frame - newest /\ frame - newest < SeqMod /\ frame >= newest
      BY <2>1, <2>2, Sizes
    <3> QED BY <2>1, <3>1, SeqDistance
  <2>6. SeqOf(frame) # SeqOf(newest)
    <3>1. -SeqMod < frame - newest /\ frame - newest < SeqMod /\ frame # newest
      BY <2>1, <2>2, Sizes
    <3> QED BY <2>1, <3>1, SameSeq
  <2>7. SequenceIsNewer(Distance(expectedSequence, 1), SeqOf(frame))
    BY <2>1, <2>2, <2>4, <2>5, <2>6, Sizes DEF SequenceIsNewer
  <2>8. ~IsBehind(SeqOf(frame))
    BY <1>3, <2>7 DEF IsBehind, IsAhead
  <2>9. AcceptExpected(frame) \/ AcceptAhead(frame)
    BY <1>1, <2>8 DEF Accept, RejectDuplicate, AcceptRecovered, RefuseOld
  <2>10. ASSUME AcceptExpected(frame) PROVE frame = newest + 1
    <3>1. SeqOf(frame) = SeqOf(newest + 1)
      BY <1>3, <2>1, <2>10, NumberRange DEF AcceptExpected
    <3>2. -SeqMod < frame - (newest + 1) /\ frame - (newest + 1) < SeqMod
          /\ newest + 1 \in Nat
      BY <2>1, <2>2, Sizes
    <3> QED BY <2>1, <3>1, <3>2, SameSeq
  <2> QED BY <1>3, <2>3, <2>9, <2>10
<1> QED BY <1>2, <1>3

\* ... and which one that is not.
LEMMA OlderNotAhead ==
  ASSUME StreamInStep, SequenceTypes, AtNewest, NEW frame \in FrameIds, Arrives(frame),
         Accept(frame), frame <= newest
  PROVE  /\ expectedSequence # None
         /\ AcceptRecovered(frame) \/ RejectDuplicate(frame) \/ RefuseOld(frame)
<1>1. frame \in Nat
  BY Sizes
<1>2. expectedSequence # None
  BY <1>1 DEF AtNewest
<1>3. newest \in Nat /\ expectedSequence = SeqOf(newest + 1)
  BY <1>2 DEF AtNewest
<1>4. /\ newest - Delay <= frame /\ Delay <= SeqMod - Half /\ Delay \in Nat
      /\ SeqMod \in Nat /\ Half \in Nat /\ 1 < Half /\ Half < SeqMod
  <2>1. newest - Delay <= frame
    BY <1>1, <1>3, Sizes DEF Arrives
  <2> QED BY <2>1, Sizes DEF StreamInStep
<1>5. ~AcceptExpected(frame)
  <2>1. CASE AcceptExpected(frame)
    <3>1. SeqOf(frame) = SeqOf(newest + 1)
      BY <1>2, <1>3, <2>1 DEF AcceptExpected
    <3>2. -SeqMod < frame - (newest + 1) /\ frame - (newest + 1) < SeqMod
          /\ newest + 1 \in Nat /\ frame # newest + 1
      BY <1>1, <1>3, <1>4
    <3> QED BY <1>1, <3>1, <3>2, SameSeq
  <2> QED BY <2>1
<1>6. ~IsAhead(SeqOf(frame))
  <2>1. Distance(expectedSequence, 1) = SeqOf(newest)
    BY <1>3, Neighbours
  <2>2. CASE frame = newest
    BY <2>1, <2>2 DEF IsAhead, SequenceIsNewer
  <2>3. CASE frame < newest
    <3>1. -SeqMod <= frame - newest /\ frame - newest < SeqMod /\ ~(frame >= newest)
      BY <1>1, <1>3, <1>4, <2>3
    <3>2. Distance(SeqOf(frame), SeqOf(newest)) = frame - newest + SeqMod
      BY <1>1, <1>3, <3>1, SeqDistance
    <3>3. ~(Distance(SeqOf(frame), SeqOf(newest)) < Half)
      BY <1>1, <1>3, <1>4, <3>2
    <3> QED BY <2>1, <3>3 DEF IsAhead, SequenceIsNewer
  <2> QED BY <1>1, <1>3, <2>2, <2>3
<1> QED BY <1>2, <1>5, <1>6 DEF Accept, AcceptAhead

LEMMA CountersKept ==
  ASSUME StreamInStep, SequenceTypes, Seen, AtNewest, FramesAccountedFor, [Next]_vars
  PROVE  AtNewest' /\ FramesAccountedFor'
<1>1. CASE Tick \/ SyncResult \/ Report \/ UNCHANGED vars
  BY <1>1 DEF Tick, SyncResult, Report, vars, sequenceVars, counters, streamVars, AtNewest,
              FramesAccountedFor
<1>2. ASSUME NEW frame \in FrameIds, Arrives(frame), Accept(frame)
      PROVE  AtNewest' /\ FramesAccountedFor'
  <2>1. /\ frame \in Nat /\ newest \in Int /\ highest \in Int /\ first \in Int
        /\ received \in Nat /\ recovered \in Nat /\ lost \in Nat
        /\ newest' = IF frame > newest THEN frame ELSE newest
    BY <1>2, Sizes DEF Arrives, SequenceTypes
  <2>2. Next1(SeqOf(frame)) = SeqOf(frame + 1) /\ Next1(SeqOf(frame)) # None
    <3>1. Next1(SeqOf(frame)) = SeqOf(frame + 1) /\ frame + 1 \in Int
      BY <2>1, Neighbours
    <3>2. SeqOf(frame + 1) \in Int
      BY <3>1, NumberRange
    <3> QED BY <3>1, <3>2, Sizes
  <2>3. highest = newest
    BY DEF AtNewest
  <2>4. CASE frame > newest
    <3>1. newest' = frame
      BY <2>1, <2>4
    <3>2. CASE AcceptExpected(frame) /\ (expectedSequence = None \/ frame = newest + 1)
      <4>1. /\ expectedSequence' = SeqOf(frame + 1) /\ expectedSequence' # None
            /\ received' = received + 1 /\ recovered' = recovered /\ lost' = lost
            /\ first' = IF expectedSequence = None THEN frame ELSE first
            /\ highest' = frame
        BY <2>1, <2>2, <2>3, <2>4, <3>2 DEF AcceptExpected, Forward
      <4>2. received' - recovered' + lost' = highest' - first' + 1
        <5>1. CASE expectedSequence = None
          BY <2>1, <4>1, <5>1 DEF AtNewest
        <5>2. CASE expectedSequence # None
          BY <2>1, <2>3, <3>2, <4>1, <5>2 DEF FramesAccountedFor
        <5> QED BY <5>1, <5>2
      <4> QED BY <2>1, <3>1, <4>1, <4>2 DEF AtNewest, FramesAccountedFor
    <3>3. CASE /\ AcceptAhead(frame) /\ expectedSequence # None
               /\ Gap(SeqOf(frame)) = frame - newest - 1
      <4>1. /\ expectedSequence' = SeqOf(frame + 1) /\ expectedSequence' # None
            /\ received' = received + 1 /\ recovered' = recovered
            /\ lost' = lost + (frame - newest - 1)
            /\ first' = first /\ highest' = frame
        BY <2>1, <2>2, <2>3, <2>4, <3>3 DEF AcceptAhead, Forward
      <4>2. received' - recovered' + lost' = highest' - first' + 1
        BY <2>1, <2>3, <3>3, <4>1 DEF FramesAccountedFor
      <4> QED BY <2>1, <3>1, <4>1, <4>2 DEF AtNewest, FramesAccountedFor
    <3> QED BY <1>2, <2>4, <3>2, <3>3, NewerAccepted
  <2>5. CASE frame <= newest
    <3>1. /\ expectedSequence # None
          /\ AcceptRecovered(frame) \/ RejectDuplicate(frame) \/ RefuseOld(frame)
      BY <1>2, <2>5, OlderNotAhead
    <3>2. newest' = newest
      BY <2>1, <2>5
    <3>3. /\ expectedSequence' = expectedSequence /\ lost' = lost /\ first' = first
          /\ highest' = highest
      BY <2>1, <2>3, <2>5, <3>1 DEF AcceptRecovered, RejectDuplicate, RefuseOld, Forward,
                                    sequenceVars, counters, streamVars
    <3>4. \/ received' = received + 1 /\ recovered' = recovered + 1
          \/ received' = received /\ recovered' = recovered
      BY <3>1 DEF AcceptRecovered, RejectDuplicate, RefuseOld, Forward, counters
    <3> QED BY <2>1, <3>1, <3>2, <3>3, <3>4 DEF AtNewest, FramesAccountedFor
  <2> QED BY <2>1, <2>4, <2>5
<1> QED BY <1>1, <1>2 DEF Next

LEMMA InitCounters == Init => Seen /\ AtNewest /\ FramesAccountedFor
<1> SUFFICES ASSUME Init PROVE Seen /\ AtNewest /\ FramesAccountedFor
  OBVIOUS
<1>1. Seen
  BY DEF Init, Seen
<1> QED BY <1>1 DEF Init, AtNewest, FramesAccountedFor

\* What holds on a stream in step.
InStepInv == SequenceTypes /\ Seen /\ AtNewest /\ FramesAccountedFor

LEMMA AlwaysInStep == StreamInStep => (Spec => []InStepInv)
<1> SUFFICES ASSUME StreamInStep PROVE Spec => []InStepInv
  OBVIOUS
<1>1. Init => InStepInv
  BY InitSequence, InitCounters DEF InStepInv
<1>2. InStepInv /\ [Next]_vars => InStepInv'
  BY SequenceKeeps, SeenKeeps, CountersKept DEF InStepInv
<1> QED BY <1>1, <1>2, PTL DEF Spec

\* The counters that stats_payload() sends account for every frame from the first accepted
\* to the newest, on a stream in step with its clock, across any number of laps.
THEOREM CountersAddUp == StreamInStep => (Spec => []FramesAccountedFor)
<1>1. InStepInv => FramesAccountedFor
  BY DEF InStepInv
<1> QED BY <1>1, AlwaysInStep, PTL

\* On such a stream accept() hands every frame that comes in its turn on to C++: the duplicate
\* filter, which knows only 8-bit numbers, never takes it for one of the lap before.
THEOREM InTurn == StreamInStep => (Spec => InTurnForwarded)
<1> SUFFICES ASSUME StreamInStep PROVE Spec => InTurnForwarded
  OBVIOUS
<1> DEFINE Turn == \A frame \in FrameIds :
                     newest' = frame /\ frame = newest + 1 => forwarded' = frame
<1>1. InStepInv /\ [Next]_vars => [Turn]_vars
  <2> SUFFICES ASSUME InStepInv, [Next]_vars, NEW frame \in FrameIds,
                      newest' = frame, frame = newest + 1
               PROVE  forwarded' = frame
    BY Zenon DEF Turn
  <2>1. newest \in Int /\ frame \in Int /\ newest' # newest
    BY Sizes DEF InStepInv, SequenceTypes
  <2>2. PICK f \in FrameIds : Arrives(f) /\ Accept(f)
    BY <2>1 DEF Next, Tick, SyncResult, Report, vars
  <2>3. f = frame /\ frame > newest
    BY <2>1, <2>2 DEF Arrives
  <2>4. AcceptExpected(frame) \/ AcceptAhead(frame)
    BY <2>2, <2>3, NewerAccepted DEF InStepInv
  <2> QED BY <2>4 DEF AcceptExpected, AcceptAhead, Forward
<1> QED BY <1>1, AlwaysInStep, PTL DEF Spec, InTurnForwarded

-------------------------------------------------------------------------------
(* What was recovered was lost.                                            *)

\* What the numbers remember of the frames themselves.  A frame of the stream that is not
\* absent was handed to C++, and its number was seen no earlier than it was captured;
\* a mark belongs to a number that some frame since the first one had.
Ghosts ==
  /\ absent \subseteq first .. highest
  /\ \A g \in first .. highest : g \notin absent => CapturedAt[g] <= lastSeenAt[SeqOf(g)]
  /\ \A s \in missing : \E h \in first .. newest : SeqOf(h) = s
  /\ LossReported

\* A late frame that was handed to C++ before is still remembered, and one that is older than
\* the first has no mark: so what is recovered had been passed over.
LEMMA RecoveredAbsent ==
  ASSUME Prompt, InStepInv, Ghosts, NEW frame \in FrameIds, Arrives(frame),
         AcceptRecovered(frame), frame <= newest
  PROVE  frame \in absent /\ frame <= highest
<1>1. /\ expectedSequence # None /\ SeqOf(frame) \in missing
      /\ ~SeenLately(SeqOf(frame))
  BY DEF AcceptRecovered, IsBehind
<1>2. /\ newest \in Nat /\ first <= newest /\ highest = newest /\ first \in Int
      /\ frame \in Nat /\ now \in Int /\ CapturedAt[frame] \in Int
      /\ lastSeenAt[SeqOf(frame)] \in Int /\ Latency \in Int /\ DuplicateTime \in Int
  <2>1. SeqOf(frame) \in Seqs /\ CapturedAt[frame] \in Int /\ frame \in Nat
    BY Sizes, Times, NumberRange
  <2>2. lastSeenAt[SeqOf(frame)] \in Int /\ now \in Int /\ first \in Int
    BY <2>1, Sizes DEF InStepInv, SequenceTypes
  <2> QED BY <1>1, <2>1, <2>2, Sizes DEF InStepInv, AtNewest
<1>3. now <= CapturedAt[frame] + Latency /\ newest - Delay <= frame
      /\ Delay \in Nat /\ Delay < SeqMod /\ SeqMod \in Nat
  <2>1. now <= CapturedAt[frame] + Latency
    BY <1>2 DEF Arrives
  <2>2. newest - Delay <= frame
    BY <1>2, Sizes DEF Arrives
  <2>3. Delay <= SeqMod - Half
    BY DEF Prompt, StreamInStep
  <2> QED BY <2>1, <2>2, <2>3, Sizes
<1>4. CASE first <= frame /\ frame \notin absent
  <2>1. CapturedAt[frame] <= lastSeenAt[SeqOf(frame)]
    BY <1>2, <1>4 DEF Ghosts
  <2>2. Latency < DuplicateTime
    BY DEF Prompt
  <2>3. now - lastSeenAt[SeqOf(frame)] < DuplicateTime
    BY <1>2, <1>3, <2>1, <2>2
  <2> QED BY <1>1, <2>3 DEF SeenLately
<1>5. CASE frame < first
  <2>1. PICK h \in first .. newest : SeqOf(h) = SeqOf(frame)
    BY <1>1 DEF Ghosts
  <2>2. h \in Nat /\ frame < h /\ h <= newest
    BY <1>2, <1>5, <2>1
  <2>3. frame + SeqMod <= h
    BY <1>2, <2>1, <2>2, LapBetween
  <2> QED BY <1>2, <1>3, <2>2, <2>3
<1> QED BY <1>2, <1>4, <1>5

\* The times remembered, after a frame has come whose number is remembered anew.
LEMMA StillRecorded ==
  ASSUME InStepInv, Ghosts, NEW frame \in FrameIds, Arrives(frame),
         \/ lastSeenAt' = lastSeenAt
         \/ lastSeenAt' = [lastSeenAt EXCEPT ![SeqOf(frame)] = now],
         NEW g \in FrameIds, first <= g, g <= highest, g \notin absent
  PROVE  CapturedAt[g] <= lastSeenAt'[SeqOf(g)]
<1>1. /\ SeqOf(g) \in Seqs /\ g \in Int /\ newest \in Int /\ highest = newest
      /\ newest \in FrameIds
  <2>1. g \in Nat /\ SeqOf(g) \in Seqs
    BY Sizes, NumberRange
  <2>2. highest = newest /\ newest \in FrameIds \cup {-1}
    BY DEF InStepInv, AtNewest, SequenceTypes
  <2> QED BY <2>1, <2>2, Sizes
<1>2. CapturedAt[g] <= now
  <2>1. CapturedAt[g] <= CapturedAt[newest] /\ CapturedAt[newest] <= now
    <3>1. newest # -1
      BY <1>1, Sizes
    <3> QED BY <1>1, <3>1, Times DEF InStepInv, Seen
  <2>2. CapturedAt[g] \in Int /\ CapturedAt[newest] \in Int /\ now \in Int
    BY <1>1, Sizes, Times DEF InStepInv, SequenceTypes
  <2> QED BY <2>1, <2>2
<1>3. CapturedAt[g] <= lastSeenAt[SeqOf(g)]
  <2>1. g \in first .. highest
    <3>1. first \in Int /\ highest \in Int
      BY <1>1, Sizes DEF InStepInv, SequenceTypes
    <3> QED BY <1>1, <3>1
  <2> QED BY <2>1 DEF Ghosts
<1>4. lastSeenAt'[SeqOf(g)] \in {now, lastSeenAt[SeqOf(g)]}
  BY <1>1 DEF InStepInv, SequenceTypes
<1> QED BY <1>2, <1>3, <1>4

\* The marks a gap leaves are the numbers of the frames in it.
LEMMA MarkedFrames ==
  ASSUME NEW n \in Nat, NEW gap \in Nat, gap < SeqMod, expectedSequence = SeqOf(n + 1),
         NEW s \in Marked(gap)
  PROVE  \E h \in n + 1 .. n + gap : SeqOf(h) = s
<1>1. PICK k \in 0 .. (IF gap < MissingLimit THEN gap ELSE MissingLimit) - 1 :
        s = (expectedSequence + k) % SeqMod
  BY DEF Marked
<1>2. k \in Nat /\ k < gap /\ k < SeqMod /\ n + 1 \in Nat
  BY <1>1, Sizes
<1>3. s = SeqOf(n + 1 + k)
  BY <1>1, <1>2, NumbersOn
<1>4. n + 1 + k \in n + 1 .. n + gap
  BY <1>2
<1> QED BY <1>3, <1>4

LEMMA FiniteFrames ==
  ASSUME NEW S, S \subseteq FrameIds
  PROVE  IsFiniteSet(S) /\ Cardinality(S) \in Nat
<1>1. IsFiniteSet(FrameIds)
  BY FS_Interval, Sizes DEF FrameIds
<1>2. IsFiniteSet(S)
  BY <1>1, FS_Subset
<1> QED BY <1>2, FS_CardinalityType

LEMMA GhostsKept ==
  ASSUME Prompt, InStepInv, Ghosts, [Next]_vars
  PROVE  Ghosts'
<1>1. CASE Tick \/ SyncResult \/ Report \/ UNCHANGED vars
  BY <1>1 DEF Tick, SyncResult, Report, vars, sequenceVars, counters, streamVars, Ghosts,
              LossReported
<1>2. ASSUME NEW frame \in FrameIds, Arrives(frame), Accept(frame)
      PROVE  Ghosts'
  <2>1. /\ frame \in Nat /\ newest \in Int /\ highest = newest /\ first \in Nat
        /\ newest' = (IF frame > newest THEN frame ELSE newest)
        /\ lost \in Nat /\ recovered \in Nat /\ StreamInStep
        /\ highest \in FrameIds \cup {-1} /\ SeqOf(frame) \in Seqs
        /\ CapturedAt[frame] <= now
    <3>1. frame \in Nat /\ SeqOf(frame) \in Seqs /\ CapturedAt[frame] \in Int
      BY Sizes, Times, NumberRange
    <3>2. highest = newest
      BY DEF InStepInv, AtNewest
    <3> QED BY <1>2, <3>1, <3>2, Sizes DEF Arrives, InStepInv, SequenceTypes, Prompt
  <2>2. IsFiniteSet(absent) /\ Cardinality(absent) \in Nat
    BY FiniteFrames DEF InStepInv, SequenceTypes
  <2>3. \A g \in first .. highest : g \in FrameIds
    BY <2>1, Sizes DEF FrameIds
  <2>4. CASE frame <= newest
    <3>1. /\ expectedSequence # None
          /\ AcceptRecovered(frame) \/ RejectDuplicate(frame) \/ RefuseOld(frame)
      BY <1>2, <2>1, <2>4, OlderNotAhead DEF InStepInv
    <3>2. /\ first' = first /\ highest' = highest /\ newest' = newest
          /\ missing' \subseteq missing /\ lost' = lost
          /\ \/ lastSeenAt' = lastSeenAt
             \/ lastSeenAt' = [lastSeenAt EXCEPT ![SeqOf(frame)] = now]
      BY <2>1, <2>4, <3>1 DEF AcceptRecovered, RejectDuplicate, RefuseOld, Forward,
                              sequenceVars, counters, streamVars
    <3>3. \A g \in first' .. highest' : g \notin absent =>
            CapturedAt[g] <= lastSeenAt'[SeqOf(g)]
      <4> SUFFICES ASSUME NEW g \in first .. highest, g \notin absent
                   PROVE  CapturedAt[g] <= lastSeenAt'[SeqOf(g)]
        BY <3>2
      <4>1. g \in FrameIds /\ first <= g /\ g <= highest
        BY <2>1, <2>3
      <4> QED BY <1>2, <3>2, <4>1, StillRecorded
    <3>4. \A s \in missing' : \E h \in first' .. newest' : SeqOf(h) = s
      BY <3>2 DEF Ghosts
    <3>5. CASE AcceptRecovered(frame)
      <4>1. frame \in absent /\ frame <= highest
        BY <1>2, <2>4, <3>5, RecoveredAbsent
      <4>2. recovered' = recovered + 1 /\ absent' = absent \ {frame}
        <5>1. highest + 1 .. frame - 1 = {}
          BY <2>1, <4>1
        <5> QED BY <3>1, <3>5, <5>1 DEF AcceptRecovered, Forward
      <4>3. Cardinality(absent') = Cardinality(absent) - 1
        BY <2>2, <4>1, <4>2, FS_RemoveElement
      <4>4. LossReported'
        BY <2>1, <2>2, <3>2, <4>2, <4>3 DEF Ghosts, LossReported
      <4>5. lastSeenAt'[SeqOf(frame)] = now
        BY <2>1, <3>5 DEF AcceptRecovered, Forward, InStepInv, SequenceTypes
      <4>6. \A g \in first' .. highest' : g \notin absent' =>
              CapturedAt[g] <= lastSeenAt'[SeqOf(g)]
        BY <2>1, <3>3, <4>2, <4>5
      <4> QED BY <3>2, <3>4, <4>2, <4>4, <4>6 DEF Ghosts
    <3>6. CASE RejectDuplicate(frame) \/ RefuseOld(frame)
      <4>1. absent' = absent /\ recovered' = recovered
        BY <3>6 DEF RejectDuplicate, RefuseOld, counters, streamVars
      <4> QED BY <3>2, <3>3, <3>4, <4>1 DEF Ghosts, LossReported
    <3> QED BY <3>1, <3>5, <3>6
  <2>5. CASE frame > newest
    <3>1. \/ AcceptExpected(frame) /\ (expectedSequence = None \/ frame = newest + 1)
          \/ /\ AcceptAhead(frame) /\ expectedSequence # None
             /\ Gap(SeqOf(frame)) = frame - newest - 1
      BY <1>2, <2>1, <2>5, NewerAccepted DEF InStepInv
    <3>2. /\ newest' = frame /\ highest' = frame /\ recovered' = recovered
          /\ lastSeenAt' = [lastSeenAt EXCEPT ![SeqOf(frame)] = now]
          /\ lastSeenAt'[SeqOf(frame)] = now
          /\ first' = IF expectedSequence = None THEN frame ELSE first
          /\ frame \notin absent
      <4>1. Forward(frame) /\ recovered' = recovered
        BY <3>1 DEF AcceptExpected, AcceptAhead
      <4>2. frame \notin absent
        BY <2>1, <2>5 DEF Ghosts
      <4> QED BY <2>1, <2>5, <4>1, <4>2 DEF Forward, InStepInv, SequenceTypes
    <3>3. CASE expectedSequence = None
      <4>1. newest = -1 /\ lost = 0 /\ recovered = 0 /\ first .. highest = {}
        BY <2>1, <3>3 DEF InStepInv, AtNewest
      <4>2. absent = {} /\ missing = {}
        BY <2>1, <4>1 DEF Ghosts
      <4>3. absent' = {} /\ missing' = {} /\ lost' = 0
        BY <3>1, <3>3, <4>1, <4>2 DEF AcceptExpected, Forward
      <4>4. first' = frame /\ frame .. frame = {frame}
        BY <2>1, <3>2, <3>3
      <4> QED BY <2>1, <3>2, <4>1, <4>3, <4>4, FS_EmptySet DEF Ghosts, LossReported
    <3>4. CASE expectedSequence # None
      <4> DEFINE between == newest + 1 .. frame - 1
                 gap == frame - newest - 1
      <4>1. /\ newest \in Nat /\ first <= newest /\ expectedSequence = SeqOf(newest + 1)
            /\ first' = first /\ gap \in Nat
        BY <2>1, <2>5, <3>2, <3>4 DEF InStepInv, AtNewest
      <4>2. absent' = absent \cup between
        <5>1. absent' = (absent \ {frame}) \cup (highest + 1 .. frame - 1)
          BY <3>1, <3>4 DEF AcceptExpected, AcceptAhead, Forward
        <5> QED BY <2>1, <3>2, <5>1
      <4>3. absent' \subseteq first' .. highest'
        BY <2>1, <3>2, <4>1, <4>2 DEF Ghosts
      <4>4. \A g \in first' .. highest' : g \notin absent' =>
              CapturedAt[g] <= lastSeenAt'[SeqOf(g)]
        <5> SUFFICES ASSUME NEW g \in first .. frame, g \notin absent, g \notin between
                     PROVE  CapturedAt[g] <= lastSeenAt'[SeqOf(g)]
          BY <3>2, <4>1, <4>2
        <5>1. CASE g = frame
          BY <2>1, <3>2, <5>1
        <5>2. CASE g # frame
          <6>1. g \in FrameIds /\ first <= g /\ g <= highest
            BY <2>1, <4>1, <5>2, Sizes DEF FrameIds
          <6> QED BY <1>2, <3>2, <6>1, StillRecorded
        <5> QED BY <5>1, <5>2
      <4>5. /\ \A s \in missing' : \E h \in first' .. newest' : SeqOf(h) = s
            /\ lost' = lost + gap
        <5>1. \A s \in missing : \E h \in first' .. newest' : SeqOf(h) = s
          <6>1. first .. newest \subseteq first' .. newest'
            BY <2>1, <2>5, <3>2, <4>1
          <6> QED BY <6>1 DEF Ghosts
        <5>2. CASE AcceptExpected(frame) /\ frame = newest + 1
          BY <2>1, <5>1, <5>2 DEF AcceptExpected
        <5>3. CASE AcceptAhead(frame) /\ Gap(SeqOf(frame)) = gap
          <6>1. gap < SeqMod
            <7>1. frame <= newest + 1 + MaxSkip
              BY <1>2 DEF Arrives
            <7> QED BY <2>1, <4>1, <7>1, Sizes DEF StreamInStep
          <6>2. missing' = missing \cup Marked(gap) /\ lost' = lost + gap
            BY <5>3 DEF AcceptAhead
          <6>3. \A s \in Marked(gap) : \E h \in newest + 1 .. newest + gap : SeqOf(h) = s
            BY <4>1, <6>1, MarkedFrames
          <6>4. newest + 1 .. newest + gap \subseteq first' .. newest'
            BY <2>1, <3>2, <4>1
          <6> QED BY <5>1, <6>2, <6>3, <6>4
        <5> QED BY <3>1, <3>4, <5>2, <5>3
      <4>6. LossReported'
        <5>1. IsFiniteSet(between) /\ Cardinality(between) = gap
          <6>1. newest + 1 \in Int /\ frame - 1 \in Int
            BY <2>1
          <6>2. IsFiniteSet(between)
                /\ Cardinality(between) = IF newest + 1 > frame - 1 THEN 0
                                           ELSE frame - 1 - (newest + 1) + 1
            BY <6>1, FS_Interval
          <6> QED BY <2>1, <2>5, <6>2
        <5>2. absent \cap between = {}
          BY <2>1, <4>1 DEF Ghosts
        <5> HIDE DEF between, gap
        <5>3. Cardinality(absent') = Cardinality(absent) + Cardinality(between)
                                     - Cardinality(absent \cap between)
          BY <2>2, <4>2, <5>1, FS_Union
        <5>4. Cardinality(absent \cap between) = 0
          BY <5>2, FS_EmptySet
        <5> QED BY <2>1, <2>2, <3>2, <4>1, <4>5, <5>1, <5>3, <5>4 DEF Ghosts, LossReported
      <4> QED BY <4>3, <4>4, <4>5, <4>6 DEF Ghosts
    <3> QED BY <3>3, <3>4
  <2> QED BY <2>1, <2>4, <2>5
<1> QED BY <1>1, <1>2 DEF Next

LEMMA InitGhosts == Init => Ghosts
BY FS_EmptySet DEF Init, Ghosts, LossReported

LEMMA AlwaysGhosts == Prompt => (Spec => [](InStepInv /\ Ghosts))
<1> SUFFICES ASSUME Prompt PROVE Spec => [](InStepInv /\ Ghosts)
  OBVIOUS
<1>1. StreamInStep
  BY DEF Prompt
<1>2. InStepInv /\ Ghosts /\ [Next]_vars => Ghosts'
  BY GhostsKept
<1> QED BY <1>1, <1>2, AlwaysInStep, InitGhosts, PTL DEF Spec

\* On a stream without long stalls the loss that stats_payload() reports, less what it reports
\* as recovered, is the number of frames that never reached C++, across any number of laps.
THEOREM LossIsTrue == Prompt => (Spec => []LossReported)
<1>1. Ghosts => LossReported
  BY DEF Ghosts
<1> QED BY <1>1, AlwaysGhosts, PTL

\* On such a stream accept() never hands a frame to C++ twice, and counts one as recovered
\* only if that frame was passed over: neither a mark nor a time that a frame of another lap
\* left on its number deceives it.
THEOREM RecoveredLost == Prompt => (Spec => RecoveredWasLost)
<1> SUFFICES ASSUME Prompt PROVE Spec => RecoveredWasLost
  OBVIOUS
<1> DEFINE Once == forwarded' # None =>
                     IF forwarded' > highest THEN recovered' = recovered
                     ELSE forwarded' \in absent /\ recovered' = recovered + 1
<1>1. InStepInv /\ Ghosts /\ [Next]_vars => [Once]_vars
  <2> SUFFICES ASSUME InStepInv, Ghosts, Next, forwarded' # None PROVE Once
    BY DEF Once
  <2>1. PICK frame \in FrameIds : Arrives(frame) /\ Accept(frame)
    BY DEF Next, Tick, SyncResult, Report
  <2>2. frame \in Int /\ newest \in Int /\ highest = newest /\ StreamInStep
    BY Sizes DEF InStepInv, SequenceTypes, AtNewest, Prompt
  <2>3. CASE frame > newest
    <3>1. AcceptExpected(frame) \/ AcceptAhead(frame)
      BY <2>1, <2>2, <2>3, NewerAccepted DEF InStepInv
    <3> QED BY <2>2, <2>3, <3>1 DEF AcceptExpected, AcceptAhead, Forward, Once
  <2>4. CASE frame <= newest
    <3>1. AcceptRecovered(frame) \/ RejectDuplicate(frame) \/ RefuseOld(frame)
      BY <2>1, <2>2, <2>4, OlderNotAhead DEF InStepInv
    <3>2. AcceptRecovered(frame)
      BY <3>1 DEF RejectDuplicate, RefuseOld
    <3>3. frame \in absent
      BY <2>1, <2>4, <3>2, RecoveredAbsent
    <3> QED BY <2>2, <2>4, <3>2, <3>3 DEF AcceptRecovered, Forward, Once
  <2> QED BY <2>2, <2>3, <2>4
<1> QED BY <1>1, AlwaysGhosts, PTL DEF Spec, RecoveredWasLost
===============================================================================

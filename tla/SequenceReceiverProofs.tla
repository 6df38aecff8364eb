------------------------ MODULE SequenceReceiverProofs ------------------------
(***************************************************************************)
(* For every width of the sequence number, window, forced-skip distance    *)
(* and stream length: as long as the network is bounded as NetworkBounded  *)
(* says, main.cpp takes every packet for the frame it is, and writes       *)
(* frames in order, each at most once, none of those it cached left out.   *)
(***************************************************************************)
EXTENDS SequenceReceiver, SequenceTheorems, ModArithmetic, TLAPS

\* Every frame in area sits under its own number, is one of those that may be accepted
\* while count is expected, and has arrived: top is the newest that has.
Held(area, count, top) ==
  \A s \in Seqs :
    area[s] # None => /\ s = SeqOf(area[s])
                      /\ area[s] \in count .. count + Window - 2
                      /\ area[s] <= top

\* The inductive invariant.  That the expected frame is at most one past the newest is what
\* keeps a late packet from looking like one of the next lap.
Reached ==
  /\ expectedCount <= newest + 1
  /\ played < expectedCount
  /\ \A s \in Seqs : sortingArea[s] # None => mode = "reorder" /\ sortingArea[s] <= newest

IInv == TypeOK /\ CachedAreCurrent /\ Reached

-------------------------------------------------------------------------------
(* Sequence numbers.                                                       *)

LEMMA Sizes ==
  /\ SeqMod \in Nat /\ SeqMod >= 2 /\ Window \in Nat /\ Window >= 2 /\ Window <= SeqMod
  /\ Frames \in Nat /\ Delay \in Nat /\ Reach \in Nat /\ None \notin Int
  /\ FrameIds \subseteq Nat
BY WindowAssumption, FramesAssumption, NetworkAssumption DEF FrameIds

LEMMA NumberRange == \A a \in Nat : SeqOf(a) \in Seqs
BY Sizes DEF SeqOf, Seqs

\* Frames less than a lap apart: their numbers tell how far apart they are.
LEMMA SeqDistance ==
  ASSUME NEW a \in Nat, NEW b \in Nat, -SeqMod <= a - b, a - b < SeqMod
  PROVE  Distance(SeqOf(a), SeqOf(b)) = IF a >= b THEN a - b ELSE a - b + SeqMod
<1>1. SeqMod \in Nat /\ SeqMod > 0
  BY Sizes
<1> QED BY <1>1, ModDiff, Zenon DEF Distance, SeqOf

\* ... and one number stands for one frame.
LEMMA SameSeq ==
  ASSUME NEW a \in Nat, NEW b \in Nat, -SeqMod < a - b, a - b < SeqMod,
         SeqOf(a) = SeqOf(b)
  PROVE  a = b
<1>1. Distance(SeqOf(a), SeqOf(b)) = IF a >= b THEN a - b ELSE a - b + SeqMod
  BY Sizes, SeqDistance
<1>2. SeqOf(a) \in Nat /\ SeqOf(b) \in Nat
  BY NumberRange, Sizes DEF Seqs
<1>3. Distance(SeqOf(a), SeqOf(b)) = 0
  BY <1>2, Sizes DEF Distance
<1> QED BY <1>1, <1>3, Sizes

\* isNewer(expectedSeq - 1, seq) accepts exactly the gaps up to Window - 2.
LEMMA AcceptsGap ==
  ASSUME NEW x \in Seqs, NEW y \in Seqs, IsNewer(Distance(y, 1), x)
  PROVE  Distance(x, y) \in 0 .. Window - 2
<1> DEFINE M == SeqMod
<1>1. M \in Nat /\ M >= 2 /\ x \in 0 .. M - 1 /\ y \in 0 .. M - 1
      /\ Window \in Nat /\ Window >= 2 /\ Window <= M
  BY Sizes DEF Seqs
<1>2. (y - 1) % M = IF y = 0 THEN M - 1 ELSE y - 1
  BY <1>1
<1>3. (x - y) % M = IF x >= y THEN x - y ELSE x - y + M
  BY <1>1
<1>4. x # (y - 1) % M /\ (x - ((y - 1) % M)) % M < Window
  BY DEF IsNewer, Distance
<1>5. CASE y = 0
  <2>1. (x - (M - 1)) % M = IF x = M - 1 THEN 0 ELSE x + 1
    BY <1>1
  <2> QED BY <1>1, <1>2, <1>3, <1>4, <1>5, <2>1 DEF Distance
<1>6. CASE y # 0
  <2>1. (x - (y - 1)) % M = IF x >= y - 1 THEN x - y + 1 ELSE x - y + 1 + M
    BY <1>1, <1>6
  <2> QED BY <1>1, <1>2, <1>3, <1>4, <1>6, <2>1 DEF Distance
<1> QED BY <1>5, <1>6

\* A packet that is accepted is the frame it is taken for.
LEMMA AcceptedFrame ==
  ASSUME NetworkBounded, IInv, NEW frame \in Arrivals, Accepts(frame)
  PROVE  /\ frame \in FrameIds /\ frame \in Nat /\ expectedCount \in Nat
         /\ Gap(frame) = frame - expectedCount
         /\ Gap(frame) \in 0 .. Window - 2
<1>1. /\ frame \in FrameIds /\ frame \in Nat /\ expectedCount \in Nat
      /\ newest \in Int /\ expectedCount <= newest + 1
  BY Sizes DEF IInv, TypeOK, Reached, Arrivals
<1>2. frame <= expectedCount + Reach /\ frame >= newest - Delay
  BY <1>1, Sizes DEF Arrivals
<1>3. Delay <= SeqMod - Window /\ Reach < SeqMod
  BY DEF NetworkBounded
<1>4. -SeqMod <= frame - expectedCount /\ frame - expectedCount < SeqMod
  BY <1>1, <1>2, <1>3, Sizes
<1>5. Gap(frame) = IF frame >= expectedCount THEN frame - expectedCount
                   ELSE frame - expectedCount + SeqMod
  BY <1>1, <1>4, SeqDistance DEF Gap, expectedSeq
<1>6. Gap(frame) \in 0 .. Window - 2
  <2>1. SeqOf(frame) \in Seqs /\ expectedSeq \in Seqs
    BY <1>1, NumberRange DEF expectedSeq
  <2> QED BY <2>1, AcceptsGap DEF Gap, Accepts
<1>7. frame >= expectedCount
  BY <1>1, <1>2, <1>3, <1>5, <1>6, Sizes
<1> QED BY <1>1, <1>5, <1>6, <1>7

-------------------------------------------------------------------------------
(* What is written, and what stays cached.                                 *)

\* Frames in a row, the first of them after the last one played, are in order.
LEMMA WriteInTurn ==
  ASSUME NEW batch \in Seq(FrameIds), NEW from \in Int, played \in FrameIds \cup {-1},
         played < from, \A i \in 1 .. Len(batch) : batch[i] = from + i - 1,
         Write(batch)
  PROVE  /\ InOrderStep
         /\ written' \in Seq(FrameIds)
         /\ played' \in FrameIds \cup {-1}
         /\ played' < from + Len(batch)
<1>1. written' = batch /\ Len(batch) \in Nat /\ played \in Int
  BY Sizes DEF Write
<1>2. InOrderStep
  BY <1>1 DEF InOrderStep
<1>3. CASE batch = <<>>
  BY <1>1, <1>2, <1>3 DEF Write
<1>4. CASE batch # <<>>
  <2>1. Len(batch) \in 1 .. Len(batch)
    BY <1>1, <1>4
  <2>2. played' = batch[Len(batch)] /\ batch[Len(batch)] \in FrameIds
    BY <1>4, <2>1 DEF Write
  <2> QED BY <1>1, <1>2, <2>1, <2>2
<1> QED BY <1>3, <1>4

\* What a run of n frames from count on leaves behind.
Drained(area, count, top, n) ==
  /\ n \in Nat /\ n < SeqMod
  /\ \A k \in 0 .. n - 1 : /\ area[SeqOf(count + k)] = count + k
                           /\ count + k \in FrameIds /\ count + k <= top
  /\ Released(area, count, n) \in [Seqs -> FrameIds \cup {None}]
  /\ \A s \in Seqs :
       /\ area[s] # None /\ area[s] < count + n => Released(area, count, n)[s] = None
       /\ area[s] # None /\ area[s] >= count + n => Released(area, count, n)[s] = area[s]
       /\ area[s] = None => Released(area, count, n)[s] = None
       /\ area[s] # None => area[s] # count + n

\* The frames the drain loop releases are exactly the next ones, and what it leaves in the
\* sorting area comes after them.
LEMMA DrainedFrames ==
  ASSUME NEW area \in [Seqs -> FrameIds \cup {None}], NEW count \in Nat, NEW top \in Int,
         Held(area, count, top), NEW n \in 0 .. SeqMod, IsRun(area, count, n)
  PROVE  Drained(area, count, top, n)
<1>1. n \in Nat /\ n <= SeqMod /\ Window - 2 < SeqMod - 1
  BY Sizes
<1>2. ASSUME NEW k \in 0 .. n - 1
      PROVE  /\ area[SeqOf(count + k)] = count + k
             /\ count + k \in FrameIds /\ count + k <= top /\ k <= Window - 2
  <2> DEFINE g == area[SeqOf(count + k)]
  <2>1. count + k \in Nat /\ SeqOf(count + k) \in Seqs /\ k \in Nat /\ k < SeqMod
    <3>1. k \in Nat /\ count + k \in Nat /\ k < SeqMod
      BY <1>1, Sizes
    <3> QED BY <3>1, NumberRange
  <2>2. g # None
    BY DEF IsRun
  <2>3. g \in FrameIds /\ SeqOf(count + k) = SeqOf(g) /\ g \in count .. count + Window - 2
        /\ g <= top
    BY <2>1, <2>2, Zenon DEF Held
  <2>4. g \in Nat
    BY <2>3, Sizes
  <2> HIDE DEF g
  <2>5. g = count + k
    BY <1>1, <2>1, <2>3, <2>4, SameSeq, Sizes
  <2> QED BY <2>1, <2>3, <2>5, Sizes DEF g
<1>3. n < SeqMod
  <2>1. CASE n = SeqMod
    <3>1. SeqMod - 1 \in 0 .. n - 1
      BY <2>1, Sizes
    <3>2. SeqMod - 1 <= Window - 2
      BY <3>1, <1>2
    <3> QED BY <3>2, Sizes
  <2> QED BY <2>1, <1>1, Sizes
<1>4. ASSUME NEW s \in Seqs, area[s] # None
      PROVE  /\ area[s] \in Nat /\ Distance(s, SeqOf(count)) = area[s] - count
             /\ area[s] # count + n
  <2> DEFINE g == area[s]
  <2>1. g \in FrameIds /\ s = SeqOf(g) /\ g \in count .. count + Window - 2
    BY <1>4, Zenon DEF Held
  <2>2. g \in Nat
    BY <2>1, Sizes
  <2> HIDE DEF g
  <2>3. Distance(SeqOf(g), SeqOf(count)) = g - count
    BY <2>1, <2>2, SeqDistance, Sizes
  <2>4. g # count + n
    <3>1. area[SeqOf(count + n)] = None
      BY <1>3 DEF IsRun
    <3> QED BY <3>1, <1>4, <2>1 DEF g
  <2> QED BY <2>1, <2>2, <2>3, <2>4 DEF g
<1>5. Released(area, count, n) \in [Seqs -> FrameIds \cup {None}]
  BY DEF Released
<1>6. ASSUME NEW s \in Seqs
      PROVE  /\ area[s] # None /\ area[s] < count + n => Released(area, count, n)[s] = None
             /\ area[s] # None /\ area[s] >= count + n => Released(area, count, n)[s] = area[s]
             /\ area[s] = None => Released(area, count, n)[s] = None
             /\ area[s] # None => area[s] # count + n
  <2>1. Released(area, count, n)[s] = IF Distance(s, SeqOf(count)) < n THEN None ELSE area[s]
    BY DEF Released
  <2>2. CASE area[s] = None
    BY <2>1, <2>2
  <2>3. CASE area[s] # None
    BY <2>1, <2>3, <1>1, <1>4
  <2> QED BY <2>2, <2>3
<1> QED BY <1>1, <1>2, <1>3, <1>5, <1>6 DEF Drained

\* The drain loop, after the packet has been written (first) or cached (in area).
LEMMA DrainStep ==
  ASSUME NEW area \in [Seqs -> FrameIds \cup {None}], NEW count \in Nat,
         NEW top \in FrameIds \cup {-1}, Held(area, count, top), count <= top + 1,
         played \in FrameIds \cup {-1}, NEW first \in Seq(FrameIds),
         \/ first = <<>> /\ played < count
         \/ count - 1 \in FrameIds /\ first = <<count - 1>> /\ played < count - 1,
         Drain(first, area, count)
  PROVE  /\ InOrderStep
         /\ written' \in Seq(FrameIds) /\ played' \in FrameIds \cup {-1}
         /\ expectedCount' \in Nat /\ expectedCount' <= top + 1 /\ played' < expectedCount'
         /\ sortingArea' \in [Seqs -> FrameIds \cup {None}]
         /\ \A s \in Seqs :
              sortingArea'[s] # None =>
                /\ s = SeqOf(sortingArea'[s])
                /\ sortingArea'[s] \in expectedCount' + 1 .. expectedCount' + Window - 2
                /\ sortingArea'[s] <= top
         /\ \A s \in Seqs :
              area[s] # None =>
                \/ sortingArea'[s] = area[s]
                \/ \E i \in 1 .. Len(written') : written'[i] = area[s]
<1>1. PICK n \in 0 .. SeqMod :
        /\ IsRun(area, count, n)
        /\ Write(first \o [i \in 1 .. n |-> area[SeqOf(count + i - 1)]])
        /\ sortingArea' = Released(area, count, n)
        /\ expectedCount' = count + n
  BY DEF Drain
<1> DEFINE run == [i \in 1 .. n |-> area[SeqOf(count + i - 1)]]
           batch == first \o run
           from == count - Len(first)
<1>2. top \in Int /\ played \in Int /\ FrameIds \subseteq Nat
  BY Sizes
<1>3. /\ n \in Nat /\ n < SeqMod
      /\ \A k \in 0 .. n - 1 : /\ area[SeqOf(count + k)] = count + k
                               /\ count + k \in FrameIds /\ count + k <= top
      /\ Released(area, count, n) \in [Seqs -> FrameIds \cup {None}]
      /\ \A s \in Seqs :
           /\ area[s] # None /\ area[s] < count + n => Released(area, count, n)[s] = None
           /\ area[s] # None /\ area[s] >= count + n => Released(area, count, n)[s] = area[s]
           /\ area[s] = None => Released(area, count, n)[s] = None
           /\ area[s] # None => area[s] # count + n
  <2>1. n \in 0 .. SeqMod /\ IsRun(area, count, n) /\ Held(area, count, top) /\ top \in Int
    BY <1>1, <1>2
  <2>2. Drained(area, count, top, n)
    BY <2>1, DrainedFrames
  <2> HIDE DEF run, batch, from
  <2> QED BY <2>2 DEF Drained
<1>4. \A i \in 1 .. n : /\ area[SeqOf(count + i - 1)] = count + i - 1
                        /\ count + i - 1 \in FrameIds
  <2> SUFFICES ASSUME NEW i \in 1 .. n
               PROVE  /\ area[SeqOf(count + i - 1)] = count + i - 1
                      /\ count + i - 1 \in FrameIds
    OBVIOUS
  <2>1. i - 1 \in 0 .. n - 1 /\ count + (i - 1) = count + i - 1
    BY <1>3
  <2>2. area[SeqOf(count + (i - 1))] = count + (i - 1) /\ count + (i - 1) \in FrameIds
    BY <1>3, <2>1
  <2> QED BY <2>1, <2>2
<1>5. run \in Seq(FrameIds) /\ Len(run) = n /\ \A i \in 1 .. n : run[i] = count + i - 1
  <2>1. run \in [1 .. n -> FrameIds] /\ \A i \in 1 .. n : run[i] = count + i - 1
    BY <1>4
  <2> HIDE DEF run
  <2>2. run \in Seq(FrameIds) /\ Len(run) = n
    BY <1>3, <2>1
  <2> QED BY <2>1, <2>2
<1> HIDE DEF run
<1>6. /\ batch \in Seq(FrameIds) /\ Len(batch) = Len(first) + n
      /\ \A i \in 1 .. Len(batch) :
           batch[i] = IF i <= Len(first) THEN first[i] ELSE run[i - Len(first)]
  <2>1. /\ first \o run \in Seq(FrameIds)
        /\ Len(first \o run) = Len(first) + Len(run)
        /\ \A i \in 1 .. Len(first) + Len(run) :
             (first \o run)[i] = IF i <= Len(first) THEN first[i] ELSE run[i - Len(first)]
    <3>1. first \in Seq(FrameIds) /\ run \in Seq(FrameIds)
      BY <1>5
    <3> QED BY <3>1, ConcatProperties, Zenon
  <2> QED BY <2>1, <1>5, Zenon
<1>7. Len(first) \in Nat /\ Len(first) <= 1 /\ from \in Int /\ played < from
      /\ (Len(first) = 1 => first[1] = from)
  <2>1. CASE first = <<>> /\ played < count
    <3>1. Len(first) = 0
      BY <2>1
    <3> QED BY <2>1, <3>1, <1>2
  <2>2. CASE first = <<count - 1>> /\ played < count - 1
    <3>1. Len(first) = 1 /\ first[1] = count - 1
      BY <2>2
    <3> QED BY <2>2, <3>1, <1>2
  <2> QED BY <2>1, <2>2
<1>8. \A i \in 1 .. Len(batch) : batch[i] = from + i - 1
  <2> SUFFICES ASSUME NEW i \in 1 .. Len(batch) PROVE batch[i] = from + i - 1
    OBVIOUS
  <2>1. CASE i <= Len(first)
    BY <2>1, <1>3, <1>6, <1>7
  <2>2. CASE i > Len(first)
    <3>1. i - Len(first) \in 1 .. n /\ batch[i] = run[i - Len(first)]
      BY <2>2, <1>3, <1>6, <1>7
    <3> QED BY <3>1, <1>5, <1>7
  <2> QED BY <2>1, <2>2, <1>7
<1>9. Write(batch) /\ written' = batch
  BY <1>1 DEF Write, run
<1> HIDE DEF batch, from
<1>10. /\ InOrderStep /\ written' \in Seq(FrameIds)
       /\ played' \in FrameIds \cup {-1} /\ played' < from + Len(batch)
  BY <1>6, <1>7, <1>8, <1>9, WriteInTurn
<1>11. from + Len(batch) = count + n /\ expectedCount' = count + n
  BY <1>1, <1>3, <1>6, <1>7 DEF from
<1>12. expectedCount' \in Nat /\ expectedCount' <= top + 1
  <2>1. CASE n = 0
    BY <2>1, <1>1, <1>2
  <2>2. CASE n # 0
    <3>1. n - 1 \in 0 .. n - 1
      BY <2>2, <1>3
    <3>2. count + (n - 1) <= top
      BY <3>1, <1>3
    <3> QED BY <3>2, <1>1, <1>2, <1>3
  <2> QED BY <2>1, <2>2
<1>13. ASSUME NEW s \in Seqs, sortingArea'[s] # None
       PROVE  /\ s = SeqOf(sortingArea'[s])
              /\ sortingArea'[s] \in expectedCount' + 1 .. expectedCount' + Window - 2
              /\ sortingArea'[s] <= top
  <2> DEFINE g == area[s]
  <2>1. g # None
    BY <1>1, <1>3, <1>13
  <2>2. s = SeqOf(g) /\ g \in count .. count + Window - 2 /\ g <= top /\ g \in FrameIds
    BY <2>1, Zenon DEF Held
  <2>3. g \in Nat
    BY <2>2, <1>2
  <2>4. ~(g < count + n) /\ g # count + n
    BY <1>1, <1>3, <1>13, <2>1
  <2>5. sortingArea'[s] = g
    BY <1>1, <1>3, <2>1, <2>3, <2>4
  <2> HIDE DEF g
  <2>6. g \in count + n + 1 .. count + n + Window - 2
    BY <1>3, <2>2, <2>3, <2>4, Sizes
  <2> QED BY <1>1, <2>2, <2>5, <2>6
<1>14. ASSUME NEW s \in Seqs, area[s] # None
       PROVE  \/ sortingArea'[s] = area[s]
              \/ \E i \in 1 .. Len(written') : written'[i] = area[s]
  <2> DEFINE g == area[s]
  <2>1. g \in count .. count + Window - 2 /\ g \in FrameIds
    BY <1>14, Zenon DEF Held
  <2>2. g \in Nat
    BY <2>1, <1>2
  <2>3. CASE g < count + n
    <3> HIDE DEF g
    <3>1. g - from + 1 \in 1 .. Len(batch)
      BY <2>1, <2>2, <2>3, <1>3, <1>6, <1>7, Sizes DEF from
    <3>2. batch[g - from + 1] = g
      BY <3>1, <1>7, <1>8, <2>2
    <3> QED BY <3>1, <3>2, <1>9 DEF g
  <2>4. CASE g >= count + n
    BY <2>4, <1>1, <1>3, <1>14
  <2> QED BY <2>2, <2>3, <2>4, <1>3
<1>15. sortingArea' \in [Seqs -> FrameIds \cup {None}]
  BY <1>1, <1>3
<1> QED BY <1>10, <1>11, <1>12, <1>13, <1>14, <1>15
-------------------------------------------------------------------------------
(* Every step keeps the invariant.                                         *)

\* Two facts of arithmetic, stated for numbers: the solver does not add to primed variables.
LEMMA PastNewest == \A e, f, n \in Int : e = f + 1 /\ f <= n => e <= n + 1
OBVIOUS

LEMMA WithinStream == \A e \in Nat, n \in Int, m \in Nat : e <= n + 1 /\ n < m => e \in 0 .. m
OBVIOUS

LEMMA InitIInv == Init => IInv
<1> SUFFICES ASSUME Init PROVE IInv
  OBVIOUS
<1>1. <<>> \in Seq(FrameIds) /\ -1 \in FrameIds \cup {-1} /\ 0 \in 0 .. Frames
  BY Sizes
<1>2. sortingArea \in [Seqs -> FrameIds \cup {None}] /\ \A s \in Seqs : sortingArea[s] = None
  BY DEF Init, EmptyArea
<1>3. TypeOK
  BY <1>1, <1>2 DEF Init, TypeOK
<1>4. CachedAreCurrent /\ Reached
  BY <1>2 DEF Init, CachedAreCurrent, Reached
<1> QED BY <1>3, <1>4 DEF IInv

LEMMA NewSessionKeeps == IInv /\ NewSession => IInv'
<1> SUFFICES ASSUME IInv, NewSession PROVE IInv'
  OBVIOUS
<1>1. <<>> \in Seq(FrameIds) /\ -1 \in FrameIds \cup {-1} /\ 0 \in 0 .. Frames
  BY Sizes
<1>2. /\ sortingArea' \in [Seqs -> FrameIds \cup {None}]
      /\ \A s \in Seqs : sortingArea'[s] = None
  BY DEF NewSession, EmptyArea
<1>3. TypeOK'
  BY <1>1, <1>2 DEF NewSession, IInv, TypeOK
<1>4. CachedAreCurrent' /\ Reached'
  BY <1>2 DEF NewSession, CachedAreCurrent, Reached
<1> QED BY <1>3, <1>4 DEF IInv

\* The frame that has arrived counts.
LEMMA NewestMoves ==
  ASSUME IInv, NEW frame \in Arrivals, newest' = IF frame > newest THEN frame ELSE newest
  PROVE  newest' \in FrameIds /\ newest' \in Int /\ newest' >= newest /\ newest' >= frame
BY Sizes DEF IInv, TypeOK, Arrivals

LEMMA NothingWritten ==
  ASSUME IInv, Write(<<>>)
  PROVE  InOrderStep /\ written' \in Seq(FrameIds) /\ played' = played
<1>1. written' = <<>> /\ Len(<<>>) = 0 /\ <<>> \in Seq(FrameIds) /\ played' = played
  BY DEF Write
<1> QED BY <1>1 DEF InOrderStep

\* What is cached now, whether or not the expected frame has just been written.
LEMMA HeldNow ==
  ASSUME IInv, NEW top \in Int, newest <= top
  PROVE  /\ sortingArea \in [Seqs -> FrameIds \cup {None}]
         /\ Held(sortingArea, expectedCount, top)
         /\ Held(sortingArea, expectedCount + 1, top)
<1>1. expectedCount \in Nat /\ newest \in Int
  BY Sizes DEF IInv, TypeOK
<1>2. ASSUME NEW s \in Seqs, sortingArea[s] # None
      PROVE  /\ s = SeqOf(sortingArea[s]) /\ sortingArea[s] \in Nat
             /\ sortingArea[s] \in expectedCount + 1 .. expectedCount + Window - 2
             /\ sortingArea[s] <= top
  BY <1>1, <1>2, Sizes DEF IInv, TypeOK, CachedAreCurrent, Reached
<1> QED BY <1>1, <1>2, Sizes DEF Held, IInv, TypeOK

LEMMA DropKeeps ==
  ASSUME IInv, NEW frame \in Arrivals, Drop(frame),
         newest' = IF frame > newest THEN frame ELSE newest
  PROVE  IInv' /\ InOrderStep /\ CachedKeptOrWritten
<1>1. newest' \in FrameIds /\ newest' \in Int /\ newest' >= newest
  BY NewestMoves
<1>2. InOrderStep /\ written' \in Seq(FrameIds) /\ played' = played
  BY NothingWritten DEF Drop
<1>3. UNCHANGED <<mode, opus, expectedCount, sortingArea, bufferLow>>
  BY DEF Drop
<1>4. expectedCount \in Nat /\ newest \in Int
  BY Sizes DEF IInv, TypeOK
<1>5. \A s \in Seqs : sortingArea[s] # None => sortingArea[s] \in Nat
  BY Sizes DEF IInv, TypeOK
<1>6. TypeOK' /\ CachedAreCurrent' /\ CachedKeptOrWritten
  BY <1>1, <1>2, <1>3 DEF IInv, TypeOK, CachedAreCurrent, CachedKeptOrWritten
<1>7. Reached'
  BY <1>1, <1>2, <1>3, <1>4, <1>5 DEF IInv, Reached
<1> QED BY <1>2, <1>6, <1>7 DEF IInv

LEMMA UnderrunKeeps ==
  ASSUME IInv, Underrun
  PROVE  IInv' /\ InOrderStep /\ CachedKeptOrWritten
<1>1. InOrderStep /\ written' \in Seq(FrameIds) /\ played' = played
  BY NothingWritten DEF Underrun
<1> QED BY <1>1 DEF Underrun, IInv, TypeOK, CachedAreCurrent, Reached, CachedKeptOrWritten

\* Outside the reorder mode nothing is ever cached.
LEMMA DirectKeeps ==
  ASSUME IInv, NEW frame \in FrameIds, NEW batch \in Seq(FrameIds), NEW from \in Nat,
         mode # "reorder", newest' \in FrameIds, newest' >= frame, expectedCount <= frame,
         expectedCount' = frame + 1, Write(batch), bufferLow' \in BOOLEAN,
         expectedCount <= from, from + Len(batch) <= frame + 1,
         \A i \in 1 .. Len(batch) : batch[i] = from + i - 1,
         UNCHANGED <<mode, opus, sortingArea>>
  PROVE  IInv' /\ InOrderStep /\ CachedKeptOrWritten
<1>1. frame \in Nat /\ frame < Frames /\ expectedCount \in Nat /\ played \in Int
      /\ newest' \in Int
  BY Sizes DEF IInv, TypeOK, FrameIds
<1>2. /\ InOrderStep /\ written' \in Seq(FrameIds)
      /\ played' \in FrameIds \cup {-1} /\ played' < from + Len(batch)
  BY <1>1, WriteInTurn DEF IInv, TypeOK, Reached
<1>3. \A s \in Seqs : sortingArea[s] = None
  BY DEF IInv, Reached
<1>4. Len(batch) \in Nat
  OBVIOUS
<1>5. TypeOK'
  BY <1>1, <1>2, Sizes DEF IInv, TypeOK
<1>6. CachedAreCurrent' /\ CachedKeptOrWritten
  BY <1>3 DEF CachedAreCurrent, CachedKeptOrWritten
<1>7. played' < expectedCount'
  BY <1>1, <1>2, <1>4, Sizes
<1>8. expectedCount' <= newest' + 1
  <2>1. expectedCount' \in Int /\ frame \in Int /\ frame <= newest'
    BY <1>1
  <2> QED BY <1>1, <2>1, PastNewest, Zenon
<1>9. Reached'
  BY <1>3, <1>7, <1>8 DEF Reached
<1> QED BY <1>2, <1>5, <1>6, <1>9 DEF IInv

LEMMA DiscardKeeps ==
  ASSUME NetworkBounded, IInv, NEW frame \in Arrivals, ReceiveDiscard(frame),
         newest' = IF frame > newest THEN frame ELSE newest
  PROVE  IInv' /\ InOrderStep /\ CachedKeptOrWritten
<1>1. /\ frame \in FrameIds /\ frame \in Nat /\ expectedCount \in Nat
      /\ Gap(frame) = frame - expectedCount /\ Gap(frame) \in 0 .. Window - 2
  BY AcceptedFrame DEF ReceiveDiscard
<1>2. newest' \in FrameIds /\ newest' >= frame
  BY NewestMoves
<1>3. PICK ok \in Decodes : Write(IF ok THEN <<frame>> ELSE <<>>)
  BY DEF ReceiveDiscard
<1> DEFINE batch == IF ok THEN <<frame>> ELSE <<>>
<1>4. batch \in Seq(FrameIds) /\ Len(batch) <= 1 /\ Len(batch) \in Nat
      /\ \A i \in 1 .. Len(batch) : batch[i] = frame + i - 1
  <2>1. CASE ok
    <3>1. batch = <<frame>> /\ Len(<<frame>>) = 1 /\ <<frame>>[1] = frame
          /\ <<frame>> \in Seq(FrameIds)
      BY <2>1, <1>1
    <3> QED BY <3>1, <1>1
  <2>2. CASE ~ok
    BY <2>2
  <2> QED BY <2>1, <2>2
<1> HIDE DEF batch
<1>5. expectedCount <= frame /\ expectedCount' = frame + 1 /\ frame + Len(batch) <= frame + 1
  BY <1>1, <1>4, Sizes DEF ReceiveDiscard
<1>6. mode # "reorder" /\ bufferLow' \in BOOLEAN /\ UNCHANGED <<mode, opus, sortingArea>>
  BY DEF ReceiveDiscard, IInv, TypeOK
<1>7. Write(batch)
  BY <1>3 DEF batch
<1> QED BY <1>1, <1>2, <1>4, <1>5, <1>6, <1>7, DirectKeeps

LEMMA QuicKeeps ==
  ASSUME NetworkBounded, IInv, NEW frame \in Arrivals, ReceiveQuic(frame),
         newest' = IF frame > newest THEN frame ELSE newest
  PROVE  IInv' /\ InOrderStep /\ CachedKeptOrWritten
<1>1. /\ frame \in FrameIds /\ frame \in Nat /\ expectedCount \in Nat
      /\ Gap(frame) = frame - expectedCount /\ Gap(frame) \in 0 .. Window - 2
  BY AcceptedFrame DEF ReceiveQuic
<1>2. newest' \in FrameIds /\ newest' >= frame
  BY NewestMoves
<1>3. PICK lost \in Concealed(Gap(frame)), ok \in Decodes :
        /\ LET concealed == [i \in 1 .. lost |-> expectedCount + Gap(frame) - lost + i - 1]
           IN  Write(IF ok THEN Append(concealed, frame) ELSE concealed)
        /\ bufferLow' = (bufferLow /\ ~ok)
  BY DEF ReceiveQuic
<1> DEFINE concealed == [i \in 1 .. lost |-> expectedCount + Gap(frame) - lost + i - 1]
           batch == IF ok THEN Append(concealed, frame) ELSE concealed
           from == frame - lost
<1>4. lost \in Nat /\ lost <= frame - expectedCount /\ from \in Nat /\ expectedCount <= from
  BY <1>1, <1>3, WindowAssumption DEF Concealed, MadeUp
<1>5. \A i \in 1 .. lost : /\ expectedCount + Gap(frame) - lost + i - 1 = from + i - 1
                           /\ from + i - 1 \in FrameIds
  BY <1>1, <1>4, Sizes DEF FrameIds
<1>6. concealed \in [1 .. lost -> FrameIds] /\ \A i \in 1 .. lost : concealed[i] = from + i - 1
  BY <1>5
<1>7. Write(batch)
  BY <1>3
<1> HIDE DEF concealed
<1>8. concealed \in Seq(FrameIds) /\ Len(concealed) = lost
  BY <1>4, <1>6
<1>9. /\ batch \in Seq(FrameIds) /\ Len(batch) \in Nat /\ from + Len(batch) <= frame + 1
      /\ \A i \in 1 .. Len(batch) : batch[i] = from + i - 1
  <2>1. CASE ok
    <3>1. batch = Append(concealed, frame)
      BY <2>1
    <3>2. /\ Append(concealed, frame) \in Seq(FrameIds)
          /\ Len(Append(concealed, frame)) = lost + 1
          /\ \A i \in 1 .. lost : Append(concealed, frame)[i] = concealed[i]
          /\ Append(concealed, frame)[lost + 1] = frame
      BY <1>1, <1>4, <1>8, AppendProperties
    <3> HIDE DEF batch
    <3> QED BY <3>1, <3>2, <1>1, <1>4, <1>6
  <2>2. CASE ~ok
    <3>1. batch = concealed
      BY <2>2
    <3> HIDE DEF batch
    <3> QED BY <3>1, <1>1, <1>4, <1>6, <1>8
  <2> QED BY <2>1, <2>2
<1> HIDE DEF batch, from
<1>10. mode # "reorder" /\ bufferLow' \in BOOLEAN /\ UNCHANGED <<mode, opus, sortingArea>>
  BY <1>3 DEF ReceiveQuic, IInv, TypeOK
<1>11. expectedCount <= frame /\ expectedCount' = frame + 1
  BY <1>1, Sizes DEF ReceiveQuic
<1> QED BY <1>1, <1>2, <1>4, <1>7, <1>9, <1>10, <1>11, DirectKeeps

\* The reorder mode, given that what was cached still is when the drain loop starts.
LEMMA ReorderKeeps ==
  ASSUME IInv, mode = "reorder", newest' \in FrameIds, bufferLow' \in BOOLEAN,
         NEW area \in [Seqs -> FrameIds \cup {None}], NEW count \in Nat,
         Held(area, count, newest'), count <= newest' + 1, NEW first \in Seq(FrameIds),
         \/ first = <<>> /\ played < count
         \/ count - 1 \in FrameIds /\ first = <<count - 1>> /\ played < count - 1,
         Drain(first, area, count), UNCHANGED <<mode, opus>>,
         \A s \in Seqs : sortingArea[s] # None => area[s] = sortingArea[s]
  PROVE  IInv' /\ InOrderStep /\ CachedKeptOrWritten
<1>1. newest' \in FrameIds \cup {-1} /\ played \in FrameIds \cup {-1} /\ newest' < Frames
      /\ newest' \in Int
  BY Sizes DEF IInv, TypeOK, FrameIds
<1>2. /\ InOrderStep
      /\ written' \in Seq(FrameIds) /\ played' \in FrameIds \cup {-1}
      /\ expectedCount' \in Nat /\ expectedCount' <= newest' + 1 /\ played' < expectedCount'
      /\ sortingArea' \in [Seqs -> FrameIds \cup {None}]
      /\ \A s \in Seqs :
           sortingArea'[s] # None =>
             /\ s = SeqOf(sortingArea'[s])
             /\ sortingArea'[s] \in expectedCount' + 1 .. expectedCount' + Window - 2
             /\ sortingArea'[s] <= newest'
      /\ \A s \in Seqs :
           area[s] # None =>
             \/ sortingArea'[s] = area[s]
             \/ \E i \in 1 .. Len(written') : written'[i] = area[s]
  BY <1>1, DrainStep
<1>3. expectedCount' \in 0 .. Frames
  <2>1. expectedCount' \in Nat /\ expectedCount' <= newest' + 1
    BY <1>2, Zenon
  <2> QED BY <1>1, <2>1, WithinStream, Sizes, Zenon
<1>4. TypeOK'
  BY <1>1, <1>2, <1>3 DEF IInv, TypeOK
<1>5. CachedAreCurrent' /\ Reached'
  BY <1>2 DEF CachedAreCurrent, Reached
<1>6. CachedKeptOrWritten
  BY <1>2 DEF CachedKeptOrWritten
<1> QED BY <1>2, <1>4, <1>5, <1>6 DEF IInv

LEMMA ExpectedKeeps ==
  ASSUME NetworkBounded, IInv, NEW frame \in Arrivals, ReceiveExpected(frame),
         newest' = IF frame > newest THEN frame ELSE newest
  PROVE  IInv' /\ InOrderStep /\ CachedKeptOrWritten
<1>1. /\ frame \in FrameIds /\ frame \in Nat /\ expectedCount \in Nat
      /\ frame = expectedCount
  BY AcceptedFrame DEF ReceiveExpected
<1>2. newest' \in FrameIds /\ newest' \in Int /\ newest <= newest' /\ frame <= newest'
  BY NewestMoves
<1>3. /\ sortingArea \in [Seqs -> FrameIds \cup {None}]
      /\ Held(sortingArea, expectedCount, newest')
      /\ Held(sortingArea, expectedCount + 1, newest')
  BY <1>2, HeldNow
<1>4. mode = "reorder" /\ UNCHANGED <<mode, opus>> /\ played < expectedCount
      /\ bufferLow \in BOOLEAN
  BY DEF ReceiveExpected, IInv, TypeOK, Reached
<1>5. CASE Drain(<<frame>>, sortingArea, expectedCount + 1) /\ bufferLow' = FALSE
  <2>1. <<frame>> \in Seq(FrameIds) /\ expectedCount + 1 \in Nat
        /\ expectedCount + 1 <= newest' + 1 /\ (expectedCount + 1) - 1 = frame
    BY <1>1, <1>2
  <2> QED BY <2>1, <1>1, <1>2, <1>3, <1>4, <1>5, ReorderKeeps
<1>6. CASE Drain(<<>>, sortingArea, expectedCount) /\ UNCHANGED bufferLow
  <2>1. <<>> \in Seq(FrameIds) /\ expectedCount <= newest' + 1
    BY <1>1, <1>2
  <2> QED BY <2>1, <1>1, <1>2, <1>3, <1>4, <1>6, ReorderKeeps
<1> QED BY <1>5, <1>6 DEF ReceiveExpected

LEMMA EarlyKeeps ==
  ASSUME NetworkBounded, IInv, NEW frame \in Arrivals, ReceiveEarly(frame),
         newest' = IF frame > newest THEN frame ELSE newest
  PROVE  IInv' /\ InOrderStep /\ CachedKeptOrWritten
<1>1. /\ frame \in FrameIds /\ frame \in Nat /\ expectedCount \in Nat
      /\ frame \in expectedCount + 1 .. expectedCount + Window - 2
  <2>1. /\ frame \in FrameIds /\ frame \in Nat /\ expectedCount \in Nat
        /\ Gap(frame) = frame - expectedCount /\ Gap(frame) \in 0 .. Window - 2
        /\ Gap(frame) # 0
    BY AcceptedFrame DEF ReceiveEarly
  <2> QED BY <2>1, Sizes
<1>2. newest' \in FrameIds /\ newest' \in Int /\ newest <= newest' /\ frame <= newest'
  BY NewestMoves
<1>3. /\ sortingArea \in [Seqs -> FrameIds \cup {None}]
      /\ Held(sortingArea, expectedCount, newest')
      /\ Held(sortingArea, expectedCount + 1, newest')
  BY <1>2, HeldNow
<1>4. PICK ok \in Decodes :
        Drain(<<>>, IF ok /\ sortingArea[SeqOf(frame)] = None
                      THEN CachedAs(frame) ELSE sortingArea, AfterSkip(frame))
  BY DEF ReceiveEarly
<1> DEFINE area == IF ok /\ sortingArea[SeqOf(frame)] = None
                     THEN CachedAs(frame) ELSE sortingArea
           count == AfterSkip(frame)
<1>5. count \in {expectedCount, expectedCount + 1}
  BY <1>1 DEF AfterSkip
<1>6. Drain(<<>>, area, count)
  BY <1>4
<1> HIDE DEF count
<1>7. count \in Nat /\ count <= newest' + 1 /\ played < count
      /\ frame \in count .. count + Window - 2
  BY <1>1, <1>2, <1>5, Sizes DEF IInv, TypeOK, Reached
<1>8. /\ area \in [Seqs -> FrameIds \cup {None}]
      /\ \A s \in Seqs : area[s] # None => \/ area[s] = sortingArea[s]
                                           \/ s = SeqOf(frame) /\ area[s] = frame
      /\ \A s \in Seqs : sortingArea[s] # None => area[s] = sortingArea[s]
  <2>1. SeqOf(frame) \in Seqs
    BY <1>1, NumberRange
  <2> QED BY <2>1, <1>1, <1>3 DEF CachedAs
<1> HIDE DEF area
<1>9. Held(sortingArea, count, newest')
  BY <1>3, <1>5
<1>10. Held(area, count, newest')
  <2> SUFFICES ASSUME NEW s \in Seqs, area[s] # None
               PROVE  /\ s = SeqOf(area[s])
                      /\ area[s] \in count .. count + Window - 2
                      /\ area[s] <= newest'
    BY DEF Held
  <2>1. CASE area[s] = sortingArea[s]
    BY <2>1, <1>9, Zenon DEF Held
  <2>2. CASE s = SeqOf(frame) /\ area[s] = frame
    BY <2>2, <1>2, <1>7
  <2> QED BY <2>1, <2>2, <1>8
<1>11. mode = "reorder" /\ UNCHANGED <<mode, opus>> /\ bufferLow' \in BOOLEAN
  BY DEF ReceiveEarly, IInv, TypeOK
<1>12. <<>> \in Seq(FrameIds)
  OBVIOUS
<1> QED BY <1>2, <1>6, <1>7, <1>8, <1>10, <1>11, <1>12, ReorderKeeps

LEMMA NextKeeps ==
  ASSUME NetworkBounded, IInv, [Next]_vars
  PROVE  /\ IInv'
         /\ \/ NewSession
            \/ UNCHANGED vars
            \/ InOrderStep /\ CachedKeptOrWritten
<1>1. ASSUME NEW frame \in Arrivals, Receive(frame)
      PROVE  IInv' /\ InOrderStep /\ CachedKeptOrWritten
  <2>1. newest' = IF frame > newest THEN frame ELSE newest
    BY <1>1 DEF Receive
  <2>2. CASE Drop(frame)
    BY <2>1, <2>2, DropKeeps
  <2>3. CASE ReceiveQuic(frame)
    BY <2>1, <2>3, QuicKeeps
  <2>4. CASE ReceiveDiscard(frame)
    BY <2>1, <2>4, DiscardKeeps
  <2>5. CASE ReceiveExpected(frame)
    BY <2>1, <2>5, ExpectedKeeps
  <2>6. CASE ReceiveEarly(frame)
    BY <2>1, <2>6, EarlyKeeps
  <2> QED BY <1>1, <2>2, <2>3, <2>4, <2>5, <2>6 DEF Receive
<1>2. CASE UNCHANGED vars
  BY <1>2 DEF vars, IInv, TypeOK, CachedAreCurrent, Reached
<1> QED BY <1>1, <1>2, NewSessionKeeps, UnderrunKeeps DEF Next

LEMMA Invariant == NetworkBounded => (Spec => []IInv)
<1> SUFFICES ASSUME NetworkBounded PROVE Spec => []IInv
  OBVIOUS
<1>1. IInv /\ [Next]_vars => IInv'
  BY NextKeeps
<1> QED BY InitIInv, <1>1, PTL DEF Spec

-------------------------------------------------------------------------------
(* The theorems.                                                           *)

\* Type correctness: the receiver never expects a frame past the end of the stream and
\* never writes or caches one that does not exist, whatever the network does within bounds.
THEOREM Typed == NetworkBounded => (Spec => []TypeOK)
<1>1. IInv => TypeOK
  BY DEF IInv
<1> QED BY <1>1, Invariant, PTL

\* What the sorting area of main.cpp holds is still to come: no frame is left behind to be
\* played one lap of the sequence numbers later.
THEOREM CachedCurrent == NetworkBounded => (Spec => []CachedAreCurrent)
<1>1. IInv => CachedAreCurrent
  BY DEF IInv
<1> QED BY <1>1, Invariant, PTL

\* main.cpp writes frames to the ring in the order they were produced, each at most once.
THEOREM WritesInOrder == NetworkBounded => (Spec => InOrder)
<1> SUFFICES ASSUME NetworkBounded PROVE Spec => InOrder
  OBVIOUS
<1>1. IInv /\ [Next]_vars => [NewSession \/ InOrderStep]_vars
  BY NextKeeps
<1> QED BY <1>1, Invariant, PTL DEF Spec, InOrder

\* Within a session, the reorder branch of main.cpp never loses a frame it has cached.
THEOREM CachedIsPlayed == NetworkBounded => (Spec => NothingCachedIsDropped)
<1> SUFFICES ASSUME NetworkBounded PROVE Spec => NothingCachedIsDropped
  OBVIOUS
<1>1. IInv /\ [Next]_vars => [NewSession \/ CachedKeptOrWritten]_vars
  BY NextKeeps
<1> QED BY <1>1, Invariant, PTL DEF Spec, NothingCachedIsDropped
===============================================================================

--------------------------- MODULE RingBufferProofs ---------------------------
(***************************************************************************)
(* For every capacity, cursor width and batch length, the steps of         *)
(* ring_buffer.h keep its types, never let the two memcpy calls meet in a  *)
(* slot, never take back what availableToRead() promised and never split a *)
(* frame; and the ring implements the FIFO of SampleFifo.                  *)
(***************************************************************************)
EXTENDS RingBuffer, ModArithmetic, SequenceTheorems, TLAPS

\* The inductive invariant.  The cursors are never further apart than the capacity;
\* a copy in progress fits in what is free (write) or in what is used (read), and
\* keeps fitting, because the other thread can only enlarge that region.
CopiesFit ==
  /\ Used(head, tail) <= Cap
  /\ wpc = "copy" => Len(wdata) <= Free(head, tail)
  /\ rpc = "copy" => rcount <= Used(head, tail) /\ seen = 0
  /\ rpc = "idle" => seen <= Used(head, tail)

IInv == TypeOK /\ CopiesFit

-------------------------------------------------------------------------------
(* Arithmetic of unsigned cursors.                                         *)

\* The cursors and what lies between them.
LEMMA CursorFacts ==
  /\ CursorMod \in Nat /\ CursorMod > Cap /\ CursorMod > 1
  /\ \A h, t \in Cursor : Used(h, t) \in Nat /\ Used(h, t) < CursorMod
<1>1. Cap \in Nat /\ Cap > 0 /\ Laps \in Nat /\ Laps > 1
  BY CapAssumption, LapsAssumption
<1>2. CursorMod \in Nat /\ CursorMod >= Cap * 2
  BY <1>1, Z3 DEF CursorMod
<1>3. CursorMod > Cap /\ CursorMod > 1
  BY <1>1, <1>2
<1>4. ASSUME NEW h \in Cursor, NEW t \in Cursor
      PROVE  Used(h, t) \in Nat /\ Used(h, t) < CursorMod
  BY <1>2, <1>3 DEF Used, Cursor
<1> QED BY <1>2, <1>3, <1>4

\* Publishing n samples that fit adds n to what is used; taking n of the samples there
\* are subtracts n.
LEMMA UsedAfterWrite ==
  ASSUME NEW h \in Cursor, NEW t \in Cursor, NEW n \in Nat, Used(h, t) + n <= Cap
  PROVE  Advance(h, n) \in Cursor /\ Used(Advance(h, n), t) = Used(h, t) + n
<1>1. CursorMod \in Nat /\ CursorMod > 1 /\ h \in 0 .. CursorMod - 1
      /\ t \in 0 .. CursorMod - 1
  BY CursorFacts DEF Cursor
<1>2. ((h - t) % CursorMod) + n < CursorMod
  BY CursorFacts, CapAssumption DEF Used
<1>3. /\ (h + n) % CursorMod \in 0 .. CursorMod - 1
      /\ (((h + n) % CursorMod) - t) % CursorMod = ((h - t) % CursorMod) + n
  BY <1>1, <1>2, HeadMoves, Zenon
<1> QED BY <1>3, Zenon DEF Advance, Used, Cursor

LEMMA UsedAfterRead ==
  ASSUME NEW h \in Cursor, NEW t \in Cursor, NEW n \in Nat, n <= Used(h, t)
  PROVE  Advance(t, n) \in Cursor /\ Used(h, Advance(t, n)) = Used(h, t) - n
<1>1. CursorMod \in Nat /\ CursorMod > 1 /\ h \in 0 .. CursorMod - 1
      /\ t \in 0 .. CursorMod - 1
  BY CursorFacts DEF Cursor
<1>2. /\ (t + n) % CursorMod \in 0 .. CursorMod - 1
      /\ (h - ((t + n) % CursorMod)) % CursorMod = ((h - t) % CursorMod) - n
  BY <1>1, TailMoves, Zenon DEF Used
<1> QED BY <1>2, Zenon DEF Advance, Used, Cursor

\* The slots of two cursors differ by what lies between them, modulo the capacity:
\* the mask agrees with the wrapped subtraction because Cap divides 2^width.
LEMMA SlotDistance ==
  ASSUME NEW h \in Cursor, NEW t \in Cursor, Used(h, t) <= Cap
  PROVE  \/ (h % Cap) - (t % Cap) = Used(h, t)
         \/ (h % Cap) - (t % Cap) = Used(h, t) - Cap
<1> DEFINE qh == h \div Cap
           qt == t \div Cap
<1>1. Cap \in Nat /\ Cap > 0 /\ Laps \in Nat /\ Laps > 1
  BY CapAssumption, LapsAssumption
<1>2. h \in Nat /\ t \in Nat /\ h < CursorMod /\ t < CursorMod
  BY CursorFacts DEF Cursor
<1>3. qh \in Int /\ qt \in Int /\ h % Cap \in 0 .. Cap - 1 /\ t % Cap \in 0 .. Cap - 1
  BY <1>1, <1>2
<1>4. h = Cap * qh + (h % Cap) /\ t = Cap * qt + (t % Cap)
  BY <1>1, <1>2
<1>5. \/ Used(h, t) = h - t
      \/ Used(h, t) = h - t + Cap * Laps
  <2>1. CASE h >= t
    BY <2>1, <1>2, CursorFacts DEF Used
  <2>2. CASE h < t
    <3>1. Used(h, t) = h - t + CursorMod
      BY <2>2, <1>2, CursorFacts DEF Used
    <3> QED BY <3>1 DEF CursorMod
  <2> QED BY <2>1, <2>2, <1>2
<1>6. PICK q \in Int : Used(h, t) = Cap * q + ((h % Cap) - (t % Cap))
  <2> DEFINE a == h % Cap
             b == t % Cap
  <2>1. a \in Int /\ b \in Int
    BY <1>3
  <2> HIDE DEF a, b
  <2>2. h - t = Cap * (qh - qt) + (a - b)
    BY <1>1, <1>3, <1>4, <2>1, Z3 DEF a, b
  <2>3. h - t + Cap * Laps = Cap * (qh - qt + Laps) + (a - b)
    BY <1>1, <1>3, <2>1, <2>2, Z3
  <2>4. (qh - qt) \in Int /\ (qh - qt + Laps) \in Int
    BY <1>1, <1>3
  <2> HIDE DEF qh, qt
  <2>5. CASE Used(h, t) = h - t
    BY <2>2, <2>4, <2>5, Zenon DEF a, b
  <2>6. CASE Used(h, t) = h - t + Cap * Laps
    BY <2>3, <2>4, <2>6, Zenon DEF a, b
  <2> QED BY <1>5, <2>5, <2>6
<1>7. Cap * q \in Int /\ -Cap < Cap * q /\ Cap * q < 2 * Cap
  BY <1>1, <1>2, <1>3, <1>6, CursorFacts
<1>8. Cap * q = 0 \/ Cap * q = Cap
  BY <1>1, <1>7, SmallMultiple
<1> QED BY <1>3, <1>6, <1>8, <1>1
-------------------------------------------------------------------------------
(* The invariant is inductive.                                             *)

LEMMA InitIInv == Init => IInv
<1> SUFFICES ASSUME Init PROVE IInv
  OBVIOUS
<1>1. Cap \in Nat /\ Cap > 0
  BY CapAssumption
<1>2. head \in Cursor /\ tail \in Cursor /\ Used(head, tail) = 0
  BY CursorFacts DEF Init, Cursor, Used
<1>3. buffer \in [Slots -> Sample]
  BY ZeroAssumption DEF Init
<1> QED BY <1>1, <1>2, <1>3 DEF Init, IInv, TypeOK, CopiesFit

\* A batch cut by Min2 is no longer than either bound.
LEMMA Min2Fact ==
  ASSUME NEW a \in Int, NEW b \in Int
  PROVE  Min2(a, b) \in Int /\ Min2(a, b) <= a /\ Min2(a, b) <= b
BY DEF Min2

\* A slot of a copy that fits in the ring is a slot of the ring.
LEMMA SlotRange ==
  ASSUME NEW c \in Cursor, NEW n \in Nat, n <= Cap, NEW k \in 0 .. n - 1
  PROVE  /\ SlotOf(c, n, k) \in Slots
         /\ \/ SlotOf(c, n, k) = (c % Cap) + k
            \/ SlotOf(c, n, k) = (c % Cap) + k - Cap
<1>1. Cap \in Nat /\ Cap > 0 /\ c \in Nat
  BY CapAssumption, CursorFacts DEF Cursor
<1>2. c % Cap \in 0 .. Cap - 1
  BY <1>1
<1> QED BY <1>1, <1>2 DEF SlotOf, Min2, Slots

\* Every step keeps the invariant.
LEMMA NextIInv == IInv /\ [Next]_vars => IInv'
<1> SUFFICES ASSUME IInv, [Next]_vars PROVE IInv'
  OBVIOUS
<1> USE DEF IInv, TypeOK, CopiesFit
<1>1. Cap \in Nat /\ Cap > 0
  BY CapAssumption
<1>2. Used(head, tail) \in Nat /\ Used(head, tail) < CursorMod
  BY CursorFacts
<1>3. channels \in Nat
  BY ChannelAssumption
<1>4. CASE WriteBegin
  <2> USE <1>4 DEF WriteBegin
  <2>1. PICK frames \in 1 .. MaxFrames :
          LET toWrite == Min2(frames * channels, Free(head, tail))
          IN  toWrite > 0 /\ wdata' \in [1 .. toWrite -> Sample]
    OBVIOUS
  <2> DEFINE toWrite == Min2(frames * channels, Free(head, tail))
  <2>2. frames * channels \in Int
    <3>1. frames \in Int
      BY MaxFramesAssumption
    <3> QED BY <3>1, <1>3, Z3
  <2>3. toWrite \in Int /\ toWrite <= Free(head, tail)
    <3>1. Free(head, tail) \in Int
      BY <1>1, <1>2 DEF Free
    <3> QED BY <2>2, <3>1, Min2Fact, Zenon
  <2>4. toWrite \in Nat /\ wdata' \in [1 .. toWrite -> Sample]
    BY <2>1, <2>3
  <2> HIDE DEF toWrite
  <2>5. wdata' \in Seq(Sample) /\ Len(wdata') = toWrite
    BY <2>4
  <2> QED BY <2>3, <2>5 DEF Free
<1>5. CASE WriteCopy
  <2> USE <1>5 DEF WriteCopy
  <2>1. SlotOf(head, Len(wdata), wdone) \in Slots
    BY <1>1, <1>2, SlotRange DEF Free
  <2>2. wdata[wdone + 1] \in Sample
    OBVIOUS
  <2>3. buffer' \in [Slots -> Sample]
    BY <2>1, <2>2
  <2> QED BY <2>3 DEF Free
<1>6. CASE WriteEnd
  <2> USE <1>6 DEF WriteEnd
  <2>1. Len(wdata) \in Nat /\ Used(head, tail) + Len(wdata) <= Cap
    BY <1>1, <1>2 DEF Free
  <2>2. head' \in Cursor /\ Used(head', tail) = Used(head, tail) + Len(wdata)
    BY <2>1, UsedAfterWrite
  <2>3. <<>> \in Seq(Sample) /\ Len(<<>>) = 0
    OBVIOUS
  <2> QED BY <2>1, <2>2, <2>3, <1>1, <1>2
<1>7. CASE AvailableToRead
  BY <1>7, <1>2 DEF AvailableToRead, Available, Free
<1>8. CASE ReadBegin
  <2> USE <1>8 DEF ReadBegin
  <2>1. PICK frames \in 1 .. MaxFrames : rcount' = Min2(frames * channels, Available)
    OBVIOUS
  <2>2. frames * channels \in Int
    <3>1. frames \in Int
      BY MaxFramesAssumption
    <3> QED BY <3>1, <1>3, Z3
  <2>3. rcount' \in Int /\ rcount' <= Used(head, tail)
    <3>1. Used(head, tail) \in Int
      BY <1>2
    <3> QED BY <2>1, <2>2, <3>1, Min2Fact, Zenon DEF Available
  <2>4. <<>> \in Seq(Sample) /\ Len(<<>>) = 0
    OBVIOUS
  <2> QED BY <2>3, <2>4 DEF Free
<1>9. CASE ReadCopy
  <2> USE <1>9 DEF ReadCopy
  <2>1. SlotOf(tail, rcount, Len(rdata)) \in Slots
    <3>1. Len(rdata) \in 0 .. rcount - 1 /\ rcount <= Cap
      BY <1>1, <1>2
    <3> QED BY <3>1, SlotRange
  <2>2. rdata' \in Seq(Sample) /\ Len(rdata') = Len(rdata) + 1
    BY <2>1
  <2> QED BY <2>2 DEF Free
<1>10. CASE ReadEnd
  <2> USE <1>10 DEF ReadEnd
  <2>1. rcount \in Nat /\ rcount <= Used(head, tail)
    OBVIOUS
  <2>2. tail' \in Cursor /\ Used(head, tail') = Used(head, tail) - rcount
    BY <2>1, UsedAfterRead
  <2>3. <<>> \in Seq(Sample) /\ Len(<<>>) = 0
    OBVIOUS
  <2>4. wpc = "copy" => Len(wdata) <= Cap - (Used(head, tail) - rcount)
    BY <2>1, <1>1, <1>2 DEF Free
  <2> QED BY <2>1, <2>2, <2>3, <2>4, <1>1, <1>2 DEF Free
<1>11. CASE UNCHANGED vars
  BY <1>11 DEF vars, Free
<1> QED BY <1>4, <1>5, <1>6, <1>7, <1>8, <1>9, <1>10, <1>11 DEF Next

LEMMA InvariantHolds == Spec => []IInv
<1>1. Init => IInv
  BY InitIInv
<1>2. IInv /\ [Next]_vars => IInv'
  BY NextIInv
<1> QED BY <1>1, <1>2, PTL DEF Spec

\* Every variable of the ring keeps the values of its C++ type: in particular the
\* cursors, which write() and read() advance with a wrapping addition, stay below
\* 2^width, and the slots they index exist.
THEOREM TypeCorrect == Spec => []TypeOK
<1>1. IInv => TypeOK
  BY DEF IInv
<1> QED BY <1>1, InvariantHolds, PTL

\* write() and read() copy with plain memcpy and no lock: whatever the interleaving, the
\* slots one is writing and the slots the other is reading are disjoint.
THEOREM RaceFree == Spec => []NoSlotRace
<1>1. IInv => NoSlotRace
  <2> SUFFICES ASSUME IInv, wpc = "copy", rpc = "copy",
                      NEW j \in 0 .. Len(wdata) - 1, NEW k \in 0 .. rcount - 1,
                      SlotOf(head, Len(wdata), j) = SlotOf(tail, rcount, k)
               PROVE  FALSE
    BY Zenon DEF NoSlotRace, Writing, Reading
  <2> DEFINE u == Used(head, tail)
             w == SlotOf(head, Len(wdata), j)
             r == SlotOf(tail, rcount, k)
             h == head % Cap
             t == tail % Cap
  <2>1. Cap \in Nat /\ Cap > 0 /\ head \in Cursor /\ tail \in Cursor
    BY CapAssumption DEF IInv, TypeOK
  <2>2. u \in Nat /\ u <= Cap
    BY <2>1, CursorFacts DEF IInv, CopiesFit
  <2>3. /\ Len(wdata) \in Nat /\ Len(wdata) <= Cap - u
        /\ rcount \in Nat /\ rcount <= u
    BY DEF IInv, TypeOK, CopiesFit, Free
  <2>4. h \in Int /\ t \in Int
    BY <2>1, CursorFacts DEF Cursor
  <2>5. w = h + j \/ w = h + j - Cap
    BY <2>1, <2>2, <2>3, SlotRange
  <2>6. r = t + k \/ r = t + k - Cap
    BY <2>1, <2>2, <2>3, SlotRange
  <2>7. h - t = u \/ h - t = u - Cap
    BY <2>1, <2>2, SlotDistance
  <2> HIDE DEF u, w, r, h, t
  <2>8. w = r
    BY DEF w, r
  <2>9. j \in Nat /\ k \in Nat /\ u + j < Cap /\ k < u
    BY <2>1, <2>2, <2>3
  <2> QED BY <2>1, <2>2, <2>4, <2>5, <2>6, <2>7, <2>8, <2>9
<1> QED BY <1>1, InvariantHolds, PTL

\* renderPitchPreserved() sizes its read from an earlier availableToRead(): the samples
\* it was promised are still there, because only the reader takes samples out.
THEOREM PromiseKept == Spec => []AvailabilityOnlyGrows
<1>1. IInv => AvailabilityOnlyGrows
  BY DEF IInv, CopiesFit, AvailabilityOnlyGrows, Available
<1> QED BY <1>1, InvariantHolds, PTL

-------------------------------------------------------------------------------
(* Whole frames.                                                           *)

Multiple(c, x) == \E q \in Int : x = c * q

LEMMA MultipleSum ==
  ASSUME NEW c \in Nat, NEW x \in Int, NEW y \in Int, Multiple(c, x), Multiple(c, y)
  PROVE  Multiple(c, x + y) /\ Multiple(c, x - y)
<1>1. PICK p \in Int : x = c * p
  BY DEF Multiple
<1>2. PICK q \in Int : y = c * q
  BY DEF Multiple
<1>3. x + y = c * (p + q) /\ x - y = c * (p - q)
  BY <1>1, <1>2, Z3
<1>4. p + q \in Int /\ p - q \in Int
  OBVIOUS
<1> QED BY <1>3, <1>4, Zenon DEF Multiple

LEMMA MultipleMod ==
  ASSUME NEW c \in Nat, c > 0, NEW x \in Int
  PROVE  x % c = 0 <=> Multiple(c, x)
<1> DEFINE d == x \div c
           r == x % c
<1>1. d \in Int /\ r \in 0 .. c - 1 /\ x = c * d + r
  OBVIOUS
<1> HIDE DEF d, r
<1>2. ASSUME r = 0 PROVE Multiple(c, x)
  <2>1. c * d \in Int
    BY <1>1, Z3
  <2>2. x = c * d
    BY <1>1, <1>2, <2>1
  <2> QED BY <1>1, <2>2, Zenon DEF Multiple
<1>3. ASSUME NEW q \in Int, x = c * q PROVE r = 0
  <2>1. r = c * (q - d) /\ q - d \in Int
    <3>1. c * (q - d) = c * q - c * d /\ c * d \in Int /\ c * q \in Int
      BY <1>1, Z3
    <3> QED BY <1>1, <1>3, <3>1
  <2>2. -c < c * (q - d) /\ c * (q - d) < 2 * c
    BY <1>1, <2>1
  <2>3. c * (q - d) = 0 \/ c * (q - d) = c
    BY <2>1, <2>2, SmallMultiple
  <2> QED BY <1>1, <2>1, <2>3
<1> QED BY <1>2, <1>3 DEF Multiple, r

\* The ring and the cursors' range hold whole frames.
LEMMA WholeSizes ==
  ASSUME NEW c \in ChannelCounts
  PROVE  c \in Nat /\ c > 0 /\ Multiple(c, Cap) /\ Multiple(c, CursorMod)
<1>1. c \in Nat /\ c > 0 /\ Cap % c = 0 /\ Cap \in Int /\ Laps \in Int
  BY ChannelAssumption, CapAssumption, LapsAssumption
<1>2. PICK q \in Int : Cap = c * q
  BY <1>1, MultipleMod DEF Multiple
<1>3. Cap * Laps = c * (q * Laps) /\ q * Laps \in Int
  BY <1>1, <1>2, Z3
<1> QED BY <1>1, <1>2, <1>3, Zenon DEF Multiple, CursorMod

LEMMA WholeUsed ==
  ASSUME NEW c \in ChannelCounts, NEW h \in Cursor, NEW t \in Cursor,
         Multiple(c, h), Multiple(c, t)
  PROVE  Multiple(c, Used(h, t))
<1>1. c \in Nat /\ Multiple(c, CursorMod) /\ CursorMod \in Nat /\ h \in Int /\ t \in Int
      /\ h - t \in Int
  BY WholeSizes, CursorFacts DEF Cursor
<1>2. Multiple(c, h - t) /\ Multiple(c, h - t + CursorMod)
  BY <1>1, MultipleSum
<1>3. Used(h, t) = h - t \/ Used(h, t) = h - t + CursorMod
  <2>1. CASE h >= t
    BY <2>1, CursorFacts DEF Used, Cursor
  <2>2. CASE h < t
    BY <2>2, CursorFacts DEF Used, Cursor
  <2> QED BY <1>1, <2>1, <2>2
<1> QED BY <1>2, <1>3

LEMMA WholeAdvance ==
  ASSUME NEW c \in ChannelCounts, NEW h \in Cursor, NEW n \in Nat, n <= Cap,
         Multiple(c, h), Multiple(c, n)
  PROVE  Multiple(c, Advance(h, n))
<1>1. c \in Nat /\ Multiple(c, CursorMod) /\ CursorMod \in Nat /\ h \in Int /\ n \in Int
      /\ h + n \in Int
  BY WholeSizes, CursorFacts DEF Cursor
<1>2. Multiple(c, h + n) /\ Multiple(c, h + n - CursorMod)
  BY <1>1, MultipleSum
<1>3. Advance(h, n) = h + n \/ Advance(h, n) = h + n - CursorMod
  <2>1. h + n < 2 * CursorMod /\ h + n >= 0
    BY CursorFacts, CapAssumption DEF Cursor
  <2>2. CASE h + n < CursorMod
    BY <1>1, <2>1, <2>2 DEF Advance
  <2>3. CASE h + n >= CursorMod
    BY <1>1, <2>1, <2>3 DEF Advance
  <2> QED BY <1>1, <2>2, <2>3
<1> QED BY <1>2, <1>3

\* The cursors stand between frames, and a copy in progress is of whole frames.
FramesWhole ==
  /\ Multiple(channels, head) /\ Multiple(channels, tail)
  /\ wpc = "copy" => Multiple(channels, Len(wdata))
  /\ rpc = "copy" => Multiple(channels, rcount)

LEMMA WholeCut ==
  ASSUME NEW c \in ChannelCounts, NEW frames \in 1 .. MaxFrames, NEW room \in Int,
         Multiple(c, room)
  PROVE  Multiple(c, Min2(frames * c, room))
<1>1. frames \in Int /\ c \in Nat
  BY MaxFramesAssumption, WholeSizes
<1>2. frames * c = c * frames
  BY <1>1, Z3
<1>3. Multiple(c, frames * c)
  BY <1>1, <1>2, Zenon DEF Multiple
<1> QED BY <1>3 DEF Min2

LEMMA InitFrames == Init => FramesWhole
<1> SUFFICES ASSUME Init PROVE FramesWhole
  OBVIOUS
<1>1. channels \in Nat /\ head = 0 /\ tail = 0 /\ wpc = "idle" /\ rpc = "idle"
  BY WholeSizes DEF Init
<1>2. channels * 0 = 0
  BY <1>1
<1>3. Multiple(channels, 0)
  BY <1>2 DEF Multiple
<1> QED BY <1>1, <1>3 DEF FramesWhole

LEMMA NextFrames == IInv /\ FramesWhole /\ [Next]_vars => FramesWhole'
<1> SUFFICES ASSUME IInv, FramesWhole, [Next]_vars PROVE FramesWhole'
  OBVIOUS
<1>1. /\ channels \in ChannelCounts /\ head \in Cursor /\ tail \in Cursor
      /\ channels' = channels
  BY DEF IInv, TypeOK, Next, WriteBegin, WriteCopy, WriteEnd, AvailableToRead, ReadBegin,
         ReadCopy, ReadEnd, vars
<1>2. Used(head, tail) \in Nat /\ Used(head, tail) <= Cap /\ Cap \in Nat
  BY <1>1, CursorFacts, CapAssumption DEF IInv, CopiesFit
<1>3. Multiple(channels, Used(head, tail)) /\ Multiple(channels, Free(head, tail))
  <2>1. Multiple(channels, Used(head, tail))
    BY <1>1, WholeUsed DEF FramesWhole
  <2> QED BY <1>1, <1>2, <2>1, WholeSizes, MultipleSum DEF Free
<1>4. CASE WriteBegin
  <2>1. PICK frames \in 1 .. MaxFrames :
          LET toWrite == Min2(frames * channels, Free(head, tail))
          IN  toWrite > 0 /\ wdata' \in [1 .. toWrite -> Sample]
    BY <1>4 DEF WriteBegin
  <2> DEFINE toWrite == Min2(frames * channels, Free(head, tail))
  <2>2. Free(head, tail) \in Int
    BY <1>2 DEF Free
  <2>3. Multiple(channels, toWrite)
    BY <1>1, <1>3, <2>2, WholeCut
  <2>4. toWrite \in Nat
    <3>1. frames * channels \in Int
      <4>1. frames \in Int /\ channels \in Nat
        BY <1>1, MaxFramesAssumption, WholeSizes
      <4> QED BY <4>1, Z3
    <3>2. toWrite \in Int
      BY <2>2, <3>1, Min2Fact, Zenon
    <3> QED BY <2>1, <3>2
  <2>5. wdata' \in [1 .. toWrite -> Sample]
    BY <2>1
  <2> HIDE DEF toWrite
  <2>6. Len(wdata') = toWrite
    BY <2>4, <2>5
  <2> QED BY <1>4, <2>3, <2>6 DEF WriteBegin, FramesWhole
<1>5. CASE WriteEnd
  <2>1. /\ Len(wdata) \in Nat /\ Len(wdata) <= Cap /\ Multiple(channels, Len(wdata))
        /\ head' = Advance(head, Len(wdata)) /\ wpc' = "idle"
        /\ tail' = tail /\ rpc' = rpc /\ rcount' = rcount
    BY <1>2, <1>5 DEF WriteEnd, FramesWhole, IInv, TypeOK, CopiesFit, Free
  <2>2. Multiple(channels, head')
    BY <1>1, <2>1, WholeAdvance DEF FramesWhole
  <2> QED BY <1>1, <2>1, <2>2 DEF FramesWhole
<1>6. CASE ReadBegin
  <2>1. PICK frames \in 1 .. MaxFrames : rcount' = Min2(frames * channels, Available)
    BY <1>6 DEF ReadBegin
  <2>2. Multiple(channels, rcount')
    BY <1>1, <1>2, <1>3, <2>1, WholeCut DEF Available
  <2> QED BY <1>6, <2>2 DEF ReadBegin, FramesWhole
<1>7. CASE ReadEnd
  <2>1. /\ rcount \in Nat /\ rcount <= Cap /\ Multiple(channels, rcount)
        /\ tail' = Advance(tail, rcount) /\ rpc' = "idle"
        /\ head' = head /\ wpc' = wpc /\ wdata' = wdata
    BY <1>2, <1>7 DEF ReadEnd, FramesWhole, IInv, TypeOK, CopiesFit
  <2>2. Multiple(channels, tail')
    BY <1>1, <2>1, WholeAdvance DEF FramesWhole
  <2> QED BY <1>1, <2>1, <2>2 DEF FramesWhole
<1>8. CASE WriteCopy \/ AvailableToRead \/ ReadCopy \/ UNCHANGED vars
  BY <1>8 DEF WriteCopy, AvailableToRead, ReadCopy, vars, FramesWhole
<1> QED BY <1>4, <1>5, <1>6, <1>7, <1>8 DEF Next

\* A write that is cut to the space left, or a read to the samples there are, is cut
\* between frames, also where the cursors wrap: left and right never swap places.
THEOREM FramesStayWhole == Spec => []WholeFrames
<1>1. IInv /\ FramesWhole => WholeFrames
  <2> SUFFICES ASSUME IInv, FramesWhole PROVE WholeFrames
    OBVIOUS
  <2>1. channels \in Nat /\ channels > 0 /\ head \in Int /\ tail \in Int
    BY WholeSizes, CursorFacts DEF IInv, TypeOK, Cursor
  <2> QED BY <2>1, MultipleMod DEF FramesWhole, WholeFrames
<1> QED BY <1>1, InvariantHolds, InitFrames, NextFrames, PTL DEF Spec

-------------------------------------------------------------------------------
(* The ring is a FIFO.                                                     *)

LEMMA WholeLaps ==
  ASSUME NEW C \in Nat, C > 0, NEW x \in Int, NEW q \in Int
  PROVE  (x + C * q) % C = x % C
<1> DEFINE y == x + C * q
           a == x % C
           b == y % C
           m == x \div C
           n == y \div C
<1>1. y \in Int
  <2>1. C * q \in Int
    BY Z3
  <2> QED BY <2>1
<1>2. /\ m \in Int /\ n \in Int /\ a \in 0 .. C - 1 /\ b \in 0 .. C - 1
      /\ x = C * m + a /\ y = C * n + b
  <2> HIDE DEF y
  <2> QED BY <1>1
<1>3. y = x + C * q
  OBVIOUS
<1> HIDE DEF y, a, b, m, n
<1>4. C * (q + m - n) = b - a /\ q + m - n \in Int
  <2>1. C * (q + m - n) = C * q + C * m - C * n
    BY <1>2, Z3
  <2>2. C * q \in Int /\ C * m \in Int /\ C * n \in Int
    BY <1>2, Z3
  <2> QED BY <1>2, <1>3, <2>1, <2>2
<1>5. C * (q + m - n) = 0 \/ C * (q + m - n) = C
  <2>1. -C < C * (q + m - n) /\ C * (q + m - n) < 2 * C
    BY <1>2, <1>4
  <2> QED BY <1>4, <2>1, SmallMultiple
<1>6. a = b
  BY <1>2, <1>4, <1>5
<1> QED BY <1>6 DEF a, b, y

\* The slot of a cursor is its position modulo the capacity, also where size_t wraps.
LEMMA AdvanceSlot ==
  ASSUME NEW c \in Cursor, NEW n \in Nat, n <= Cap, NEW k \in Nat
  PROVE  (Advance(c, n) + k) % Cap = (c + n + k) % Cap
<1>1. Cap \in Nat /\ Cap > 0 /\ Laps \in Nat /\ c \in Nat /\ c < CursorMod
      /\ CursorMod \in Nat /\ Cap < CursorMod
  BY CapAssumption, LapsAssumption, CursorFacts DEF Cursor
<1>2. Advance(c, n) = c + n \/ Advance(c, n) = c + n - CursorMod
  BY <1>1 DEF Advance
<1>3. (c + n + k) + Cap * (-Laps) = c + n - CursorMod + k
  <2>1. Cap * (-Laps) = -CursorMod
    BY <1>1, Z3 DEF CursorMod
  <2> QED BY <1>1, <2>1
<1>4. ((c + n + k) + Cap * (-Laps)) % Cap = (c + n + k) % Cap
  <2>1. c + n + k \in Int /\ -Laps \in Int
    BY <1>1
  <2> QED BY <1>1, <2>1, WholeLaps
<1> QED BY <1>2, <1>3, <1>4

LEMMA HeadSlot ==
  ASSUME NEW h \in Cursor, NEW t \in Cursor, NEW k \in Nat
  PROVE  (h + k) % Cap = (t + Used(h, t) + k) % Cap
<1>1. Cap \in Nat /\ Cap > 0 /\ Laps \in Nat /\ h \in Nat /\ t \in Nat
      /\ h < CursorMod /\ t < CursorMod /\ CursorMod \in Nat
  BY CapAssumption, LapsAssumption, CursorFacts DEF Cursor
<1>2. Used(h, t) = h - t \/ Used(h, t) = h - t + CursorMod
  BY <1>1, CursorFacts DEF Used
<1>3. (h + k) + Cap * Laps = h + CursorMod + k
  BY <1>1 DEF CursorMod
<1>4. ((h + k) + Cap * Laps) % Cap = (h + k) % Cap
  <2>1. h + k \in Int /\ Laps \in Int
    BY <1>1
  <2> QED BY <1>1, <2>1, WholeLaps, Zenon
<1>5. t + Used(h, t) + k = h + k \/ t + Used(h, t) + k = h + CursorMod + k
  BY <1>1, <1>2
<1> QED BY <1>3, <1>4, <1>5

LEMMA CopySlot ==
  ASSUME NEW c \in Cursor, NEW n \in Nat, n <= Cap, NEW k \in 0 .. n - 1
  PROVE  SlotOf(c, n, k) = (c + k) % Cap
<1>1. Cap \in Nat /\ Cap > 0 /\ c \in Nat
  BY CapAssumption, CursorFacts DEF Cursor
<1> DEFINE a == c % Cap
           s == SlotOf(c, n, k)
           m == c \div Cap
<1>2. a \in 0 .. Cap - 1 /\ m \in Int /\ c = Cap * m + a
  BY <1>1
<1>3. s \in 0 .. Cap - 1 /\ (s = a + k \/ s = a + k - Cap)
  BY SlotRange DEF Slots
<1> HIDE DEF a, s, m
<1>4. PICK q \in Int : c + k = s + Cap * q
  <2>1. Cap * m \in Int /\ Cap * (m + 1) = Cap * m + Cap /\ m + 1 \in Int
    BY <1>1, <1>2, Z3
  <2>2. c + k = s + Cap * m \/ c + k = s + Cap * (m + 1)
    BY <1>1, <1>2, <1>3, <2>1
  <2> QED BY <1>2, <2>1, <2>2
<1>5. (s + Cap * q) % Cap = s % Cap
  BY <1>1, <1>3, WholeLaps
<1>6. s % Cap = s
  BY <1>1, <1>3
<1> QED BY <1>4, <1>5, <1>6 DEF s

\* The slot of the j-th position (from 0) after tail_.
Place(j) == (tail + j) % Cap

\* Positions less than a capacity apart have slots of their own.
LEMMA PlacesApart ==
  ASSUME tail \in Nat, NEW i \in Nat, NEW j \in Nat, i < j, j < Cap
  PROVE  Place(i) \in Slots /\ Place(j) \in Slots /\ Place(i) # Place(j)
<1>1. Cap \in Nat /\ Cap > 0
  BY CapAssumption
<1> DEFINE x == tail + i
           y == tail + j
<1>2. x \in Nat /\ y \in Nat /\ -Cap <= x - y /\ x - y < Cap /\ x < y /\ y - x < Cap
  BY <1>1
<1> HIDE DEF x, y
<1>3. ((x % Cap) - (y % Cap)) % Cap = x - y + Cap
  <2>1. ((x % Cap) - (y % Cap)) % Cap = IF x >= y THEN x - y ELSE x - y + Cap
    BY <1>1, <1>2, ModDiff, Zenon
  <2> QED BY <1>2, <2>1
<1>4. x % Cap \in 0 .. Cap - 1 /\ y % Cap \in 0 .. Cap - 1
  BY <1>1, <1>2
<1>5. x % Cap # y % Cap
  <2>1. SUFFICES ASSUME x % Cap = y % Cap PROVE FALSE
    OBVIOUS
  <2>2. (x % Cap) - (y % Cap) = 0
    BY <1>4, <2>1
  <2>3. ((x % Cap) - (y % Cap)) % Cap = 0
    BY <1>1, <2>2
  <2> QED BY <1>1, <1>2, <1>3, <2>3
<1> QED BY <1>4, <1>5 DEF Place, Slots, x, y

\* What has been copied so far is where it belongs: a write beyond the contents, a read
\* from their beginning.  Neither copies nothing.
CopiedSoFar ==
  /\ wpc = "copy" =>
       /\ Len(wdata) > 0
       /\ \A k \in 0 .. wdone - 1 : buffer[Place(Used(head, tail) + k)] = wdata[k + 1]
  /\ rpc = "copy" =>
       /\ rcount > 0
       /\ \A k \in 0 .. Len(rdata) - 1 : rdata[k + 1] = buffer[Place(k)]

LEMMA InitCopied == Init => CopiedSoFar
BY DEF Init, CopiedSoFar

\* What the invariant says of lengths.
LEMMA Lengths ==
  ASSUME IInv
  PROVE  /\ Cap \in Nat /\ Cap > 0 /\ head \in Cursor /\ tail \in Cursor /\ tail \in Nat
         /\ Used(head, tail) \in Nat /\ Used(head, tail) <= Cap
         /\ Len(wdata) \in Nat /\ wdone \in 0 .. Len(wdata)
         /\ wpc = "copy" => Used(head, tail) + Len(wdata) <= Cap
         /\ rcount \in Nat /\ Len(rdata) \in Nat /\ Len(rdata) <= rcount
         /\ rpc = "copy" => rcount <= Used(head, tail)
<1>1. /\ head \in Cursor /\ tail \in Cursor /\ Used(head, tail) <= Cap
      /\ wdata \in Seq(Sample) /\ wdone \in 0 .. Len(wdata)
      /\ wpc = "copy" => Len(wdata) <= Cap - Used(head, tail)
      /\ rcount \in Nat /\ rdata \in Seq(Sample) /\ Len(rdata) <= rcount
      /\ rpc = "copy" => rcount <= Used(head, tail)
  BY DEF IInv, TypeOK, CopiesFit, Free
<1>2. Used(head, tail) \in Nat /\ tail \in Nat
  BY <1>1, CursorFacts DEF Cursor
<1>3. Cap \in Nat /\ Cap > 0 /\ Len(wdata) \in Nat /\ Len(rdata) \in Nat
  BY <1>1, CapAssumption
<1> HIDE DEF Used
<1> QED BY <1>1, <1>2, <1>3

\* A sample that write() copies goes to a slot beyond the contents, and no other changes.
LEMMA WriteBeyond ==
  ASSUME IInv, WriteCopy
  PROVE  /\ buffer'[Place(Used(head, tail) + wdone)] = wdata[wdone + 1]
         /\ \A j \in 0 .. Used(head, tail) + wdone - 1 : buffer'[Place(j)] = buffer[Place(j)]
<1> DEFINE u == Used(head, tail)
           s == SlotOf(head, Len(wdata), wdone)
<1>1. /\ wpc = "copy" /\ wdone < Len(wdata) /\ buffer' = [buffer EXCEPT ![s] = wdata[wdone + 1]]
      /\ buffer \in [Slots -> Sample]
  BY DEF WriteCopy, IInv, TypeOK
<1>2. /\ wdone \in Nat /\ u \in Nat /\ u + Len(wdata) <= Cap /\ Len(wdata) \in Nat
      /\ Cap \in Nat /\ tail \in Nat /\ u + wdone < Cap
  BY <1>1, Lengths
<1>3. s = Place(u + wdone)
  <2>1. s = (head + wdone) % Cap
    <3>1. /\ head \in Cursor /\ Len(wdata) \in Nat /\ Len(wdata) <= Cap
          /\ wdone \in 0 .. Len(wdata) - 1
      BY <1>1, <1>2, Lengths
    <3> QED BY <3>1, CopySlot
  <2>2. (head + wdone) % Cap = (tail + u + wdone) % Cap
    BY <1>2, HeadSlot, Lengths
  <2>3. tail + u + wdone = tail + (u + wdone)
    BY <1>2
  <2> QED BY <2>1, <2>2, <2>3 DEF Place
<1> HIDE DEF u, s
<1>4. s \in Slots
  BY <1>1, <1>2, SlotRange, Lengths DEF s
<1>5. ASSUME NEW j \in 0 .. u + wdone - 1 PROVE buffer'[Place(j)] = buffer[Place(j)]
  <2>1. Place(j) \in Slots /\ Place(j) # Place(u + wdone)
    BY <1>2, PlacesApart
  <2> QED BY <1>1, <1>3, <2>1
<1>6. buffer'[Place(u + wdone)] = wdata[wdone + 1]
  BY <1>1, <1>3, <1>4
<1> QED BY <1>5, <1>6 DEF u

\* After a read the places move up by what was read.
LEMMA PlacesMove ==
  ASSUME IInv, ReadEnd, NEW j \in Nat
  PROVE  /\ (tail' + j) % Cap = Place(rcount + j)
         /\ Used(head', tail') = Used(head, tail) - rcount
<1>1. tail' = Advance(tail, rcount) /\ head' = head /\ rpc = "copy"
  BY DEF ReadEnd
<1>2. rcount \in Nat /\ rcount <= Cap /\ rcount <= Used(head, tail)
  BY <1>1, Lengths
<1>3. (tail' + j) % Cap = (tail + rcount + j) % Cap
  BY <1>1, <1>2, Lengths, AdvanceSlot
<1>4. tail + rcount + j = tail + (rcount + j)
  BY <1>2, Lengths
<1>5. Used(head, tail') = Used(head, tail) - rcount
  BY <1>1, <1>2, Lengths, UsedAfterRead
<1> QED BY <1>1, <1>3, <1>4, <1>5 DEF Place

LEMMA NextCopied == IInv /\ CopiedSoFar /\ [Next]_vars => CopiedSoFar'
<1> SUFFICES ASSUME IInv, CopiedSoFar, [Next]_vars PROVE CopiedSoFar'
  OBVIOUS
<1> DEFINE u == Used(head, tail)
<1>1. CASE WriteBegin
  <2>1. /\ wdone' = 0 /\ UNCHANGED <<head, tail, buffer, rpc, rcount, rdata>>
    BY <1>1 DEF WriteBegin
  <2>2. PICK n \in Nat : n > 0 /\ wdata' \in [1 .. n -> Sample]
    <3>1. PICK frames \in 1 .. MaxFrames :
            LET toWrite == Min2(frames * channels, Free(head, tail))
            IN  toWrite > 0 /\ wdata' \in [1 .. toWrite -> Sample]
      BY <1>1 DEF WriteBegin
    <3>2. frames * channels \in Int
      <4>1. frames \in Int /\ channels \in Int
        BY MaxFramesAssumption, ChannelAssumption DEF IInv, TypeOK
      <4> QED BY <4>1, Z3
    <3>3. Free(head, tail) \in Int
      BY Lengths DEF Free
    <3>4. Min2(frames * channels, Free(head, tail)) \in Int
      BY <3>2, <3>3, Min2Fact, Zenon
    <3> QED BY <3>1, <3>4
  <2>3. Len(wdata') > 0
    BY <2>2
  <2> QED BY <2>1, <2>3 DEF CopiedSoFar, Place
<1>2. CASE WriteCopy
  <2>1. /\ wdone' = wdone + 1 /\ wpc = "copy"
        /\ UNCHANGED <<head, tail, wpc, wdata, rpc, rcount, rdata>>
    BY <1>2 DEF WriteCopy
  <2>2. u \in Nat /\ wdone \in Nat /\ rcount \in Nat /\ Len(rdata) \in Nat
        /\ Len(rdata) <= rcount /\ (rpc = "copy" => rcount <= u)
    BY Lengths
  <2>3. /\ buffer'[Place(u + wdone)] = wdata[wdone + 1]
        /\ \A j \in 0 .. u + wdone - 1 : buffer'[Place(j)] = buffer[Place(j)]
    BY <1>2, WriteBeyond
  <2> HIDE DEF u
  <2>4. ASSUME NEW k \in 0 .. wdone PROVE buffer'[Place(u + k)] = wdata[k + 1]
    <3>1. CASE k = wdone
      BY <2>3, <3>1
    <3>2. CASE k # wdone
      <4>1. k \in 0 .. wdone - 1 /\ u + k \in 0 .. u + wdone - 1
        BY <2>2, <3>2
      <4>2. buffer[Place(u + k)] = wdata[k + 1]
        BY <2>1, <4>1 DEF CopiedSoFar, u
      <4> QED BY <2>3, <4>1, <4>2
    <3> QED BY <3>1, <3>2
  <2>5. ASSUME rpc = "copy", NEW k \in 0 .. Len(rdata) - 1
        PROVE  rdata[k + 1] = buffer'[Place(k)]
    <3>1. k \in 0 .. u + wdone - 1
      BY <2>2, <2>5
    <3>2. rdata[k + 1] = buffer[Place(k)]
      BY <2>5 DEF CopiedSoFar
    <3> QED BY <2>3, <3>1, <3>2
  <2>6. \A k : Place(k)' = Place(k)
    BY <2>1 DEF Place
  <2>7. Used(head, tail)' = u /\ 0 .. wdone' - 1 = 0 .. wdone
    BY <2>1, <2>2 DEF u
  <2> QED BY <2>1, <2>4, <2>5, <2>6, <2>7 DEF CopiedSoFar
<1>3. CASE WriteEnd
  BY <1>3 DEF WriteEnd, CopiedSoFar, Place
<1>4. CASE AvailableToRead \/ UNCHANGED vars
  BY <1>4 DEF AvailableToRead, vars, CopiedSoFar, Place
<1>5. CASE ReadBegin
  <2>1. Len(<<>>) = 0
    OBVIOUS
  <2> QED BY <1>5, <2>1 DEF ReadBegin, CopiedSoFar, Place
<1>6. CASE ReadCopy
  <2>1. /\ rpc = "copy" /\ Len(rdata) < rcount
        /\ rdata' = Append(rdata, buffer[SlotOf(tail, rcount, Len(rdata))])
        /\ UNCHANGED <<head, tail, buffer, wpc, wdata, wdone, rpc, rcount>>
    BY <1>6 DEF ReadCopy
  <2>2. rcount \in Nat /\ rcount <= Cap /\ Len(rdata) \in Nat /\ tail \in Cursor
    BY <2>1, Lengths
  <2>3. SlotOf(tail, rcount, Len(rdata)) = Place(Len(rdata))
    BY <2>1, <2>2, CopySlot DEF Place
  <2>4. /\ rdata \in Seq(Sample) /\ buffer \in [Slots -> Sample]
        /\ SlotOf(tail, rcount, Len(rdata)) \in Slots
    BY <2>1, <2>2, SlotRange DEF IInv, TypeOK
  <2>5. /\ Len(rdata') = Len(rdata) + 1 /\ rdata'[Len(rdata) + 1] = buffer[Place(Len(rdata))]
        /\ \A i \in 1 .. Len(rdata) : rdata'[i] = rdata[i]
    BY <2>1, <2>3, <2>4
  <2>6. ASSUME NEW k \in 0 .. Len(rdata') - 1 PROVE rdata'[k + 1] = buffer[Place(k)]
    <3>1. CASE k = Len(rdata)
      BY <2>5, <3>1
    <3>2. CASE k # Len(rdata)
      <4>1. k \in 0 .. Len(rdata) - 1 /\ k + 1 \in 1 .. Len(rdata)
        BY <2>2, <2>5, <3>2
      <4> QED BY <2>1, <2>5, <4>1 DEF CopiedSoFar
    <3> QED BY <3>1, <3>2
  <2> QED BY <2>1, <2>6 DEF CopiedSoFar, Place
<1>7. CASE ReadEnd
  <2>1. /\ rpc' = "idle" /\ UNCHANGED <<buffer, wpc, wdata, wdone>> /\ rpc = "copy"
    BY <1>7 DEF ReadEnd
  <2>2. u \in Nat /\ rcount \in Nat /\ rcount <= u /\ wdone \in Nat
    BY <2>1, Lengths
  <2>3. /\ \A j \in Nat : (tail' + j) % Cap = Place(rcount + j)
        /\ Used(head', tail') = u - rcount
    BY <1>7, <2>2, PlacesMove
  <2> HIDE DEF u
  <2>4. ASSUME wpc = "copy", NEW k \in 0 .. wdone - 1
        PROVE  buffer[(tail' + (Used(head', tail') + k)) % Cap] = wdata[k + 1]
    <3>1. /\ u - rcount + k \in Nat /\ rcount + (u - rcount + k) = u + k
          /\ Used(head', tail') + k = u - rcount + k
      BY <2>2, <2>3
    <3>2. (tail' + (Used(head', tail') + k)) % Cap = Place(u + k)
      BY <2>3, <3>1
    <3> QED BY <2>4, <3>2 DEF CopiedSoFar, u
  <2> QED BY <2>1, <2>4 DEF CopiedSoFar, Place
<1> QED BY <1>1, <1>2, <1>3, <1>4, <1>5, <1>6, <1>7 DEF Next

LEMMA AlwaysCopied == Spec => [](IInv /\ CopiedSoFar)
BY InitIInv, NextIInv, InitCopied, NextCopied, PTL DEF Spec

\* The queue that the ring stands for.
Queue ==
  /\ Contents \in Seq(Sample) /\ Len(Contents) = Used(head, tail)
  /\ \A i \in 1 .. Used(head, tail) : Contents[i] = buffer[Place(i - 1)]

LEMMA ContentsAre == IInv => Queue
<1> SUFFICES ASSUME IInv PROVE Queue
  OBVIOUS
<1> DEFINE u == Used(head, tail)
<1>1. u \in Nat /\ Cap \in Nat /\ Cap > 0 /\ tail \in Nat /\ buffer \in [Slots -> Sample]
  BY Lengths DEF IInv, TypeOK
<1> HIDE DEF u
<1>2. ASSUME NEW i \in 1 .. u
      PROVE  (tail + i - 1) % Cap = Place(i - 1) /\ Place(i - 1) \in Slots
  <2>1. tail + i - 1 = tail + (i - 1) /\ tail + (i - 1) \in Int
    BY <1>1
  <2> QED BY <1>1, <2>1 DEF Place, Slots
<1>3. Contents = [i \in 1 .. u |-> buffer[(tail + i - 1) % Cap]]
  BY DEF Contents, u
<1>4. Contents \in [1 .. u -> Sample]
  BY <1>1, <1>2, <1>3
<1>5. Contents \in Seq(Sample) /\ Len(Contents) = u
  BY <1>1, <1>4
<1>6. \A i \in 1 .. u : Contents[i] = buffer[Place(i - 1)]
  BY <1>2, <1>3
<1> QED BY <1>5, <1>6 DEF u, Queue

\* Copying changes nothing: the write is to the slots beyond.
LEMMA WriteCopyHidden == ASSUME IInv, IInv', WriteCopy PROVE UNCHANGED <<Contents, got>>
<1> DEFINE u == Used(head, tail)
<1>1. UNCHANGED <<head, tail, got>>
  BY DEF WriteCopy
<1>2. u \in Nat /\ wdone \in Nat
  BY Lengths
<1>3. \A j \in 0 .. u + wdone - 1 : buffer'[Place(j)] = buffer[Place(j)]
  BY WriteBeyond
<1>4. /\ Contents \in Seq(Sample) /\ Len(Contents) = u
      /\ \A i \in 1 .. u : Contents[i] = buffer[Place(i - 1)]
  BY ContentsAre DEF Queue
<1>5. /\ Contents' \in Seq(Sample) /\ Len(Contents') = u
      /\ \A i \in 1 .. u : Contents'[i] = buffer'[Place(i - 1)]
  <2>1. /\ Contents' \in Seq(Sample) /\ Len(Contents') = Used(head, tail)'
        /\ \A i \in 1 .. Used(head, tail)' : Contents'[i] = buffer'[Place(i - 1)']
    <3>1. Queue'
      BY ContentsAre, PTL
    <3> QED BY <3>1 DEF Queue
  <2> QED BY <1>1, <2>1 DEF Place
<1> HIDE DEF u
<1>6. \A i \in 1 .. u : Contents'[i] = Contents[i]
  <2> SUFFICES ASSUME NEW i \in 1 .. u PROVE Contents'[i] = Contents[i]
    OBVIOUS
  <2>1. i - 1 \in 0 .. u + wdone - 1
    BY <1>2
  <2> QED BY <1>3, <1>4, <1>5, <2>1
<1> QED BY <1>1, <1>4, <1>5, <1>6, SeqEqual

\* write() puts its batch at the end at once, when it stores head_.
LEMMA WriteEndPuts ==
  ASSUME IInv, CopiedSoFar, IInv', WriteEnd
  PROVE  \E n \in 1 .. Cap : Fifo!Put(n)
<1> DEFINE u == Used(head, tail)
           n == Len(wdata)
<1>1. /\ wpc = "copy" /\ wdone = n /\ head' = Advance(head, n)
      /\ UNCHANGED <<tail, buffer, got>>
  BY DEF WriteEnd
<1>2. /\ u \in Nat /\ n \in Nat /\ u + n <= Cap /\ Cap \in Nat /\ n > 0
      /\ wdata \in Seq(Sample)
  BY <1>1, Lengths DEF IInv, TypeOK, CopiedSoFar
<1>3. Used(head', tail') = u + n
  BY <1>1, <1>2, Lengths, UsedAfterWrite
<1>4. /\ Contents \in Seq(Sample) /\ Len(Contents) = u
      /\ \A i \in 1 .. u : Contents[i] = buffer[Place(i - 1)]
  BY ContentsAre DEF Queue
<1>5. /\ Contents' \in Seq(Sample) /\ Len(Contents') = u + n
      /\ \A i \in 1 .. u + n : Contents'[i] = buffer[Place(i - 1)]
  <2>1. /\ Contents' \in Seq(Sample) /\ Len(Contents') = Used(head, tail)'
        /\ \A i \in 1 .. Used(head, tail)' : Contents'[i] = buffer'[Place(i - 1)']
    <3>1. Queue'
      BY ContentsAre, PTL
    <3> QED BY <3>1 DEF Queue
  <2>2. Used(head, tail)' = u + n
    BY <1>3 DEF Used, CursorMod
  <2> HIDE DEF u, n
  <2> QED BY <1>1, <2>1, <2>2 DEF Place
<1>6. \A k \in 0 .. n - 1 : buffer[Place(u + k)] = wdata[k + 1]
  BY <1>1 DEF CopiedSoFar
<1> HIDE DEF u
<1>7. /\ Contents \o wdata \in Seq(Sample) /\ Len(Contents \o wdata) = u + n
      /\ \A i \in 1 .. u + n :
           (Contents \o wdata)[i] = IF i <= u THEN Contents[i] ELSE wdata[i - u]
  BY <1>2, <1>4, ConcatProperties
<1> HIDE DEF n
<1>8. ASSUME NEW i \in 1 .. u + n PROVE Contents'[i] = (Contents \o wdata)[i]
  <2>1. CASE i <= u
    BY <1>4, <1>5, <1>7, <2>1
  <2>2. CASE i > u
    <3> DEFINE k == i - u - 1
    <3>1. k \in 0 .. n - 1 /\ u + k = i - 1 /\ k + 1 = i - u
      BY <1>2, <2>2
    <3> HIDE DEF k
    <3>2. buffer[Place(i - 1)] = wdata[i - u]
      <4>1. buffer[Place(u + k)] = wdata[k + 1]
        BY <1>6, <3>1
      <4> QED BY <3>1, <4>1
    <3> QED BY <1>2, <1>5, <1>7, <2>2, <3>2
  <2>3. i <= u \/ i > u
    BY <1>2
  <2> QED BY <2>1, <2>2, <2>3, Zenon
<1>9. Contents' = Contents \o wdata
  BY <1>5, <1>7, <1>8, SeqEqual
<1>10. wdata \in Fifo!Batch(n)
  BY <1>2 DEF n, Fifo!Batch
<1>11. n \in 1 .. Cap /\ n <= Cap - Len(Contents)
  BY <1>2, <1>4
<1>12. Fifo!Put(n)
  BY <1>1, <1>9, <1>10, <1>11 DEF Fifo!Put
<1> QED BY <1>11, <1>12

\* read() takes its samples off the front when it stores tail_, and returns those.
LEMMA ReadEndGets ==
  ASSUME IInv, CopiedSoFar, IInv', ReadEnd
  PROVE  \E n \in 1 .. Cap : Fifo!Get(n)
<1> DEFINE u == Used(head, tail)
           n == rcount
<1>1. /\ rpc = "copy" /\ Len(rdata) = n /\ got' = rdata /\ UNCHANGED buffer
  BY DEF ReadEnd
<1>2. /\ u \in Nat /\ n \in Nat /\ n <= u /\ u <= Cap /\ Cap \in Nat /\ n > 0
      /\ rdata \in Seq(Sample)
  BY <1>1, Lengths DEF IInv, TypeOK, CopiedSoFar
<1>3. /\ \A j \in Nat : (tail' + j) % Cap = Place(n + j)
      /\ Used(head', tail') = u - n
  <2>1. \A j \in Nat : (tail' + j) % Cap = Place(n + j)
    BY PlacesMove
  <2>2. 0 \in Nat
    OBVIOUS
  <2> QED BY <2>1, <2>2, PlacesMove
<1>4. /\ Contents \in Seq(Sample) /\ Len(Contents) = u
      /\ \A i \in 1 .. u : Contents[i] = buffer[Place(i - 1)]
  BY ContentsAre DEF Queue
<1>5. /\ Contents' \in Seq(Sample) /\ Len(Contents') = u - n
      /\ \A i \in 1 .. u - n : Contents'[i] = buffer[Place(n + (i - 1))]
  <2>1. /\ Contents' \in Seq(Sample) /\ Len(Contents') = Used(head, tail)'
        /\ \A i \in 1 .. Used(head, tail)' : Contents'[i] = buffer'[Place(i - 1)']
    <3>1. Queue'
      BY ContentsAre, PTL
    <3> QED BY <3>1 DEF Queue
  <2>2. Used(head, tail)' = u - n
    BY <1>3 DEF Used, CursorMod
  <2> HIDE DEF u, n
  <2>3. ASSUME NEW i \in 1 .. u - n PROVE Place(i - 1)' = Place(n + (i - 1))
    <3>1. i - 1 \in Nat
      BY <1>2
    <3>2. (tail' + (i - 1)) % Cap = Place(n + (i - 1))
      BY <1>3, <3>1
    <3> QED BY <3>2 DEF Place
  <2> QED BY <1>1, <2>1, <2>2, <2>3
<1>6. \A k \in 0 .. n - 1 : rdata[k + 1] = buffer[Place(k)]
  BY <1>1 DEF CopiedSoFar
<1> HIDE DEF u, n
<1>7. /\ SubSeq(Contents, 1, n) \in Seq(Sample) /\ Len(SubSeq(Contents, 1, n)) = n
      /\ \A i \in 1 .. n : SubSeq(Contents, 1, n)[i] = Contents[i]
  <2>1. \A i \in 1 .. n : Contents[i] \in Sample
    BY <1>2, <1>4
  <2>2. 1 \in Int /\ n \in Int /\ 1 <= n /\ n - 1 + 1 = n /\ \A i \in 1 .. n : 1 + i - 1 = i
    BY <1>2
  <2> QED BY <2>1, <2>2, SubSeqProperties
<1>8. rdata = SubSeq(Contents, 1, n)
  <2>1. ASSUME NEW i \in 1 .. n PROVE rdata[i] = SubSeq(Contents, 1, n)[i]
    <3>1. i - 1 \in 0 .. n - 1 /\ (i - 1) + 1 = i /\ i \in 1 .. u
      BY <1>2
    <3>2. rdata[i] = buffer[Place(i - 1)]
      BY <1>6, <3>1
    <3> QED BY <1>4, <1>7, <3>1, <3>2
  <2> QED BY <1>1, <1>2, <1>7, <2>1, SeqEqual
<1>9. /\ SubSeq(Contents, n + 1, u) \in Seq(Sample)
      /\ Len(SubSeq(Contents, n + 1, u)) = u - n
      /\ \A i \in 1 .. u - n : SubSeq(Contents, n + 1, u)[i] = Contents[n + i]
  <2>1. \A i \in n + 1 .. u : Contents[i] \in Sample
    BY <1>2, <1>4
  <2>2. /\ n + 1 \in Int /\ u \in Int /\ u - (n + 1) + 1 = u - n
        /\ \A i \in 1 .. u - n : (n + 1) + i - 1 = n + i
        /\ (IF n + 1 <= u THEN u - n ELSE 0) = u - n
    BY <1>2
  <2> QED BY <2>1, <2>2, SubSeqProperties
<1>10. Contents' = SubSeq(Contents, n + 1, u)
  <2>1. ASSUME NEW i \in 1 .. u - n PROVE Contents'[i] = SubSeq(Contents, n + 1, u)[i]
    <3>1. n + i \in 1 .. u /\ n + (i - 1) = (n + i) - 1
      BY <1>2
    <3>2. Contents[n + i] = buffer[Place((n + i) - 1)]
      BY <1>4, <3>1
    <3> QED BY <1>5, <1>9, <3>1, <3>2
  <2> QED BY <1>5, <1>9, <2>1, SeqEqual
<1>11. n \in 1 .. Cap /\ n <= Len(Contents)
  BY <1>2, <1>4
<1>12. Fifo!Get(n)
  BY <1>1, <1>4, <1>8, <1>10, <1>11 DEF Fifo!Get
<1> QED BY <1>11, <1>12

\* However the two copies interleave and wherever the cursors wrap, the ring is a bounded
\* queue: what write() puts in, read() gives out, once, in order and unchanged.
THEOREM RingIsFifo == Spec => ImplementsFifo
<1>1. Init => Fifo!Init
  <2> SUFFICES ASSUME Init PROVE Contents = <<>> /\ got = <<>>
    BY DEF Fifo!Init
  <2>1. IInv /\ head = 0 /\ tail = 0 /\ got = <<>>
    BY InitIInv DEF Init
  <2>2. Used(head, tail) = 0
    BY <2>1, CursorFacts DEF Used
  <2>3. Contents \in Seq(Sample) /\ Len(Contents) = 0
    BY <2>1, <2>2, ContentsAre DEF Queue
  <2> QED BY <2>1, <2>3, EmptySeq
<1>2. IInv /\ CopiedSoFar /\ [Next]_vars => [Fifo!Next]_(Fifo!fifoVars)
  <2> SUFFICES ASSUME IInv, CopiedSoFar, [Next]_vars
               PROVE  Fifo!Next \/ UNCHANGED <<Contents, got>>
    BY DEF Fifo!fifoVars
  <2>1. IInv'
    BY NextIInv
  <2>2. CASE WriteBegin \/ AvailableToRead \/ ReadBegin \/ ReadCopy \/ UNCHANGED vars
    <3>1. UNCHANGED <<head, tail, buffer, got>>
      BY <2>2 DEF WriteBegin, AvailableToRead, ReadBegin, ReadCopy, vars
    <3> QED BY <3>1 DEF Contents, Used, CursorMod
  <2>3. CASE WriteCopy
    BY <2>1, <2>3, WriteCopyHidden
  <2>4. CASE WriteEnd
    BY <2>1, <2>4, WriteEndPuts DEF Fifo!Next
  <2>5. CASE ReadEnd
    BY <2>1, <2>5, ReadEndGets DEF Fifo!Next
  <2> QED BY <2>2, <2>3, <2>4, <2>5 DEF Next
<1> QED BY <1>1, <1>2, AlwaysCopied, PTL DEF Spec, ImplementsFifo, Fifo!Spec
===============================================================================

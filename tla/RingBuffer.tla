------------------------------ MODULE RingBuffer ------------------------------
(***************************************************************************)
(* ring_buffer.h: the lock-free single-producer single-consumer ring that  *)
(* carries int16 samples from the network thread (write) to the WASAPI     *)
(* render thread (read, availableToRead).                                  *)
(*                                                                         *)
(* The cursors head_ and tail_ count samples for ever and wrap at the      *)
(* width of size_t (CursorMod); the slot of a cursor is its low bits       *)
(* (cursor & mask_, which is cursor % Cap for a power of two).  Each call  *)
(* is split where the other thread can see it: the load of the other       *)
(* thread's cursor, every sample of the memcpy, and the store of its own   *)
(* cursor.  Each cursor has one writer and is published by a release store *)
(* that an acquire load reads, so interleaving these steps is exact.       *)
(***************************************************************************)
EXTENDS Integers, Sequences

CONSTANTS Sample,    \* the sample values that are told apart
          Zero,      \* the sample the constructor fills the buffer with
          Cap,       \* capacity_: the number of slots
          Laps,      \* 2^(width of size_t) / capacity_
          MaxFrames, \* the longest batch passed to write() or read(), in frames
          ChannelCounts  \* the channel counts a session may have

ASSUME CapAssumption == Cap \in Nat \ {0}
ASSUME LapsAssumption == Laps \in Nat \ {0, 1}
ASSUME ZeroAssumption == Zero \in Sample
ASSUME MaxFramesAssumption == MaxFrames \in Nat \ {0}
\* Mono or stereo, and a whole number of frames fits in the ring.
ASSUME ChannelAssumption ==
  \A c \in ChannelCounts : c \in Nat \ {0} /\ Cap % c = 0

VARIABLES
  channels,            \* samples per frame in this session
  head, tail,          \* head_ and tail_
  buffer,              \* buffer_
  wpc, wdata, wdone,   \* write(): phase, the to_write samples, how many are copied
  rpc, rcount, rdata,  \* read(): phase, to_read, the samples copied so far
  got,                 \* what the last read() that returned samples returned
  seen                 \* last availableToRead() since the last read(), else 0

vars == <<channels, head, tail, buffer, wpc, wdata, wdone, rpc, rcount, rdata, got,
          seen>>

CursorMod == Cap * Laps
Slots     == 0 .. Cap - 1
Cursor    == 0 .. CursorMod - 1

Min2(a, b) == IF a <= b THEN a ELSE b

\* Samples between two cursors: an unsigned subtraction, at the width of size_t.
UsedWithoutWrap(h, t) == IF h >= t THEN h - t ELSE 0
Used(h, t) == (h - t) % CursorMod

\* capacity_ - (current_head - current_tail)
FreeCountingOneMore(h, t) == Cap - Used(h, t) + 1
FreeKeepingOneSlot(h, t) == Cap - Used(h, t) - 1
Free(h, t) == Cap - Used(h, t)

\* The slot of the k-th sample (from 0) of an n-sample copy that starts at cursor c:
\* first_chunk samples up to the end of the array, the rest from slot 0.
SlotNoWrap(c, n, k) == Min2((c % Cap) + k, Cap - 1)
SlotOf(c, n, k) ==
  LET first == Min2(n, Cap - (c % Cap))
  IN  IF k < first THEN (c % Cap) + k ELSE k - first

AdvanceNoWrap(c, n) == c + n
Advance(c, n) == (c + n) % CursorMod

Init ==
  /\ channels \in ChannelCounts
  /\ head = 0 /\ tail = 0
  /\ buffer = [s \in Slots |-> Zero]
  /\ wpc = "idle" /\ wdata = <<>> /\ wdone = 0
  /\ rpc = "idle" /\ rcount = 0 /\ rdata = <<>>
  /\ got = <<>> /\ seen = 0

-------------------------------------------------------------------------------
(* The network thread: write(data, count).                                 *)

\* The cursors are loaded and to_write computed; a batch that does not fit is cut
\* to the space there is.  With no space write() returns 0 and changes nothing.
WriteBegin ==
  /\ wpc = "idle"
  /\ \E frames \in 1 .. MaxFrames :
       LET toWrite == Min2(frames * channels, Free(head, tail))
       IN  /\ toWrite > 0
           /\ wdata' \in [1 .. toWrite -> Sample]
  /\ wpc' = "copy"
  /\ wdone' = 0
  /\ UNCHANGED <<channels, head, tail, buffer, rpc, rcount, rdata, got, seen>>

\* One sample of the two memcpy calls.
WriteCopy ==
  /\ wpc = "copy"
  /\ wdone < Len(wdata)
  /\ buffer' = [buffer EXCEPT ![SlotOf(head, Len(wdata), wdone)] = wdata[wdone + 1]]
  /\ wdone' = wdone + 1
  /\ UNCHANGED <<channels, head, tail, wpc, wdata, rpc, rcount, rdata, got, seen>>

\* head_.store(current_head + to_write, release).
WriteEnd ==
  /\ wpc = "copy"
  /\ wdone = Len(wdata)
  /\ head' = Advance(head, Len(wdata))
  /\ wpc' = "idle" /\ wdata' = <<>> /\ wdone' = 0
  /\ UNCHANGED <<channels, tail, buffer, rpc, rcount, rdata, got, seen>>

-------------------------------------------------------------------------------
(* The render thread: availableToRead() and read(data, count).             *)

Available == Used(head, tail)

\* renderPitchPreserved() asks what is buffered, then sizes its read from the answer.
AvailableToRead ==
  /\ rpc = "idle"
  /\ seen' = Available
  /\ UNCHANGED <<channels, head, tail, buffer, wpc, wdata, wdone, rpc, rcount, rdata, got>>

\* With nothing available read() returns 0 and changes nothing.
ReadBegin ==
  /\ rpc = "idle"
  /\ \E frames \in 1 .. MaxFrames : rcount' = Min2(frames * channels, Available)
  /\ rcount' > 0
  /\ rpc' = "copy" /\ rdata' = <<>>
  /\ seen' = 0
  /\ UNCHANGED <<channels, head, tail, buffer, wpc, wdata, wdone, got>>

ReadCopy ==
  /\ rpc = "copy"
  /\ Len(rdata) < rcount
  /\ rdata' = Append(rdata, buffer[SlotOf(tail, rcount, Len(rdata))])
  /\ UNCHANGED <<channels, head, tail, buffer, wpc, wdata, wdone, rpc, rcount, got, seen>>

\* tail_.store(current_tail + to_read, release).
ReadEnd ==
  /\ rpc = "copy"
  /\ Len(rdata) = rcount
  /\ tail' = Advance(tail, rcount)
  /\ got' = rdata
  /\ rpc' = "idle" /\ rcount' = 0 /\ rdata' = <<>>
  /\ UNCHANGED <<channels, head, buffer, wpc, wdata, wdone, seen>>

Next ==
  \/ WriteBegin \/ WriteCopy \/ WriteEnd
  \/ AvailableToRead \/ ReadBegin \/ ReadCopy \/ ReadEnd

Spec == Init /\ [][Next]_vars

-------------------------------------------------------------------------------
(* Properties.                                                             *)

\* Every variable holds a value of its C++ type; cursors stay below 2^width.
TypeOK ==
  /\ channels \in ChannelCounts
  /\ head \in Cursor /\ tail \in Cursor
  /\ buffer \in [Slots -> Sample]
  /\ wpc \in {"idle", "copy"} /\ rpc \in {"idle", "copy"}
  /\ wdata \in Seq(Sample) /\ wdone \in 0 .. Len(wdata)
  /\ rcount \in Nat /\ rdata \in Seq(Sample) /\ Len(rdata) <= rcount
  /\ got \in Seq(Sample) /\ seen \in Nat

\* The slots a copy in progress touches, from its first sample to its last.
Writing == {SlotOf(head, Len(wdata), k) : k \in 0 .. Len(wdata) - 1}
Reading == {SlotOf(tail, rcount, k) : k \in 0 .. rcount - 1}

\* write() and read() are both plain memcpy: the two threads never touch one slot at
\* once, however their calls interleave and wherever the cursors wrap.
NoSlotRace == wpc = "copy" /\ rpc = "copy" => Writing \cap Reading = {}

\* What availableToRead() answered is still there when read() is called:
\* renderPitchPreserved() sizes its copy from that answer.
AvailabilityOnlyGrows == rpc = "idle" => seen <= Available

\* Cutting a write to the space left, or a read to the samples there are, never splits
\* a frame: left and right never swap places, as long as callers pass whole frames.
WholeFrames == head % channels = 0 /\ tail % channels = 0

\* The abstract queue: the slots from tail_ up to head_, oldest first.
Contents == [i \in 1 .. Used(head, tail) |-> buffer[(tail + i - 1) % Cap]]

\* The ring is a bounded FIFO: samples come out once each, in the order and with the
\* values they went in, whatever the interleaving of the two copies.
Fifo == INSTANCE SampleFifo WITH fifo <- Contents
ImplementsFifo == Fifo!Spec
===============================================================================

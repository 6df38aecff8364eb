------------------------------ MODULE SampleFifo ------------------------------
(***************************************************************************)
(* What the ring buffer between the network thread and the render thread   *)
(* promises: a bounded first-in first-out queue of PCM samples.  A write   *)
(* appends a batch that fits, a read takes a batch off the front, and what *)
(* a read hands to its caller is exactly what it took off the queue.       *)
(***************************************************************************)
EXTENDS Integers, Sequences

CONSTANTS Sample, \* the sample values that are told apart
          Cap     \* capacity in samples

VARIABLES fifo,   \* the samples written and not yet read
          got     \* what the last read() that returned samples returned

fifoVars == <<fifo, got>>

Batch(n) == [1 .. n -> Sample]

Init == fifo = <<>> /\ got = <<>>

\* A write of n samples becomes visible all at once.
Put(n) ==
  /\ n <= Cap - Len(fifo)
  /\ \E s \in Batch(n) : fifo' = fifo \o s
  /\ UNCHANGED got

\* A read of n samples returns the oldest n and removes them.
Get(n) ==
  /\ n <= Len(fifo)
  /\ got' = SubSeq(fifo, 1, n)
  /\ fifo' = SubSeq(fifo, n + 1, Len(fifo))

Next == \E n \in 1 .. Cap : Put(n) \/ Get(n)

Spec == Init /\ [][Next]_fifoVars
===============================================================================

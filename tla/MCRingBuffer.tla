----------------------------- MODULE MCRingBuffer -----------------------------
(* A ring of four slots whose cursors wrap after two laps, with batches long *)
(* enough to fill it and to wrap around the end of the array.                *)
EXTENDS RingBuffer
===============================================================================

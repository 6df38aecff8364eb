-------------------------- MODULE MCSequenceReceiver --------------------------
(* Sixteen sequence numbers, a window of four early frames and a session long *)
(* enough to wrap them; the bounds are given by the configurations.           *)
EXTENDS SequenceReceiver
===============================================================================

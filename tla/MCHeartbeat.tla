------------------------------ MODULE MCHeartbeat -----------------------------
(* Two clients in turn, with sequence numbers that wrap within a session; the *)
(* codec is PCM: a payload that does not decode is one that did not arrive.  *)
EXTENDS Heartbeat

Pcm == {FALSE}
===============================================================================

----------------------------- MODULE MCQuicSession ----------------------------
(* Three clients in turn, so that the events of two sessions can be waiting  *)
(* while a third is being set up; the second of them sends PCM.              *)
EXTENDS QuicSession

FirstAndThird == {1, 3}
===============================================================================

----------------------------- MODULE MCUdpSession -----------------------------
(* Two clients in turn and two spare handles, so that a closed handle can come *)
(* back while another thread still holds its number.                           *)
EXTENDS UdpSession
===============================================================================

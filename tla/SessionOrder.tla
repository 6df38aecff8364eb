----------------------------- MODULE SessionOrder -----------------------------
(***************************************************************************)
(* What both transports promise about sessions, whatever their threads and *)
(* channels do: the server plays at most one session at a time, keeps the  *)
(* decoder and the renderer of that session until it is over, and never    *)
(* goes back to a session that came before.                                *)
(***************************************************************************)
EXTENDS Integers

CONSTANT MaxSessions  \* how many clients connect in a behaviour

VARIABLES playing,    \* is a renderer set up?
          current     \* for the session of which client; 0 before the first

orderVars == <<playing, current>>

Init == ~playing /\ current = 0

\* Sessions may be skipped: a client can be gone before anyone looks.
Start ==
  /\ ~playing /\ playing'
  /\ current' \in current + 1 .. MaxSessions

Stop == playing /\ ~playing' /\ UNCHANGED current

Next == Start \/ Stop

Spec == Init /\ [][Next]_orderVars
===============================================================================

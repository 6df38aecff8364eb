----------------------------- MODULE ModArithmetic ----------------------------
(***************************************************************************)
(* Facts about numbers that wrap: the size_t cursors of ring_buffer.h and  *)
(* the uint8_t sequence numbers of main.cpp and lib.rs.                    *)
(***************************************************************************)
EXTENDS Integers, TLAPS

\* Advancing the first of two cursors moves the distance up by as much, wherever
\* either of them wraps.
LEMMA HeadMoves ==
  ASSUME NEW M \in Nat, M > 1, NEW h \in 0 .. M - 1, NEW t \in 0 .. M - 1,
         NEW n \in Nat, ((h - t) % M) + n < M
  PROVE  /\ (h + n) % M \in 0 .. M - 1
         /\ (((h + n) % M) - t) % M = ((h - t) % M) + n
<1>1. CASE h >= t
  <2>1. (h - t) % M = h - t
    BY <1>1
  <2>2. CASE h + n < M
    BY <1>1, <2>1, <2>2
  <2>3. CASE h + n >= M
    <3>1. (h + n) % M = h + n - M
      BY <1>1, <2>1, <2>3
    <3>2. ((h + n - M) - t) % M = h + n - M - t + M
      BY <1>1, <2>1, <2>3
    <3> QED BY <3>1, <3>2, <2>1, <1>1, <2>3
  <2> QED BY <2>2, <2>3
<1>2. CASE h < t
  <2>1. (h - t) % M = h - t + M
    BY <1>2
  <2>2. h + n < t
    BY <2>1, <1>2
  <2>3. (h + n) % M = h + n
    BY <2>2
  <2>4. ((h + n) - t) % M = h + n - t + M
    BY <2>2
  <2> QED BY <2>1, <2>2, <2>3, <2>4
<1> QED BY <1>1, <1>2

\* Advancing the second one moves the distance down.
LEMMA TailMoves ==
  ASSUME NEW M \in Nat, M > 1, NEW h \in 0 .. M - 1, NEW t \in 0 .. M - 1,
         NEW n \in Nat, n <= (h - t) % M
  PROVE  /\ (t + n) % M \in 0 .. M - 1
         /\ (h - ((t + n) % M)) % M = ((h - t) % M) - n
<1>1. CASE h >= t
  <2>1. (h - t) % M = h - t
    BY <1>1
  <2>2. (t + n) % M = t + n /\ t + n <= h
    BY <1>1, <2>1
  <2> QED BY <1>1, <2>1, <2>2
<1>2. CASE h < t
  <2>1. (h - t) % M = h - t + M
    BY <1>2
  <2>2. CASE t + n < M
    <3>1. (t + n) % M = t + n
      BY <2>2
    <3>2. (h - (t + n)) % M = h - (t + n) + M
      BY <2>2, <1>2
    <3> QED BY <2>1, <3>1, <3>2, <2>2
  <2>3. CASE t + n >= M
    <3>1. (t + n) % M = t + n - M
      BY <2>1, <1>2, <2>3
    <3>2. (h - (t + n - M)) % M = h - (t + n - M)
      BY <2>1, <1>2, <2>3
    <3> QED BY <2>1, <3>1, <3>2, <2>3
  <2> QED BY <2>2, <2>3
<1> QED BY <1>1, <1>2

\* A multiple of C strictly between -C and 2C is 0 or C.
LEMMA SmallMultiple ==
  ASSUME NEW C \in Nat, C > 0, NEW q \in Int, -C < C * q, C * q < 2 * C
  PROVE  C * q = 0 \/ C * q = C
<1>1. CASE q <= -1
  <2>1. C * q <= C * (-1)
    BY <1>1, Z3
  <2> QED BY <2>1
<1>2. CASE q >= 2
  <2>1. C * q >= C * 2
    BY <1>2, Z3
  <2> QED BY <2>1
<1>3. CASE q = 0 \/ q = 1
  BY <1>3
<1> QED BY <1>1, <1>2, <1>3

\* Two numbers less than a lap apart (b may be a whole lap ahead): the wrapped difference
\* of their low bits is their distance, going forward from b.
LEMMA ModDiff ==
  ASSUME NEW M \in Nat, M > 0, NEW a \in Nat, NEW b \in Nat, -M <= a - b, a - b < M
  PROVE  ((a % M) - (b % M)) % M = IF a >= b THEN a - b ELSE a - b + M
<1> DEFINE qa == a \div M
           qb == b \div M
           x == a % M
           y == b % M
<1>1. qa \in Int /\ qb \in Int /\ x \in 0 .. M - 1 /\ y \in 0 .. M - 1
  OBVIOUS
<1>2. a = M * qa + x /\ b = M * qb + y
  OBVIOUS
<1> HIDE DEF qa, qb, x, y
<1>3. a - b = M * (qa - qb) + (x - y)
  BY <1>1, <1>2, Z3
<1>4. PICK q \in Int : a - b = M * q + (x - y)
  BY <1>1, <1>3
<1>5. M * q \in Int /\ -2 * M < M * q /\ M * q < 2 * M
  BY <1>1, <1>4
<1>6. M * q \in {-M, 0, M}
  <2>1. CASE q >= 0
    <3>1. M * q >= 0
      BY <2>1, Z3
    <3> QED BY <3>1, <1>5, SmallMultiple
  <2>2. CASE q < 0
    <3>1. -q \in Int /\ M * (-q) = -(M * q) /\ M * (-q) >= 0
      BY <2>2, Z3
    <3>2. M * (-q) = 0 \/ M * (-q) = M
      BY <3>1, <1>5, SmallMultiple
    <3> QED BY <3>1, <3>2
  <2> QED BY <2>1, <2>2
<1>7. (x - y) \in {a - b, a - b + M, a - b - M}
  BY <1>1, <1>4, <1>6
<1>8. (x - y) % M = IF a >= b THEN a - b ELSE a - b + M
  BY <1>1, <1>7
<1> QED BY <1>8 DEF x, y
===============================================================================

--------------------------- MODULE RenderLoopProofs ---------------------------
(***************************************************************************)
(* For every ring, device, fade and speed control: the render thread fills *)
(* each buffer it is given from what it read and nothing else, reads what  *)
(* it planned to read, leaves frames out only of a surplus, and what is     *)
(* heard has neither a step nor a hard edge.                               *)
(***************************************************************************)
EXTENDS RenderLoop, SequenceTheorems, TLAPS

-------------------------------------------------------------------------------
(* Arithmetic.                                                             *)

LEMMA Sizes ==
  /\ Unit \in Nat /\ Unit > 0 /\ Slow \in Nat
  /\ FadeLimit \in Nat /\ FadeLimit > 0 /\ FadePart \in Nat /\ FadePart > 0
  /\ SilenceFade \in Nat /\ SilenceFade > 0
  /\ Capacity \in Nat /\ Frames \in Nat /\ Climb \in Nat
  /\ Protect \in Nat /\ DefaultProtect \in Nat /\ MaxSpeed \in Nat /\ DefaultMaxSpeed \in Nat
  /\ Batches \subseteq Nat /\ Needs \subseteq Nat /\ 0 \notin Needs
BY StretchAssumption, LoopAssumption

LEMMA MinOfTwo ==
  ASSUME NEW a \in Int, NEW b \in Int
  PROVE  /\ Min2(a, b) \in {a, b} /\ Min2(a, b) <= a /\ Min2(a, b) <= b
         /\ Min2(a, b) \in Int
BY DEF Min2

LEMMA DivNat == ASSUME NEW a \in Nat, NEW b \in Nat, b > 0 PROVE a \div b \in Nat
OBVIOUS

LEMMA DivInt == ASSUME NEW a \in Int, NEW b \in Nat, b > 0 PROVE a \div b \in Int
OBVIOUS

\* How much is read: never less than the output or what there is, never more than there is
\* unless the output needs it, and more than the output only at a speed above normal.
LEMMA WantedBounds ==
  ASSUME NEW out \in Nat, NEW x \in Nat, NEW available \in Nat
  PROVE  LET w == Wanted(out, x, available)
         IN  /\ w \in Nat /\ w <= available
             /\ w > out => x > Slow
<1> DEFINE c == CeilDiv(out * (Unit + x), Unit)
<1>1. c \in Int
  <2>1. out * (Unit + x) \in Int
    BY Sizes
  <2>2. out * (Unit + x) + Unit - 1 \in Int
    BY <2>1, Sizes
  <2> QED BY <2>2, Sizes, DivInt DEF CeilDiv
<1> HIDE DEF c
<1>2. CASE x <= Slow \/ available <= out
  BY <1>2, Sizes DEF Wanted, Min2
<1>3. CASE ~(x <= Slow \/ available <= out)
  <2>1. Wanted(out, x, available) = Clamp(c, out, available)
    BY <1>3 DEF Wanted, Stretched, c
  <2> QED BY <1>1, <1>3, <2>1, Sizes DEF Clamp, Min2
<1> QED BY <1>2, <1>3

LEMMA FadeFits ==
  ASSUME NEW out \in Nat
  PROVE  FadeLength(out) \in Nat /\ FadeLength(out) <= out
<1>1. out \div FadePart \in Nat
  BY Sizes, DivNat
<1> QED BY <1>1, Sizes DEF FadeLength, Min2

-------------------------------------------------------------------------------
(* The sound.                                                              *)

\* Cells made of the frames from .. to of the input, at any gain.
Between(from, to) == [left : from .. to, right : from .. to, gain : Nat \X Nat]

LEMMA SeqOfFunction ==
  ASSUME NEW S, NEW n \in Nat, NEW f \in [1 .. n -> S]
  PROVE  f \in Seq(S) /\ Len(f) = n
BY IsASeq, LenProperties

\* The three parts of a splice fill the output, from frames that were read: those before
\* the skip, those over it, which are made of two frames, and those after it.
LEMMA SpliceFills ==
  ASSUME NEW out \in Nat, NEW have \in Nat, NEW fade \in Nat, NEW at \in Nat,
         have > out, at + fade <= out
  PROVE  LET skip == have - out
             sound == Splice(out, have, fade, at)
         IN  /\ sound \in Seq(Between(0, have - 1)) /\ Len(sound) = out
             /\ \A i \in 1 .. out :
                  sound[i] = Cell(IF i <= at + fade THEN i - 1 ELSE skip + i - 1,
                                  IF i <= at THEN i - 1 ELSE skip + i - 1)
<1> DEFINE skip == have - out
           b == Before(out, at)
           o == Over(out, skip, fade, at)
           a == After(out, have, skip, fade, at)
           rest == out - at - fade
           sound == Splice(out, have, fade, at)
<1>1. /\ skip \in Nat /\ skip > 0 /\ rest \in Nat /\ at + fade + rest = out
      /\ Min2(at, out) = at /\ Min2(fade, out - at) = fade
  BY DEF Min2
<1>2. \A l, r \in 0 .. have - 1 : Cell(l, r) \in Between(0, have - 1)
  BY DEF Cell, Between, Full
<1>3. /\ b \in Seq(Between(0, have - 1)) /\ Len(b) = at
      /\ \A i \in 1 .. at : b[i] = Cell(i - 1, i - 1)
  <2>1. b = [i \in 1 .. at |-> Cell(i - 1, i - 1)]
    BY <1>1 DEF Before
  <2>2. \A i \in 1 .. at : i - 1 \in 0 .. have - 1
    OBVIOUS
  <2>3. b \in [1 .. at -> Between(0, have - 1)]
    BY <1>2, <2>1, <2>2
  <2> QED BY <2>1, <2>3, SeqOfFunction
<1>4. /\ o \in Seq(Between(0, have - 1)) /\ Len(o) = fade
      /\ \A i \in 1 .. fade : o[i] = Cell(at + i - 1, at + skip + i - 1)
  <2>1. o = [i \in 1 .. fade |-> Cell(at + i - 1, at + skip + i - 1)]
    BY <1>1 DEF Over
  <2>2. \A i \in 1 .. fade : at + i - 1 \in 0 .. have - 1 /\ at + skip + i - 1 \in 0 .. have - 1
    OBVIOUS
  <2>3. o \in [1 .. fade -> Between(0, have - 1)]
    BY <1>2, <2>1, <2>2
  <2> QED BY <2>1, <2>3, SeqOfFunction
<1>5. /\ a \in Seq(Between(0, have - 1)) /\ Len(a) = rest
      /\ \A i \in 1 .. rest :
           a[i] = Cell(at + skip + fade + i - 1, at + skip + fade + i - 1)
  <2>1. /\ IF at + skip + fade < have
             THEN Min2(out - at - fade, have - (at + skip + fade)) = rest
             ELSE rest = 0
    BY <1>1 DEF Min2
  <2>2. a = [i \in 1 .. rest |-> Cell(at + skip + fade + i - 1, at + skip + fade + i - 1)]
    BY <1>1, <1>3, <1>4, <2>1 DEF After
  <2>3. \A i \in 1 .. rest : at + skip + fade + i - 1 \in 0 .. have - 1
    OBVIOUS
  <2>4. a \in [1 .. rest -> Between(0, have - 1)]
    BY <1>2, <2>2, <2>3
  <2> QED BY <1>1, <2>2, <2>4, SeqOfFunction
<1>6. sound = (b \o o) \o a
  BY DEF Splice
<1> DEFINE S == Between(0, have - 1)
           x == b \o o
<1> HIDE DEF b, o, a, sound, S
<1>7. /\ x \in Seq(S) /\ Len(x) = at + fade
      /\ \A i \in 1 .. at + fade : x[i] = IF i <= at THEN b[i] ELSE o[i - at]
  <2>1. b \in Seq(S) /\ o \in Seq(S) /\ Len(b) = at /\ Len(o) = fade
    BY <1>3, <1>4 DEF S
  <2> QED BY <2>1, ConcatProperties
<1> HIDE DEF x
<1>8. /\ sound \in Seq(S) /\ Len(sound) = at + fade + rest
      /\ \A i \in 1 .. at + fade + rest :
           sound[i] = IF i <= at + fade THEN x[i] ELSE a[i - (at + fade)]
  <2>1. a \in Seq(S) /\ Len(a) = rest /\ sound = x \o a
    BY <1>5, <1>6 DEF S, x
  <2>2. /\ x \o a \in Seq(S) /\ Len(x \o a) = Len(x) + Len(a)
        /\ \A i \in 1 .. Len(x) + Len(a) : (x \o a)[i] = IF i <= Len(x) THEN x[i]
                                                         ELSE a[i - Len(x)]
    BY <1>7, <2>1, ConcatProperties
  <2> QED BY <1>7, <2>1, <2>2, Zenon
<1>9. ASSUME NEW i \in 1 .. out
      PROVE  sound[i] = Cell(IF i <= at + fade THEN i - 1 ELSE skip + i - 1,
                             IF i <= at THEN i - 1 ELSE skip + i - 1)
  <2>1. i \in 1 .. at + fade + rest /\ i \in Nat /\ skip \in Nat /\ rest \in Nat
    BY <1>1
  <2> HIDE DEF skip, rest
  <2>2. CASE i <= at
    <3>1. sound[i] = x[i] /\ x[i] = b[i] /\ b[i] = Cell(i - 1, i - 1)
      BY <1>3, <1>7, <1>8, <2>1, <2>2
    <3> QED BY <2>2, <3>1
  <2>3. CASE i > at /\ i <= at + fade
    <3>1. i - at \in 1 .. fade /\ i \in 1 .. at + fade /\ at + (i - at) - 1 = i - 1
          /\ at + skip + (i - at) - 1 = skip + i - 1
      BY <2>1, <2>3
    <3>2. sound[i] = x[i] /\ x[i] = o[i - at]
      BY <1>7, <1>8, <2>1, <2>3, <3>1
    <3>3. o[i - at] = Cell(at + (i - at) - 1, at + skip + (i - at) - 1)
      BY <1>4, <3>1
    <3>4. sound[i] = Cell(i - 1, skip + i - 1)
      BY <3>1, <3>2, <3>3
    <3> QED BY <2>1, <2>3, <3>4
  <2>4. CASE i > at + fade
    <3>1. i - (at + fade) \in 1 .. rest
          /\ at + skip + fade + (i - (at + fade)) - 1 = skip + i - 1
      BY <2>1, <2>4
    <3>2. sound[i] = a[i - (at + fade)]
      BY <1>8, <2>1, <2>4
    <3> DEFINE j == i - (at + fade)
    <3>3. a[j] = Cell(at + skip + fade + j - 1, at + skip + fade + j - 1)
      BY <1>5, <3>1
    <3>4. sound[i] = Cell(skip + i - 1, skip + i - 1)
      BY <3>1, <3>2, <3>3
    <3> QED BY <2>1, <2>4, <3>4
  <2> QED BY <2>1, <2>2, <2>3, <2>4
<1>10. Len(sound) = out
  BY <1>1, <1>8
<1> QED BY <1>8, <1>9, <1>10 DEF sound, S

\* Whichever way it is made, the sound is as long as the output, or as what was read if
\* that is less, and made of frames that were read.
LEMMA SoundFills ==
  ASSUME NEW out \in Nat, NEW have \in Nat, NEW sound \in Sounds(out, have)
  PROVE  sound \in Seq(Between(0, have - 1)) /\ Len(sound) = Min2(out, have)
<1>1. Full \in Nat \X Nat
  BY DEF Full
<1>2. ASSUME NEW n \in Nat, n <= have
      PROVE  Copy(n) \in Seq(Between(0, have - 1)) /\ Len(Copy(n)) = n
  <2>1. Copy(n) \in [1 .. n -> Between(0, have - 1)]
    BY <1>1, <1>2 DEF Copy, Cell, Between
  <2> QED BY <2>1, SeqOfFunction
<1>3. CASE have <= out
  BY <1>2, <1>3 DEF Sounds, Min2
<1>4. CASE have > out /\ CutsShort(out)
  <2>1. sound = Copy(out) /\ Min2(out, have) = out
    BY <1>4 DEF Sounds, Min2
  <2> QED BY <1>2, <1>4, <2>1
<1>5. CASE have > out /\ ~CutsShort(out)
  <2> DEFINE fade == FadeLength(out)
  <2>1. fade \in Nat /\ fade <= out
    BY FadeFits
  <2>2. PICK at \in SkipStarts(have, have - out, fade) : sound = Splice(out, have, fade, at)
    BY <1>5 DEF Sounds
  <2>3. at \in Nat /\ at + fade <= out
    BY <1>5, <2>1 DEF SkipStarts
  <2>4. Min2(out, have) = out
    BY <1>5 DEF Min2
  <2> HIDE DEF fade
  <2> QED BY <1>5, <2>1, <2>2, <2>3, <2>4, SpliceFills
<1> QED BY <1>3, <1>4, <1>5

\* The frames of a read keep their order and their gain when they are numbered.
LEMMA NumberedCells ==
  ASSUME got \in Nat, consumed \in Nat, got <= consumed, NEW s \in Seq(Between(0, got - 1))
  PROVE  /\ Numbered(s) \in Seq(Between(consumed - got, consumed - 1))
         /\ Len(Numbered(s)) = Len(s)
         /\ \A i \in 1 .. Len(s) : /\ Numbered(s)[i].left = s[i].left + consumed - got
                                   /\ Numbered(s)[i].right = s[i].right + consumed - got
                                   /\ Numbered(s)[i].gain = s[i].gain
<1> DEFINE n == Len(s)
           R == Between(consumed - got, consumed - 1)
           L == consumed - got .. consumed - 1
           at(i) == [s[i] EXCEPT !.left = @ + consumed - got, !.right = @ + consumed - got]
           f == [i \in 1 .. n |-> at(i)]
<1>1. ASSUME NEW i \in 1 .. n
      PROVE  /\ at(i) \in R
             /\ at(i).left = s[i].left + consumed - got
             /\ at(i).right = s[i].right + consumed - got /\ at(i).gain = s[i].gain
  <2> DEFINE r == s[i]
             x == r.left + consumed - got
             y == r.right + consumed - got
  <2>1. r \in Between(0, got - 1)
    OBVIOUS
  <2> HIDE DEF r
  <2>2. r \in [left : 0 .. got - 1, right : 0 .. got - 1, gain : Nat \X Nat]
    BY <2>1 DEF Between
  <2>3. r.left \in 0 .. got - 1 /\ r.right \in 0 .. got - 1
    BY <2>2
  <2>4. x \in L /\ y \in L
    BY <2>3
  <2>5. at(i) = [r EXCEPT !.left = x, !.right = y]
    BY DEF r
  <2> HIDE DEF x, y, L
  <2>6. /\ [r EXCEPT !.left = x, !.right = y] \in [left : L, right : L, gain : Nat \X Nat]
        /\ [r EXCEPT !.left = x, !.right = y].left = x
        /\ [r EXCEPT !.left = x, !.right = y].right = y
        /\ [r EXCEPT !.left = x, !.right = y].gain = r.gain
    BY <2>2, <2>4
  <2> QED BY <2>5, <2>6, Zenon DEF Between, L, R, x, y, r
<1>2. Numbered(s) = f
  BY DEF Numbered
<1>3. n \in Nat
  OBVIOUS
<1>4. f \in [1 .. n -> R] /\ \A i \in 1 .. n : f[i] = at(i)
  <2> HIDE DEF at, n, R
  <2> QED BY <1>1
<1> HIDE DEF f, R, at
<1>5. f \in Seq(R) /\ Len(f) = n
  BY <1>3, <1>4, SeqOfFunction
<1>6. ASSUME NEW i \in 1 .. n
      PROVE  /\ f[i].left = s[i].left + consumed - got
             /\ f[i].right = s[i].right + consumed - got /\ f[i].gain = s[i].gain
  BY <1>1, <1>4, Zenon
<1> QED BY <1>2, <1>5, <1>6, Zenon DEF R, n

\* A change of the gain keeps a cell where it is.
LEMMA OtherGain ==
  ASSUME NEW L, NEW R, NEW G, NEW c \in [left : L, right : R, gain : G], NEW g \in G
  PROVE  /\ [c EXCEPT !.gain = g] \in [left : L, right : R, gain : G]
         /\ [c EXCEPT !.gain = g].left = c.left /\ [c EXCEPT !.gain = g].right = c.right
         /\ [c EXCEPT !.gain = g].gain = g
OBVIOUS

\* A fade in keeps every cell where it is.
LEMMA FadedInCells ==
  ASSUME NEW from \in Int, NEW to \in Int, NEW sound \in Seq(Between(from, to))
  PROVE  LET f    == FadedIn(sound)
             fade == Min2(Len(sound), SilenceFade)
         IN  /\ f \in Seq(Between(from, to)) /\ Len(f) = Len(sound)
             /\ \A i \in 1 .. Len(sound) :
                  /\ f[i].left = sound[i].left /\ f[i].right = sound[i].right
                  /\ f[i].gain = IF i < fade THEN <<i, fade>> ELSE sound[i].gain
<1> DEFINE n == Len(sound)
           fade == Min2(n, SilenceFade)
           at(i) == IF i < fade THEN [sound[i] EXCEPT !.gain = <<i, fade>>] ELSE sound[i]
           f == [i \in 1 .. n |-> at(i)]
           B == Between(from, to)
<1>1. n \in Nat /\ fade \in Nat
  BY Sizes DEF Min2
<1>2. ASSUME NEW i \in 1 .. n
      PROVE  /\ at(i) \in B
             /\ at(i).left = sound[i].left /\ at(i).right = sound[i].right
             /\ at(i).gain = IF i < fade THEN <<i, fade>> ELSE sound[i].gain
  <2>1. sound[i] \in B
    BY <1>2
  <2>2. <<i, fade>> \in Nat \X Nat
    BY <1>1
  <2> HIDE DEF fade, n
  <2>3. CASE i < fade
    <3>1. at(i) = [sound[i] EXCEPT !.gain = <<i, fade>>]
      BY <2>3
    <3> HIDE DEF at
    <3> DEFINE e == [sound[i] EXCEPT !.gain = <<i, fade>>]
    <3>2. sound[i] \in [left : from .. to, right : from .. to, gain : Nat \X Nat]
      BY <2>1 DEF Between
    <3>3. /\ e \in [left : from .. to, right : from .. to, gain : Nat \X Nat]
          /\ e.left = sound[i].left /\ e.right = sound[i].right /\ e.gain = <<i, fade>>
      BY <2>2, <3>2, OtherGain
    <3> HIDE DEF e
    <3>4. at(i) = e
      BY <3>1 DEF e
    <3> QED BY <2>3, <3>3, <3>4 DEF Between
  <2>4. CASE ~(i < fade)
    BY <2>1, <2>4
  <2> QED BY <2>3, <2>4
<1>3. f \in [1 .. n -> B] /\ \A i \in 1 .. n : f[i] = at(i)
  <2> HIDE DEF at, n, B
  <2> QED BY <1>2
<1>4. FadedIn(sound) = f
  BY DEF FadedIn
<1> HIDE DEF f, B, at
<1>5. f \in Seq(B) /\ Len(f) = n
  BY <1>1, <1>3, SeqOfFunction
<1> HIDE DEF n, fade
<1>6. ASSUME NEW i \in 1 .. n
      PROVE  /\ f[i].left = sound[i].left /\ f[i].right = sound[i].right
             /\ f[i].gain = IF i < fade THEN <<i, fade>> ELSE sound[i].gain
  BY <1>2, <1>3, Zenon
<1> QED BY <1>4, <1>5, <1>6, Zenon DEF n, fade, B

\* Silence is made of the frame that is held.
GainOfSilence(held, n, i) ==
  LET fade == Min2(n, SilenceFade)
  IN  IF held.gain[1] = 0 THEN <<0, 1>>
      ELSE IF i < fade THEN <<fade - i, fade>> ELSE <<0, fade>>

LEMMA SilenceCells ==
  ASSUME NEW from \in Int, NEW to \in Int, NEW held \in Between(from, to), NEW n \in Nat
  PROVE  /\ Silence(n, held) \in Seq(Between(from, to)) /\ Len(Silence(n, held)) = n
         /\ \A i \in 1 .. n : /\ Silence(n, held)[i].left = held.left
                              /\ Silence(n, held)[i].right = held.right
                              /\ Silence(n, held)[i].gain = GainOfSilence(held, n, i)
<1> DEFINE gain(i) == GainOfSilence(held, n, i)
           at(i) == [held EXCEPT !.gain = gain(i)]
           f == [i \in 1 .. n |-> at(i)]
           B == Between(from, to)
<1>1. ASSUME NEW i \in 1 .. n PROVE gain(i) \in Nat \X Nat
  <2>1. Min2(n, SilenceFade) \in Nat
    BY Sizes DEF Min2
  <2> QED BY <2>1 DEF GainOfSilence
<1>2. Silence(n, held) = f
  BY DEF Silence, GainOfSilence
<1> HIDE DEF gain
<1>3. ASSUME NEW i \in 1 .. n
      PROVE  /\ at(i) \in B
             /\ at(i).left = held.left /\ at(i).right = held.right /\ at(i).gain = gain(i)
  BY <1>1, OtherGain DEF Between
<1>4. f \in [1 .. n -> B] /\ \A i \in 1 .. n : f[i] = at(i)
  <2> HIDE DEF at, B
  <2> QED BY <1>3
<1> HIDE DEF f, B, at
<1>5. f \in Seq(B) /\ Len(f) = n
  BY <1>4, SeqOfFunction
<1>6. ASSUME NEW i \in 1 .. n
      PROVE  /\ f[i].left = held.left /\ f[i].right = held.right /\ f[i].gain = gain(i)
  BY <1>3, <1>4, Zenon
<1> QED BY <1>2, <1>5, <1>6, Zenon DEF B, gain

-------------------------------------------------------------------------------
(* The inductive invariant.                                                *)

\* Each plan holds until it is carried out: what was to be read is still there, and a
\* speed above normal, a plan or a read of more than the output go back to a surplus.
Planned ==
  /\ rpc # "wait" => need \in Needs
  /\ rpc \in {"ask", "plan"} /\ speed > 0 => surplus
  /\ rpc = "plan" => buffered <= Buffered
  /\ rpc = "read" /\ want > need => want <= Buffered /\ surplus
  /\ rpc \in {"fill", "release"} =>
       /\ got <= want /\ got <= consumed
       /\ want > need => got = want /\ surplus

IInv == TypeOK /\ Planned /\ OutputFilled

\* What Fill hands to the device.
LEMMA FillCells ==
  ASSUME TypeOK, Planned, rpc = "fill", NEW s \in Sounds(need, got)
  PROVE  LET sound == Risen(Numbered(s))
             out   == sound \o Silence(need - Len(sound), Held(sound))
         IN  /\ Len(sound) = Min2(need, got)
             /\ out \in Seq(Cells) /\ Len(out) = need
             /\ \A i \in 1 .. need :
                  \/ {out[i].left, out[i].right} \subseteq consumed - got .. consumed - 1
                  \/ got = 0 /\ out[i].left = last.left
<1> DEFINE from == consumed - got
           to   == consumed - 1
           R == Between(from, to)
           numbered == Numbered(s)
           sound == Risen(numbered)
           held == Held(sound)
           rest == Silence(need - Len(sound), held)
           out == sound \o rest
<1>1. /\ need \in Nat /\ need > 0 /\ got \in Nat /\ consumed \in 0 .. Frames
      /\ got <= consumed /\ from \in Nat /\ to \in Int /\ to < Frames /\ Frames \in Nat
  <2>1. need \in Needs
    BY DEF Planned
  <2>4. got <= consumed
    BY DEF Planned
  <2>2. need \in Nat /\ need > 0
    BY <2>1, Sizes
  <2>3. got \in 0 .. Frames /\ consumed \in 0 .. Frames
    BY DEF TypeOK
  <2> QED BY <2>1, <2>2, <2>3, <2>4, Sizes
<1>2. s \in Seq(Between(0, got - 1)) /\ Len(s) = Min2(need, got) /\ Len(s) \in Nat
      /\ Len(s) <= need /\ Len(s) <= got
  BY <1>1, SoundFills, MinOfTwo
<1>3. numbered \in Seq(R) /\ Len(numbered) = Len(s)
  BY <1>1, <1>2, NumberedCells
<1> HIDE DEF numbered
<1>4. sound \in Seq(R) /\ Len(sound) = Len(s)
  BY <1>1, <1>3, FadedInCells DEF Risen
<1>5. R \subseteq Cells
  BY <1>1 DEF Between, Cells
<1>6. need - Len(sound) \in Nat
  BY <1>1, <1>2, <1>4
<1> HIDE DEF sound, from, to
<1>7. CASE got > 0
  <2>1. Len(sound) > 0
    BY <1>1, <1>2, <1>4, <1>7 DEF Min2
  <2>2. held \in R
    <3>1. sound # <<>> /\ Len(sound) \in 1 .. Len(sound)
      BY <1>2, <1>4, <2>1
    <3> QED BY <1>4, <3>1 DEF Held
  <2> HIDE DEF held
  <2>3. rest \in Seq(R) /\ Len(rest) = need - Len(sound)
    BY <1>1, <1>6, <2>2, SilenceCells DEF from, to
  <2> HIDE DEF rest
  <2>4. out \in Seq(R) /\ Len(out) = need
    <3>1. out \in Seq(R) /\ Len(out) = Len(sound) + Len(rest)
      BY <1>4, <2>3, ConcatProperties
    <3>2. Len(sound) \in Nat
      BY <1>2, <1>4
    <3> QED BY <1>1, <2>3, <3>1, <3>2
  <2> HIDE DEF out
  <2>5. \A i \in 1 .. need : out[i] \in R
    BY <2>4, <1>1
  <2>6. \A i \in 1 .. need : {out[i].left, out[i].right} \subseteq from .. to
    BY <2>5 DEF R, Between
  <2>7. out \in Seq(Cells)
    BY <1>5, <2>4, SeqMonotonic
  <2> QED BY <1>2, <1>4, <2>4, <2>6, <2>7 DEF out, rest, held, sound, numbered, from, to
<1>8. CASE got = 0
  <2>1. Len(sound) = 0 /\ sound = <<>>
    BY <1>1, <1>2, <1>4, <1>8 DEF Min2
  <2>2. held = last /\ last \in Between(-1, Frames) /\ Between(-1, Frames) = Cells
    BY <2>1 DEF Held, TypeOK, Cells, Between
  <2> HIDE DEF held
  <2>3. rest \in Seq(Cells) /\ Len(rest) = need /\ \A i \in 1 .. need : rest[i].left = last.left
    <3>1. need - Len(sound) = need /\ Frames \in Int /\ -1 \in Int /\ last \in Between(-1, Frames)
      BY <1>1, <2>1, <2>2
    <3>2. rest = Silence(need, last)
      BY <2>2, <3>1
    <3> HIDE DEF rest
    <3>3. /\ Silence(need, last) \in Seq(Between(-1, Frames)) /\ Len(Silence(need, last)) = need
          /\ \A i \in 1 .. need : Silence(need, last)[i].left = last.left
      <4>1. need \in Nat
        BY <1>1
      <4> QED BY <3>1, <4>1, SilenceCells
    <3> QED BY <2>2, <3>2, <3>3
  <2> HIDE DEF rest
  <2>4. out = rest
    BY <2>1, <2>3, ConcatEmptySeq
  <2> QED BY <1>2, <1>4, <1>8, <2>3, <2>4 DEF out, rest, held, sound, numbered
<1> QED BY <1>1, <1>7, <1>8

LEMMA InitIInv == Init => IInv
<1> SUFFICES ASSUME Init PROVE IInv
  OBVIOUS
<1>1. output \in Seq(Cells) /\ last \in Cells
  BY Sizes DEF Init, NoCell, Cells
<1>2. TypeOK
  <2>1. written \in 0 .. Frames /\ consumed \in 0 .. Frames /\ Buffered \in 0 .. Capacity
    BY Sizes DEF Init, Buffered
  <2>2. {bufferLow, wrote, baseline, surplus, cut, recovering} \subseteq BOOLEAN
    BY DEF Init
  <2>3. settings \in 0 .. 3 /\ buffered \in 0 .. Capacity /\ speed \in 0 .. MaxSpeed
        /\ want \in 0 .. Frames /\ got \in 0 .. Frames /\ need = 0 /\ rpc = "wait"
    BY Sizes DEF Init
  <2> QED BY <1>1, <2>1, <2>2, <2>3 DEF TypeOK
<1>3. Planned /\ OutputFilled
  BY DEF Init, Planned, OutputFilled
<1> QED BY <1>2, <1>3 DEF IInv

\* What main does while the render thread is between two of its steps.
LEMMA MainKeeps ==
  ASSUME IInv, MainSets \/ (\E n \in Batches : MainWrites(n)) \/ MainClearsLow
  PROVE  IInv'
<1> USE DEF IInv
<1>1. CASE MainSets
  <2>1. TypeOK'
    BY <1>1, Sizes DEF TypeOK, MainSets, ring, local, Buffered
  <2>2. Planned' /\ OutputFilled'
    BY <1>1 DEF MainSets, ring, local, Planned, OutputFilled, Buffered
  <2> QED BY <2>1, <2>2
<1>2. CASE \E n \in Batches : MainWrites(n)
  <2>1. PICK n \in Batches : MainWrites(n)
    BY <1>2
  <2>2. /\ n \in Nat /\ written \in Nat /\ consumed \in Nat /\ Frames \in Nat
        /\ Capacity \in Nat /\ Room \in 0 .. Capacity
    <3>1. n \in Nat /\ Frames \in Nat /\ Capacity \in Nat
      BY Sizes
    <3>2. written \in 0 .. Frames /\ consumed \in 0 .. Frames /\ Buffered \in 0 .. Capacity
      BY DEF TypeOK
    <3>3. Room \in 0 .. Capacity
      BY <3>1, <3>2 DEF Room
    <3> QED BY <3>1, <3>2, <3>3
  <2>3. /\ Min2(n, Room) \in Nat /\ Min2(n, Room) <= n /\ Min2(n, Room) <= Room
    BY <2>2 DEF Min2
  <2>4. written' = written + Min2(n, Room) /\ written + n <= Frames /\ consumed' = consumed
    BY <2>1 DEF MainWrites, local
  <2>5. written' \in 0 .. Frames /\ Buffered' \in 0 .. Capacity /\ Buffered' >= Buffered
    BY <2>2, <2>3, <2>4 DEF Buffered, Room
  <2>6. TypeOK'
    BY <2>1, <2>5, Sizes DEF TypeOK, MainWrites, local
  <2>7. Planned'
    <3>1. want \in Int /\ buffered \in Int /\ Buffered \in Int /\ Buffered' \in Int
      BY <2>5, Sizes DEF TypeOK
    <3> QED BY <2>1, <2>5, <3>1 DEF MainWrites, local, Planned
  <2>8. OutputFilled'
    BY <2>1 DEF MainWrites, local, OutputFilled
  <2> QED BY <2>6, <2>7, <2>8
<1>3. CASE MainClearsLow
  <2>1. TypeOK'
    BY <1>3, Sizes DEF TypeOK, MainClearsLow, ring, local, Buffered
  <2>2. Planned' /\ OutputFilled'
    BY <1>3 DEF MainClearsLow, ring, local, Planned, OutputFilled, Buffered
  <2> QED BY <2>1, <2>2
<1> QED BY <1>1, <1>2, <1>3

\* The speed stays below the limit it is chosen by, and is normal unless there is a surplus.
LEMMA SpeedChosen ==
  ASSUME TypeOK, NEW target \in Targets
  PROVE  /\ NewSpeed(target) \in 0 .. MaxSpeed \cup 0 .. DefaultMaxSpeed
         /\ NewSpeed(target) > 0 => surplus
<1>1. /\ speed \in Nat /\ Climb \in Nat /\ maxSpeed \in {MaxSpeed, DefaultMaxSpeed}
      /\ MaxSpeed \in Nat /\ DefaultMaxSpeed \in Nat
  BY Sizes DEF TypeOK, maxSpeed
<1>2. target \in 0 .. maxSpeed /\ (target > 0 => surplus)
  BY <1>1 DEF Targets
<1>3. NewSpeed(target) \in Nat /\ NewSpeed(target) <= target
  BY <1>1, <1>2 DEF NewSpeed, Min2
<1> QED BY <1>1, <1>2, <1>3

LEMMA RenderKeeps ==
  ASSUME IInv, \/ \E n \in Needs : DeviceAsks(n)
               \/ LookAtBacklog \/ LookAtProtect \/ ChooseSpeed
               \/ Ask \/ Plan \/ Read \/ Fill \/ Release
  PROVE  IInv'
<1> USE DEF IInv
<1>1. CASE \E n \in Needs : DeviceAsks(n)
  <2>1. PICK n \in Needs : DeviceAsks(n)
    BY <1>1
  <2>2. TypeOK'
    BY <2>1, Sizes DEF TypeOK, DeviceAsks, ring, shared, Buffered
  <2>3. Planned' /\ OutputFilled'
    BY <2>1 DEF DeviceAsks, Planned, OutputFilled
  <2> QED BY <2>2, <2>3
<1>2. CASE LookAtBacklog \/ LookAtProtect
  <2>1. TypeOK'
    <3>1. 0 \in 0 .. Capacity /\ Buffered \in 0 .. Capacity
      BY Sizes DEF TypeOK
    <3>2. buffered' \in 0 .. Capacity /\ rpc' \in {"protect", "speed"}
      BY <1>2, <3>1 DEF LookAtBacklog, LookAtProtect
    <3>3. {baseline', surplus'} \subseteq BOOLEAN
      <4>1. CASE LookAtBacklog
        <5>1. SpeedsUp = TRUE \/ SpeedsUp = FALSE
          BY DEF SpeedsUp
        <5>2. baseline' \in BOOLEAN
          BY <4>1, <5>1, Zenon DEF LookAtBacklog
        <5> QED BY <4>1, <5>2 DEF LookAtBacklog, TypeOK
      <4>2. CASE LookAtProtect
        <5>1. surplus' \in BOOLEAN
          BY <4>2, Zenon DEF LookAtProtect
        <5> QED BY <4>2, <5>1 DEF LookAtProtect, TypeOK
      <4> QED BY <1>2, <4>1, <4>2
    <3> QED BY <1>2, <3>2, <3>3 DEF TypeOK, LookAtBacklog, LookAtProtect, ring, shared, Buffered
  <2>2. Planned' /\ OutputFilled'
    BY <1>2 DEF LookAtBacklog, LookAtProtect, Planned, OutputFilled
  <2> QED BY <2>1, <2>2
<1>3. CASE ChooseSpeed
  <2>1. PICK target \in Targets : speed' = NewSpeed(target)
    BY <1>3 DEF ChooseSpeed
  <2>2. /\ speed' \in 0 .. MaxSpeed \cup 0 .. DefaultMaxSpeed
        /\ speed' > 0 => surplus
    BY <2>1, SpeedChosen
  <2>3. need \in Needs /\ need \in Nat
    BY <1>3, Sizes DEF ChooseSpeed, Planned
  <2>4. TypeOK'
    <3>1. 0 \in 0 .. Frames /\ rpc' \in {"ask", "read"}
      BY <1>3, Sizes DEF ChooseSpeed
    <3> QED BY <1>3, <2>2, <2>3, <3>1 DEF TypeOK, ChooseSpeed, ring, shared, Buffered
  <2>5. Planned'
    <3>1. rpc' \in {"ask", "read"} /\ want' = need /\ need' = need /\ surplus' = surplus
      BY <1>3 DEF ChooseSpeed
    <3> QED BY <2>2, <2>3, <3>1 DEF Planned
  <2>6. OutputFilled'
    BY <1>3 DEF ChooseSpeed, OutputFilled
  <2> QED BY <2>4, <2>5, <2>6
<1>4. CASE Ask
  <2>1. TypeOK'
    BY <1>4 DEF TypeOK, Ask, ring, shared, Buffered
  <2>2. Planned'
    <3>1. /\ rpc = "ask" /\ rpc' = "plan" /\ buffered' = Buffered /\ Buffered' = Buffered
          /\ need' = need /\ surplus' = surplus /\ speed' = speed
      BY <1>4 DEF Ask, ring, Buffered
    <3>2. Buffered \in Int
      BY DEF TypeOK
    <3> QED BY <3>1, <3>2 DEF Planned
  <2>3. OutputFilled'
    BY <1>4 DEF Ask, OutputFilled
  <2> QED BY <2>1, <2>2, <2>3
<1>5. CASE Plan
  <2> DEFINE limited == Min2(speed, maxSpeed)
  <2>1. /\ need \in Needs /\ need \in Nat /\ buffered \in Nat /\ buffered <= Buffered
        /\ Buffered \in Nat /\ Buffered <= Frames
    BY <1>5, Sizes DEF Plan, Planned, TypeOK, Buffered
  <2>2. limited \in Nat /\ limited <= speed /\ speed \in Nat
    BY Sizes DEF TypeOK, maxSpeed, Min2
  <2> HIDE DEF limited
  <2>3. /\ want' = Wanted(need, limited, buffered)
        /\ want' \in Nat /\ want' <= buffered
        /\ want' > need => limited > Slow
    BY <1>5, <2>1, <2>2, WantedBounds DEF Plan, limited
  <2>4. want' > need => surplus
    BY <1>5, <2>2, <2>3, Sizes DEF Plan, Planned
  <2>5. TypeOK'
    <3>1. want' \in 0 .. Frames /\ 0 \in 0 .. Capacity
      BY <2>1, <2>3, Sizes
    <3> QED BY <1>5, <3>1 DEF TypeOK, Plan, ring, shared, Buffered
  <2>6. Planned'
    <3>1. rpc' = "read" /\ need' = need /\ Buffered' = Buffered /\ surplus' = surplus
      BY <1>5 DEF Plan, ring, Buffered
    <3>2. want' <= Buffered
      BY <2>1, <2>3
    <3> QED BY <2>1, <2>4, <3>1, <3>2 DEF Planned
  <2>7. OutputFilled'
    BY <1>5 DEF Plan, OutputFilled
  <2> QED BY <2>5, <2>6, <2>7
<1>6. CASE Read
  <2>1. /\ want \in Nat /\ written \in Nat /\ consumed \in Nat /\ written <= Frames
        /\ Buffered = written - consumed /\ Buffered \in 0 .. Capacity
        /\ Capacity \in Nat /\ Frames \in Nat
    BY Sizes DEF TypeOK, Buffered
  <2>2. /\ got' \in Nat /\ got' <= want /\ got' <= Buffered
        /\ want <= Buffered => got' = want
    BY <1>6, <2>1 DEF Read, Min2
  <2>3. consumed' = consumed + got' /\ written' = written
    BY <1>6 DEF Read
  <2>4. /\ consumed' \in 0 .. Frames /\ got' \in 0 .. Frames /\ got' <= consumed'
        /\ Buffered' \in 0 .. Capacity
    <3> DEFINE g == got'
    <3>1. g \in Nat /\ g <= written - consumed
      BY <2>1, <2>2
    <3> HIDE DEF g
    <3>2. consumed + g \in 0 .. Frames /\ g \in 0 .. Frames /\ g <= consumed + g
          /\ written - (consumed + g) \in 0 .. Capacity
      BY <2>1, <3>1
    <3> QED BY <2>3, <3>2 DEF Buffered, g
  <2>5. TypeOK'
    BY <1>6, <2>3, <2>4 DEF TypeOK, Read, shared
  <2>6. Planned'
    <3>1. /\ rpc = "read" /\ rpc' = "fill" /\ want' = want /\ need' = need
          /\ surplus' = surplus
      BY <1>6 DEF Read
    <3> QED BY <2>2, <2>4, <3>1 DEF Planned
  <2>7. OutputFilled'
    BY <1>6 DEF Read, OutputFilled
  <2> QED BY <2>5, <2>6, <2>7
<1>7. CASE Fill
  <2> DEFINE sound(s) == Risen(Numbered(s))
             out(s) == sound(s) \o Silence(need - Len(sound(s)), Held(sound(s)))
  <2>1. PICK s \in Sounds(need, got) :
          /\ output' = out(s)
          /\ recovering' = (Len(sound(s)) < need)
          /\ bufferLow' = (Len(sound(s)) < need \/ bufferLow)
    BY <1>7 DEF Fill, RecoveringAfter
  <2>2. rpc = "fill"
    BY <1>7 DEF Fill
  <2>3. /\ Len(sound(s)) = Min2(need, got)
        /\ out(s) \in Seq(Cells) /\ Len(out(s)) = need
        /\ \A i \in 1 .. need :
             \/ {out(s)[i].left, out(s)[i].right} \subseteq consumed - got .. consumed - 1
             \/ got = 0 /\ out(s)[i].left = last.left
    BY <2>2, FillCells
  <2> HIDE DEF sound, out
  <2>4. need \in Nat /\ got \in Nat
    BY Sizes DEF TypeOK
  <2>5. TypeOK'
    <3>1. recovering' \in BOOLEAN /\ bufferLow' \in BOOLEAN
      BY <2>1
    <3> QED BY <1>7, <2>1, <2>3, <3>1 DEF TypeOK, Fill, ring, Buffered
  <2>6. Planned'
    BY <1>7 DEF Fill, Planned, ring
  <2>7. OutputFilled'
    <3>1. recovering' <=> got < need
      <4>1. Len(sound(s)) < need <=> got < need
        BY <2>3, <2>4 DEF Min2
      <4> QED BY <2>1, <4>1, Zenon
    <3> QED BY <1>7, <2>1, <2>3, <3>1 DEF Fill, OutputFilled, ring
  <2> QED BY <2>5, <2>6, <2>7
<1>8. CASE Release
  <2>1. rpc = "release" /\ need \in Needs /\ need \in Nat /\ need > 0
    <3>1. rpc = "release" /\ need \in Needs
      BY <1>8 DEF Release, Planned
    <3> QED BY <3>1, Sizes
  <2>2. Len(output) = need /\ Remembered \in Cells
    <3>1. Len(output) = need /\ output \in Seq(Cells)
      BY <2>1 DEF OutputFilled, TypeOK
    <3>2. need \in 1 .. Len(output)
      BY <2>1, <3>1
    <3> QED BY <3>1, <3>2 DEF Remembered
  <2>3. TypeOK'
    <3>1. cut' \in BOOLEAN /\ surplus' = FALSE /\ output' = <<>> /\ last' \in Cells
      BY <1>8, <2>2 DEF Release
    <3>2. 0 \in 0 .. Frames /\ <<>> \in Seq(Cells)
      BY Sizes
    <3> QED BY <1>8, <3>1, <3>2 DEF TypeOK, Release, ring, shared, Buffered
  <2>4. Planned' /\ OutputFilled'
    BY <1>8 DEF Release, Planned, OutputFilled
  <2> QED BY <2>3, <2>4
<1> QED BY <1>1, <1>2, <1>3, <1>4, <1>5, <1>6, <1>7, <1>8

LEMMA NextIInv == IInv /\ [Next]_vars => IInv'
<1> SUFFICES ASSUME IInv, [Next]_vars PROVE IInv'
  OBVIOUS
<1>1. CASE Next
  BY <1>1, MainKeeps, RenderKeeps DEF Next
<1>2. CASE UNCHANGED vars
  <2>1. TypeOK'
    BY <1>2 DEF vars, ring, shared, local, IInv, TypeOK, Buffered
  <2>2. Planned' /\ OutputFilled'
    BY <1>2 DEF vars, ring, shared, local, IInv, Planned, OutputFilled, Buffered
  <2> QED BY <2>1, <2>2 DEF IInv
<1> QED BY <1>1, <1>2

LEMMA Invariant == Spec => []IInv
BY InitIInv, NextIInv, PTL DEF Spec

-------------------------------------------------------------------------------
(* The theorems.                                                           *)

\* The ring never holds more than it can and gives nothing it does not hold, and the speed
\* stays below its limit: main and the render thread, writePcm() and renderThread().
THEOREM Typed == Spec => []TypeOK
BY Invariant, PTL DEF IInv

\* Each buffer the device asks for is filled, once, with frames of this read, however many
\* there were: renderPitchPreserved() and fillSmoothSilence().
THEOREM Filled == Spec => []OutputFilled
BY Invariant, PTL DEF IInv

\* What renderPitchPreserved() planned from availableToRead() is what read() gives.
THEOREM PlanHolds == Spec => []ReadAsPlanned
<1>1. IInv => ReadAsPlanned
  BY DEF IInv, Planned, ReadAsPlanned
<1> QED BY <1>1, Invariant, PTL

\* Frames are left out only when more than protect was buffered and none are missing: the
\* speed control of renderThread().
THEOREM FromSurplus == Spec => []SkipsOnlySurplus
<1>1. IInv => SkipsOnlySurplus
  <2> SUFFICES ASSUME IInv, rpc = "release", got > need
               PROVE  surplus /\ ~recovering
    BY DEF SkipsOnlySurplus
  <2>1. need \in Nat /\ got \in Nat /\ want \in Nat
    BY Sizes DEF IInv, TypeOK
  <2>2. got <= want /\ (want > need => surplus)
    BY DEF IInv, Planned
  <2>3. recovering <=> got < need
    BY DEF IInv, OutputFilled
  <2> QED BY <2>1, <2>2, <2>3
<1> QED BY <1>1, Invariant, PTL


-------------------------------------------------------------------------------
(* The sound has no steps.                                                 *)

\* A pair of frames that is heard as one after the other.
Smooth(c, d) == Continues(c, d) \/ Holds(c, d)

\* The gain changes by at most one step of a fade, and silence stays.
Level(c, d) ==
  IF IsSilent(c) THEN IsSilent(d)
  ELSE LET step == Min2(c.gain[2], d.gain[2]) IN GainChange(c, d) \in -step .. step

\* A copy or a splice begins with the first frame that was read, goes on without a break
\* over a skip, too, and ends with the last one unless it was cut short.
LEMMA SoundRuns ==
  ASSUME NEW out \in Nat, NEW have \in Nat, out > 0, have > 0, NEW s \in Sounds(out, have)
  PROVE  /\ \A i \in 1 .. Len(s) : s[i].gain = Full
         /\ \A i \in 1 .. Len(s) - 1 : s[i].right + 1 \in {s[i + 1].left, s[i + 1].right}
         /\ s[1].left = 0
         /\ have <= out \/ ~CutsShort(out) => s[Len(s)].right = have - 1
<1>1. ASSUME NEW l, NEW r
      PROVE  Cell(l, r).left = l /\ Cell(l, r).right = r /\ Cell(l, r).gain = Full
  BY DEF Cell
<1>2. ASSUME NEW n \in Nat, n > 0
      PROVE  /\ Len(Copy(n)) = n /\ \A i \in 1 .. n : Copy(n)[i] = Cell(i - 1, i - 1)
  <2>1. Copy(n) \in [1 .. n -> {Cell(i - 1, i - 1) : i \in 1 .. n}]
    BY DEF Copy
  <2> QED BY <2>1, SeqOfFunction DEF Copy
<1>3. CASE have <= out \/ CutsShort(out)
  <2> DEFINE n == IF have <= out THEN have ELSE out
  <2>1. s = Copy(n) /\ n \in Nat /\ n > 0 /\ (have <= out \/ ~CutsShort(out) => n = have)
    BY <1>3 DEF Sounds
  <2> HIDE DEF n
  <2>2. Len(s) = n /\ \A i \in 1 .. n : s[i] = Cell(i - 1, i - 1)
    BY <1>2, <2>1
  <2>3. \A i \in 1 .. n : s[i].left = i - 1 /\ s[i].right = i - 1 /\ s[i].gain = Full
    BY <1>1, <2>2
  <2>4. \A i \in 1 .. n - 1 : i \in 1 .. n /\ i + 1 \in 1 .. n
    BY <2>1
  <2>5. 1 \in 1 .. n /\ n \in 1 .. n
    BY <2>1
  <2>6. ASSUME NEW i \in 1 .. n - 1 PROVE s[i].right + 1 = s[i + 1].left
    <3>1. s[i].right = i - 1 /\ s[i + 1].left = (i + 1) - 1
      BY <2>3, <2>4
    <3> QED BY <3>1, <2>1
  <2>7. s[1].left = 0 /\ s[n].right = n - 1
    BY <2>3, <2>5
  <2> QED BY <2>1, <2>2, <2>3, <2>6, <2>7
<1>4. CASE have > out /\ ~CutsShort(out)
  <2> DEFINE fade == FadeLength(out)
             skip == have - out
  <2>1. fade \in Nat /\ fade >= 2 /\ fade < out
    <3>1. fade \in Nat /\ fade <= out
      BY FadeFits
    <3> QED BY <1>4, <3>1 DEF CutsShort
  <2>2. PICK at \in SkipStarts(have, have - out, fade) : s = Splice(out, have, fade, at)
    BY <1>4 DEF Sounds
  <2>3. at \in Nat /\ at + fade <= out
    BY <1>4, <2>1, <2>2 DEF SkipStarts
  <2> HIDE DEF fade
  <2>4. /\ Len(s) = out
        /\ \A i \in 1 .. out :
             s[i] = Cell(IF i <= at + fade THEN i - 1 ELSE skip + i - 1,
                         IF i <= at THEN i - 1 ELSE skip + i - 1)
    <3>1. have > out /\ at + fade <= out /\ fade \in Nat /\ at \in Nat
      BY <1>4, <2>1, <2>3
    <3> HIDE <1>4
    <3>2. /\ Len(Splice(out, have, fade, at)) = out
          /\ \A i \in 1 .. out :
               Splice(out, have, fade, at)[i]
                 = Cell(IF i <= at + fade THEN i - 1 ELSE (have - out) + i - 1,
                        IF i <= at THEN i - 1 ELSE (have - out) + i - 1)
      BY <3>1, SpliceFills
    <3> QED BY <2>2, <3>2
  <2>5. skip \in Nat
    BY <1>4
  <2>6. \A i \in 1 .. out :
          /\ s[i].left = IF i <= at + fade THEN i - 1 ELSE skip + i - 1
          /\ s[i].right = IF i <= at THEN i - 1 ELSE skip + i - 1
          /\ s[i].gain = Full
    BY <1>1, <2>4
  <2> HIDE DEF skip
  <2>7. ASSUME NEW i \in 1 .. out - 1
        PROVE  s[i].right + 1 \in {s[i + 1].left, s[i + 1].right}
    <3>1. i \in 1 .. out /\ i + 1 \in 1 .. out /\ i \in Nat
      OBVIOUS
    <3>2. /\ s[i].right = IF i <= at THEN i - 1 ELSE skip + i - 1
          /\ s[i + 1].left = IF i + 1 <= at + fade THEN (i + 1) - 1 ELSE skip + (i + 1) - 1
          /\ s[i + 1].right = IF i + 1 <= at THEN (i + 1) - 1 ELSE skip + (i + 1) - 1
      BY <2>6, <3>1
    <3>3. CASE i <= at
      <4>1. s[i].right + 1 = s[i + 1].left
        BY <2>1, <2>3, <3>1, <3>2, <3>3
      <4> QED BY <4>1
    <3>4. CASE i > at
      <4>1. s[i].right + 1 = s[i + 1].right
        BY <2>3, <2>5, <3>1, <3>2, <3>4
      <4> QED BY <4>1
    <3> QED BY <2>3, <3>1, <3>3, <3>4
  <2>8. s[1].left = 0
    <3>1. 1 \in 1 .. out /\ 1 <= at + fade
      BY <2>1, <2>3
    <3> QED BY <2>6, <3>1
  <2>9. s[out].right = have - 1
    <3>1. out \in 1 .. out /\ ~(out <= at)
      BY <2>1, <2>3
    <3>2. s[out].right = skip + out - 1
      BY <2>6, <3>1
    <3> QED BY <3>2 DEF skip
  <2>10. \A i \in 1 .. out : s[i].gain = Full
    BY <2>6
  <2>11. Len(s) = out
    BY <2>4
  <2> QED BY <2>7, <2>8, <2>9, <2>10, <2>11, Zenon
<1>5. have <= out \/ have > out
  OBVIOUS
<1> QED BY <1>3, <1>4, <1>5, Zenon

LEMMA LevelOnFade ==
  ASSUME NEW c, NEW d, NEW i \in Nat, NEW f \in Nat, i > 0, f > 0,
         c.gain = <<i, f>>, d.gain \in {<<i + 1, f>>, <<i - 1, f>>}
  PROVE  Level(c, d)
<1>1. ~IsSilent(c) /\ c.gain[1] = i /\ c.gain[2] = f
  BY DEF IsSilent
<1>2. d.gain[2] = f /\ d.gain[1] \in {i + 1, i - 1}
  OBVIOUS
<1>3. Min2(c.gain[2], d.gain[2]) = f
  BY <1>1, <1>2 DEF Min2
<1>4. GainChange(c, d) = i * f - d.gain[1] * f
  BY <1>1, <1>2 DEF GainChange
<1>5. i * f - (i + 1) * f = -f /\ i * f - (i - 1) * f = f
  OBVIOUS
<1>6. -f \in -f .. f /\ f \in -f .. f
  OBVIOUS
<1> QED BY <1>1, <1>2, <1>3, <1>4, <1>5, <1>6 DEF Level

LEMMA LevelAtFull ==
  ASSUME NEW c, NEW d, NEW f \in Nat, f > 0,
         \/ c.gain = Full /\ d.gain = Full
         \/ c.gain = Full /\ d.gain = <<f - 1, f>>
         \/ c.gain = <<f - 1, f>> /\ d.gain = Full /\ f > 1
  PROVE  Level(c, d)
<1>1. ~IsSilent(c)
  BY DEF IsSilent, Full
<1>2. Min2(c.gain[2], d.gain[2]) = 1
  BY DEF Min2, Full
<1>3. GainChange(c, d) \in -1 .. 1
  BY DEF GainChange, Full
<1> QED BY <1>1, <1>2, <1>3 DEF Level

\* The sound of a callback, numbered and perhaps faded in.
LEMMA RisenSound ==
  ASSUME need \in Nat, need > 0, got \in Nat, got > 0, consumed \in Nat, got <= consumed,
         recovering \in BOOLEAN, NEW s \in Sounds(need, got)
  PROVE  LET sound == Risen(Numbered(s))
             n     == Min2(need, got)
         IN  /\ sound \in Seq(Between(consumed - got, consumed - 1)) /\ Len(sound) = n
             /\ \A i \in 1 .. n - 1 : Continues(sound[i], sound[i + 1])
                                      /\ Level(sound[i], sound[i + 1])
             /\ sound[1].left = consumed - got
             /\ sound[1].gain = IF recovering THEN <<1, Min2(n, SilenceFade)>> ELSE Full
             /\ sound[n].gain = Full
             /\ got <= need \/ ~CutsShort(need) => sound[n].right = consumed - 1
<1> DEFINE numbered == Numbered(s)
           sound == Risen(numbered)
           n == Min2(need, got)
           fade == Min2(n, SilenceFade)
           R == Between(consumed - got, consumed - 1)
           gain(i) == IF recovering /\ i < fade THEN <<i, fade>> ELSE Full
<1>1. n \in Nat /\ n > 0 /\ fade \in Nat /\ fade > 0 /\ fade <= n
  BY Sizes DEF Min2
<1>2. s \in Seq(Between(0, got - 1)) /\ Len(s) = n
  BY SoundFills
<1>3. /\ \A i \in 1 .. n : s[i].gain = Full
      /\ \A i \in 1 .. n - 1 : s[i].right + 1 \in {s[i + 1].left, s[i + 1].right}
      /\ s[1].left = 0
      /\ got <= need \/ ~CutsShort(need) => s[n].right = got - 1
  <2> HIDE DEF n
  <2> QED BY <1>2, SoundRuns
<1>4. /\ numbered \in Seq(R) /\ Len(numbered) = n
      /\ \A i \in 1 .. n : /\ numbered[i].left = s[i].left + consumed - got
                           /\ numbered[i].right = s[i].right + consumed - got
                           /\ numbered[i].gain = s[i].gain
  BY <1>2, NumberedCells
<1> HIDE DEF numbered, n
<1>5. /\ sound \in Seq(R) /\ Len(sound) = n
      /\ \A i \in 1 .. n : /\ sound[i].left = numbered[i].left
                           /\ sound[i].right = numbered[i].right
                           /\ sound[i].gain = gain(i)
  <2>1. CASE recovering
    <3>1. sound = FadedIn(numbered)
      BY <1>1, <1>4, <2>1 DEF Risen
    <3>2. consumed - got \in Int /\ consumed - 1 \in Int
      OBVIOUS
    <3> HIDE DEF sound, fade
    <3>3. /\ FadedIn(numbered) \in Seq(R) /\ Len(FadedIn(numbered)) = n
          /\ \A i \in 1 .. n :
               /\ FadedIn(numbered)[i].left = numbered[i].left
               /\ FadedIn(numbered)[i].right = numbered[i].right
               /\ FadedIn(numbered)[i].gain = IF i < fade THEN <<i, fade>>
                                                          ELSE numbered[i].gain
      BY <1>4, <3>2, FadedInCells DEF fade
    <3> QED BY <1>3, <1>4, <2>1, <3>1, <3>3
  <2>2. CASE ~recovering
    BY <1>3, <1>4, <2>2 DEF Risen
  <2> QED BY <2>1, <2>2
<1> HIDE DEF sound, R
<1>6. \A i \in 1 .. n : /\ sound[i].left = s[i].left + consumed - got
                        /\ sound[i].right = s[i].right + consumed - got
                        /\ s[i].left \in Int /\ s[i].right \in Int
  <2>1. \A i \in 1 .. n : s[i] \in Between(0, got - 1)
    BY <1>2
  <2>2. \A i \in 1 .. n : s[i].left \in 0 .. got - 1 /\ s[i].right \in 0 .. got - 1
    BY <2>1 DEF Between
  <2>3. \A i \in 1 .. n : /\ sound[i].left = numbered[i].left
                          /\ sound[i].right = numbered[i].right
    BY <1>5
  <2>4. \A i \in 1 .. n : /\ numbered[i].left = s[i].left + consumed - got
                          /\ numbered[i].right = s[i].right + consumed - got
    BY <1>4
  <2> QED BY <2>2, <2>3, <2>4
<1>7. ASSUME NEW i \in 1 .. n - 1
      PROVE  Continues(sound[i], sound[i + 1]) /\ Level(sound[i], sound[i + 1])
  <2>1. i \in 1 .. n /\ i + 1 \in 1 .. n /\ i \in Nat /\ i > 0
    BY <1>1
  <2>2. Continues(sound[i], sound[i + 1])
    <3>1. s[i].right + 1 \in {s[i + 1].left, s[i + 1].right}
      BY <1>3
    <3>2. /\ sound[i].right = s[i].right + consumed - got
          /\ sound[i + 1].left = s[i + 1].left + consumed - got
          /\ sound[i + 1].right = s[i + 1].right + consumed - got
          /\ s[i].right \in Int /\ s[i + 1].left \in Int /\ s[i + 1].right \in Int
      BY <1>6, <2>1
    <3>3. sound[i].right + 1 = s[i].right + 1 + consumed - got
      BY <3>2
    <3> QED BY <3>1, <3>2, <3>3 DEF Continues
  <2>3. sound[i].gain = gain(i) /\ sound[i + 1].gain = gain(i + 1)
    BY <1>5, <2>1
  <2> HIDE DEF fade
  <2>4. CASE ~recovering \/ i >= fade
    <3>1. gain(i) = Full /\ gain(i + 1) = Full
      BY <1>1, <2>1, <2>4
    <3> QED BY <1>1, <2>2, <2>3, <3>1, LevelAtFull
  <2>5. CASE recovering /\ i = fade - 1
    <3>1. gain(i) = <<fade - 1, fade>> /\ gain(i + 1) = Full /\ fade > 1
      BY <1>1, <2>1, <2>5
    <3> QED BY <1>1, <2>2, <2>3, <3>1, LevelAtFull
  <2>6. CASE recovering /\ i + 1 < fade
    <3>1. gain(i) = <<i, fade>> /\ gain(i + 1) = <<i + 1, fade>>
      BY <1>1, <2>1, <2>6
    <3> QED BY <1>1, <2>1, <2>2, <2>3, <3>1, LevelOnFade
  <2> QED BY <1>1, <2>1, <2>4, <2>5, <2>6
<1>8. sound[1].left = consumed - got
  <2>1. 1 \in 1 .. n
    BY <1>1
  <2> QED BY <1>3, <1>6, <2>1
<1>9. got <= need \/ ~CutsShort(need) => sound[n].right = consumed - 1
  <2>1. n \in 1 .. n
    BY <1>1
  <2> QED BY <1>3, <1>6, <2>1
<1>10. sound[1].gain = IF recovering THEN <<1, fade>> ELSE Full
  <2>1. 1 \in 1 .. n /\ sound[1].gain = gain(1)
    BY <1>1, <1>5
  <2> HIDE DEF fade
  <2> QED BY <1>1, <2>1 DEF Full
<1>11. sound[n].gain = Full
  <2>1. n \in 1 .. n /\ sound[n].gain = gain(n) /\ ~(n < fade)
    BY <1>1, <1>5
  <2> QED BY <2>1
<1> QED BY <1>5, <1>7, <1>8, <1>9, <1>10, <1>11 DEF sound, numbered, n, R

\* The frame that is held dies away, and stays silent.
LEMMA SilenceFalls ==
  ASSUME NEW from \in Int, NEW to \in Int, NEW held \in Between(from, to),
         IsSilent(held) \/ held.gain = Full, NEW n \in Nat, n > 0
  PROVE  LET r == Silence(n, held)
         IN  /\ Holds(held, r[1]) /\ Level(held, r[1])
             /\ \A i \in 1 .. n - 1 : Holds(r[i], r[i + 1]) /\ Level(r[i], r[i + 1])
             /\ IsSilent(r[n])
<1> DEFINE r == Silence(n, held)
           fade == Min2(n, SilenceFade)
           gain(i) == GainOfSilence(held, n, i)
<1>1. fade \in Nat /\ fade > 0 /\ fade <= n
  BY Sizes DEF Min2
<1>2. \A i \in 1 .. n : r[i].left = held.left /\ r[i].right = held.right /\ r[i].gain = gain(i)
  BY SilenceCells
<1>3. 1 \in 1 .. n /\ n \in 1 .. n
  OBVIOUS
<1>4. CASE IsSilent(held)
  <2>1. \A i \in 1 .. n : gain(i) = <<0, 1>>
    BY <1>4 DEF GainOfSilence, IsSilent
  <2> HIDE DEF r, gain
  <2>2. \A i \in 1 .. n : /\ r[i].left = held.left /\ r[i].right = held.right
                          /\ r[i].gain[1] = 0 /\ r[i].gain[2] = 1
    BY <1>2, <2>1
  <2>3. \A i \in 1 .. n : Holds(held, r[i]) /\ Level(held, r[i]) /\ IsSilent(r[i])
    BY <1>4, <2>2 DEF Holds, Level, IsSilent
  <2>4. ASSUME NEW i \in 1 .. n - 1 PROVE Holds(r[i], r[i + 1]) /\ Level(r[i], r[i + 1])
    <3>1. i \in 1 .. n /\ i + 1 \in 1 .. n
      OBVIOUS
    <3> QED BY <2>2, <2>3, <3>1 DEF Holds, Level
  <2> QED BY <1>3, <2>3, <2>4 DEF r
<1>5. CASE held.gain = Full
  <2>1. ASSUME NEW i \in 1 .. n
        PROVE  /\ i < fade => gain(i) = <<fade - i, fade>>
               /\ ~(i < fade) => gain(i) = <<0, fade>>
    <3>1. held.gain[1] # 0
      BY <1>5 DEF Full
    <3> QED BY <3>1 DEF GainOfSilence
  <2> HIDE DEF r, gain, fade
  <2>2. \A i \in 1 .. n : /\ r[i].left = held.left /\ r[i].right = held.right
                          /\ i < fade => r[i].gain = <<fade - i, fade>>
                          /\ ~(i < fade) => r[i].gain = <<0, fade>>
    BY <1>2, <2>1
  <2>3. ASSUME NEW i \in 1 .. n PROVE r[i].gain[1] < r[i].gain[2]
    <3>1. CASE i < fade
      <4>1. r[i].gain[1] = fade - i /\ r[i].gain[2] = fade
        BY <2>2, <3>1
      <4> QED BY <1>1, <4>1
    <3>2. CASE ~(i < fade)
      <4>1. r[i].gain[1] = 0 /\ r[i].gain[2] = fade
        BY <2>2, <3>2
      <4> QED BY <1>1, <4>1
    <3> QED BY <3>1, <3>2
  <2>4. Holds(held, r[1]) /\ Level(held, r[1])
    <3>1. r[1].gain = <<fade - 1, fade>>
      <4>1. CASE 1 < fade
        BY <1>3, <2>2, <4>1
      <4>2. CASE fade = 1
        BY <1>3, <2>2, <4>2
      <4> QED BY <1>1, <4>1, <4>2
    <3>2. Level(held, r[1])
      BY <1>1, <1>5, <3>1, LevelAtFull
    <3> QED BY <1>3, <2>2, <2>3, <3>2 DEF Holds
  <2>5. ASSUME NEW i \in 1 .. n - 1 PROVE Holds(r[i], r[i + 1]) /\ Level(r[i], r[i + 1])
    <3>1. i \in 1 .. n /\ i + 1 \in 1 .. n /\ i \in Nat
      OBVIOUS
    <3>2. Holds(r[i], r[i + 1])
      BY <2>2, <2>3, <3>1 DEF Holds
    <3>3. CASE i < fade
      <4>1. r[i].gain = <<fade - i, fade>>
        BY <2>2, <3>1, <3>3
      <4>3. fade - i \in Nat /\ fade - i > 0
        BY <1>1, <3>1, <3>3
      <4>2. r[i + 1].gain = <<(fade - i) - 1, fade>>
        <5>1. CASE i + 1 < fade
          <6>1. r[i + 1].gain = <<fade - (i + 1), fade>> /\ fade - (i + 1) = (fade - i) - 1
            BY <1>1, <2>2, <3>1, <5>1
          <6> QED BY <6>1
        <5>2. CASE i + 1 = fade
          <6>1. r[i + 1].gain = <<0, fade>> /\ (fade - i) - 1 = 0
            BY <1>1, <2>2, <3>1, <5>2
          <6> QED BY <6>1
        <5> QED BY <1>1, <3>1, <3>3, <5>1, <5>2
      <4> QED BY <1>1, <3>2, <4>1, <4>2, <4>3, LevelOnFade
    <3>4. CASE ~(i < fade)
      <4>1. ~(i + 1 < fade)
        BY <1>1, <3>1, <3>4
      <4>2. r[i].gain = <<0, fade>> /\ r[i + 1].gain = <<0, fade>>
        BY <2>2, <3>1, <3>4, <4>1
      <4> QED BY <3>2, <4>2 DEF Level, IsSilent
    <3> QED BY <3>3, <3>4
  <2>6. IsSilent(r[n])
    <3>1. r[n].gain = <<0, fade>>
      <4>1. ~(n < fade)
        BY <1>1
      <4> QED BY <1>3, <2>2, <4>1
    <3> QED BY <3>1 DEF IsSilent
  <2> QED BY <2>4, <2>5, <2>6 DEF r
<1> QED BY <1>4, <1>5

\* What the last frame of a callback tells of it: silence is followed by a fade in, and only
\* silence is; sound goes on where the read ended, unless it was cut short.
Behind == IF rpc = "fill" THEN got ELSE 0
LastHeard ==
  rpc # "release" =>
    /\ recovering => IsSilent(last)
    /\ IsSilent(last) => recovering \/ last = NoCell
    /\ IsSilent(last) \/ last.gain = Full
    /\ IsSilent(last) \/ cut \/ last.right + 1 = consumed - Behind

\* The output joins the frame before it, is smooth, and ends as LastHeard says.
Joins(c, d) ==
  /\ Smooth(c, d) \/ IsSilent(c) \/ cut
  /\ Level(c, d) \/ (IsSilent(c) /\ d.gain = <<1, Min2(Min2(got, need), SilenceFade)>>)
EndsWith(c) ==
  IF got < need THEN IsSilent(c)
  ELSE c.gain = Full /\ ((got > need /\ CutsShort(need)) \/ c.right + 1 = consumed)
GoesOn(out) ==
  /\ \A i \in 1 .. need - 1 : Smooth(out[i], out[i + 1]) /\ Level(out[i], out[i + 1])
  /\ last # NoCell => Joins(last, out[1])
  /\ EndsWith(out[need])
OutputGoesOn == rpc = "release" => GoesOn(output)

\* What Fill hands to the device goes on from what was heard before.
LEMMA FillGoesOn ==
  ASSUME IInv, LastHeard, rpc = "fill", NEW s \in Sounds(need, got)
  PROVE  LET sound == Risen(Numbered(s))
         IN  GoesOn(sound \o Silence(need - Len(sound), Held(sound)))
<1> DEFINE R == Between(consumed - got, consumed - 1)
           n == Min2(need, got)
           sound == Risen(Numbered(s))
           held == Held(sound)
           m == need - Len(sound)
           rest == Silence(m, held)
           out == sound \o rest
<1>1. /\ need \in Nat /\ need > 0 /\ got \in Nat /\ consumed \in Nat /\ got <= consumed
      /\ recovering \in BOOLEAN /\ Frames \in Nat
  <2>1. need \in Needs /\ got <= consumed
    BY DEF IInv, Planned
  <2>2. got \in 0 .. Frames /\ consumed \in 0 .. Frames /\ recovering \in BOOLEAN
    BY DEF IInv, TypeOK
  <2> QED BY <2>1, <2>2, Sizes
<1>2. /\ recovering => IsSilent(last)
      /\ IsSilent(last) => recovering \/ last = NoCell
      /\ IsSilent(last) \/ last.gain = Full
      /\ IsSilent(last) \/ cut \/ last.right + 1 = consumed - got
  BY DEF LastHeard, Behind
<1>3. n \in Nat /\ n <= need /\ n = Min2(got, need)
  BY <1>1 DEF Min2
<1>4. CASE got = 0
  <2>1. Len(sound) = 0 /\ sound = <<>>
    <3>1. Numbered(s) \in Seq(R) /\ Len(Numbered(s)) = 0
      <4>1. s \in Seq(Between(0, got - 1)) /\ Len(s) = 0
        BY <1>1, <1>4, SoundFills DEF Min2
      <4> QED BY <1>1, <4>1, NumberedCells
    <3> QED BY <3>1 DEF Risen
  <2>2. held = last /\ last \in Between(-1, Frames)
    BY <2>1 DEF Held, IInv, TypeOK, Cells, Between
  <2>3. m = need
    BY <1>1, <2>1
  <2> HIDE DEF sound, held, m
  <2>4. /\ Holds(last, rest[1]) /\ Level(last, rest[1])
        /\ \A i \in 1 .. need - 1 : Holds(rest[i], rest[i + 1]) /\ Level(rest[i], rest[i + 1])
        /\ IsSilent(rest[need])
    <3>1. Frames \in Int /\ -1 \in Int
      BY <1>1
    <3> QED BY <1>1, <1>2, <2>2, <2>3, <3>1, SilenceFalls
  <2>5. out = rest
    <3>1. rest \in Seq(Between(-1, Frames))
      <4>1. Frames \in Int /\ -1 \in Int
        BY <1>1
      <4> QED BY <1>1, <2>2, <2>3, <4>1, SilenceCells
    <3> HIDE DEF rest
    <3> QED BY <2>1, <3>1, ConcatEmptySeq
  <2> HIDE DEF rest, out
  <2>6. EndsWith(rest[need])
    BY <1>1, <1>4, <2>4 DEF EndsWith
  <2>7. GoesOn(rest)
    BY <2>4, <2>6 DEF GoesOn, Joins, Smooth
  <2> QED BY <2>5, <2>7 DEF out, rest, held, m, sound
<1>5. CASE got > 0
  <2>1. /\ sound \in Seq(R) /\ Len(sound) = n
        /\ \A i \in 1 .. n - 1 : Continues(sound[i], sound[i + 1])
                                 /\ Level(sound[i], sound[i + 1])
        /\ sound[1].left = consumed - got
        /\ sound[1].gain = IF recovering THEN <<1, Min2(n, SilenceFade)>> ELSE Full
        /\ sound[n].gain = Full
        /\ got <= need \/ ~CutsShort(need) => sound[n].right = consumed - 1
    BY <1>1, <1>5, RisenSound
  <2>2. n > 0 /\ (n = need <=> ~(got < need)) /\ n \in 1 .. n /\ 1 \in 1 .. n
    BY <1>1, <1>5 DEF Min2
  <2> HIDE DEF sound, n
  <2>3. held = sound[n] /\ held \in R
    BY <1>3, <2>1, <2>2 DEF Held
  <2>4. m \in Nat /\ m = need - n
    BY <1>1, <1>3, <2>1
  <2> HIDE DEF held, m
  <2>5. rest \in Seq(R) /\ Len(rest) = m
    <3>1. consumed - got \in Int /\ consumed - 1 \in Int
      BY <1>1
    <3> QED BY <2>3, <2>4, <3>1, SilenceCells
  <2>6. m > 0 => /\ Holds(held, rest[1]) /\ Level(held, rest[1])
                 /\ \A i \in 1 .. m - 1 : Holds(rest[i], rest[i + 1])
                                          /\ Level(rest[i], rest[i + 1])
                 /\ IsSilent(rest[m])
    <3>1. consumed - got \in Int /\ consumed - 1 \in Int
      BY <1>1
    <3>2. held.gain = Full
      BY <2>1, <2>3
    <3> QED BY <2>3, <2>4, <3>1, <3>2, SilenceFalls
  <2> HIDE DEF rest, R
  <2>7. /\ \A i \in 1 .. n : out[i] = sound[i]
        /\ \A i \in 1 .. m : out[n + i] = rest[i]
    <3>1. \A i \in 1 .. n + m : out[i] = IF i <= n THEN sound[i] ELSE rest[i - n]
      BY <2>1, <2>5, ConcatProperties
    <3> HIDE DEF out
    <3>2. \A i \in 1 .. n : i \in 1 .. n + m /\ i <= n
      BY <1>3, <2>4
    <3>3. \A i \in 1 .. m : n + i \in 1 .. n + m /\ ~(n + i <= n) /\ (n + i) - n = i
      BY <1>3, <2>4
    <3> QED BY <3>1, <3>2, <3>3
  <2> HIDE DEF out
  <2>8. ASSUME NEW i \in 1 .. need - 1
        PROVE  Smooth(out[i], out[i + 1]) /\ Level(out[i], out[i + 1])
    <3>1. CASE i < n
      <4>1. i \in 1 .. n - 1 /\ i \in 1 .. n /\ i + 1 \in 1 .. n
        BY <1>3, <3>1
      <4> QED BY <2>1, <2>7, <4>1 DEF Smooth
    <3>2. CASE i = n
      <4>1. m > 0 /\ 1 \in 1 .. m
        BY <1>1, <1>3, <2>4, <3>2
      <4>2. out[i] = held /\ out[i + 1] = rest[1]
        BY <2>2, <2>3, <2>7, <3>2, <4>1
      <4> QED BY <2>6, <4>1, <4>2 DEF Smooth
    <3>3. CASE i > n
      <4>1. /\ i - n \in 1 .. m - 1 /\ i - n \in 1 .. m /\ (i - n) + 1 \in 1 .. m /\ m > 0
            /\ n + (i - n) = i /\ n + ((i - n) + 1) = i + 1
        BY <1>1, <1>3, <2>4, <3>3
      <4>2. out[i] = rest[i - n] /\ out[i + 1] = rest[(i - n) + 1]
        BY <2>7, <4>1
      <4> QED BY <2>6, <4>1, <4>2 DEF Smooth
    <3> QED BY <1>3, <3>1, <3>2, <3>3
  <2>9. ASSUME last # NoCell PROVE Joins(last, out[1])
    <3>1. out[1] = sound[1]
      BY <2>2, <2>7
    <3>2. CASE IsSilent(last)
      <4>1. out[1].gain = <<1, Min2(Min2(got, need), SilenceFade)>>
        BY <1>2, <1>3, <2>1, <2>9, <3>1, <3>2
      <4> QED BY <3>2, <4>1 DEF Joins
    <3>3. CASE ~IsSilent(last)
      <4>1. out[1].gain = Full /\ last.gain = Full
        BY <1>2, <2>1, <3>1, <3>3
      <4>2. Level(last, out[1])
        <5>1. 1 \in Nat /\ 1 > 0
          OBVIOUS
        <5> QED BY <4>1, <5>1, LevelAtFull
      <4>3. cut \/ Continues(last, out[1])
        BY <1>2, <2>1, <3>1, <3>3 DEF Continues
      <4> QED BY <4>2, <4>3 DEF Joins, Smooth
    <3> QED BY <3>2, <3>3
  <2>10. EndsWith(out[need])
    <3>1. CASE got < need
      <4>1. m > 0 /\ m \in 1 .. m /\ n + m = need
        BY <1>1, <1>3, <2>2, <2>4, <3>1
      <4> QED BY <2>6, <2>7, <3>1, <4>1 DEF EndsWith
    <3>2. CASE ~(got < need)
      <4>1. n = need /\ out[need] = sound[n]
        BY <2>2, <2>7, <3>2
      <4>2. (got > need /\ CutsShort(need)) \/ sound[n].right = consumed - 1
        BY <1>1, <2>1, <3>2
      <4>3. consumed - 1 + 1 = consumed
        BY <1>1
      <4> QED BY <2>1, <3>2, <4>1, <4>2, <4>3 DEF EndsWith
    <3> QED BY <3>1, <3>2
  <2>11. GoesOn(out)
    BY <2>8, <2>9, <2>10 DEF GoesOn
  <2> QED BY <2>11 DEF out, rest, held, m, sound
<1> QED BY <1>1, <1>4, <1>5

HeardInv == LastHeard /\ OutputGoesOn

LEMMA InitHeard == Init => HeardInv
BY DEF Init, HeardInv, LastHeard, OutputGoesOn, NoCell, IsSilent

LEMMA NextHeard == IInv /\ HeardInv /\ [Next]_vars => HeardInv'
<1> SUFFICES ASSUME IInv, HeardInv, [Next]_vars PROVE HeardInv'
  OBVIOUS
<1> USE DEF HeardInv
<1>1. CASE UNCHANGED <<local, consumed>>
  BY <1>1 DEF local, LastHeard, Behind, OutputGoesOn, GoesOn, Joins, EndsWith
<1>2. CASE \/ MainSets \/ (\E n \in Batches : MainWrites(n)) \/ MainClearsLow
           \/ UNCHANGED vars
  BY <1>1, <1>2 DEF MainSets, MainWrites, MainClearsLow, vars, ring
<1>3. CASE \/ \E n \in Needs : DeviceAsks(n)
           \/ LookAtBacklog \/ LookAtProtect \/ ChooseSpeed \/ Ask \/ Plan
  <2>1. /\ rpc # "release" /\ rpc' # "release" /\ rpc # "fill" /\ rpc' # "fill"
        /\ UNCHANGED <<last, cut, recovering, consumed>>
    BY <1>3 DEF DeviceAsks, LookAtBacklog, LookAtProtect, ChooseSpeed, Ask, Plan, ring
  <2> QED BY <2>1 DEF LastHeard, Behind, OutputGoesOn
<1>4. CASE Read
  <2>1. /\ rpc = "read" /\ rpc' = "fill" /\ consumed' = consumed + got'
        /\ UNCHANGED <<last, cut, recovering>>
    BY <1>4 DEF Read
  <2>2. consumed \in Nat /\ got' \in Nat
    <3>1. want \in Nat /\ Buffered \in Nat /\ consumed \in Nat
      BY Sizes DEF IInv, TypeOK
    <3> QED BY <1>4, <3>1 DEF Read, Min2
  <2>3. consumed' - Behind' = consumed - Behind
    <3>1. Behind = 0 /\ Behind' = got'
      BY <2>1 DEF Behind
    <3> DEFINE x == consumed'
               g == got'
    <3>2. x - g = consumed - 0
      <4>1. x = consumed + g /\ g \in Nat /\ consumed \in Nat
        BY <2>1, <2>2
      <4> HIDE DEF x, g
      <4> QED BY <4>1
    <3> QED BY <3>1, <3>2
  <2>4. /\ recovering => IsSilent(last)
        /\ IsSilent(last) => recovering \/ last = NoCell
        /\ IsSilent(last) \/ last.gain = Full
        /\ IsSilent(last) \/ cut \/ last.right + 1 = consumed' - Behind'
    BY <2>1, <2>3 DEF LastHeard
  <2> HIDE DEF HeardInv
  <2>5. LastHeard'
    BY <2>1, <2>4, Zenon DEF LastHeard
  <2>6. OutputGoesOn'
    BY <2>1 DEF OutputGoesOn
  <2> QED BY <2>5, <2>6 DEF HeardInv
<1>5. CASE Fill
  <2>1. PICK s \in Sounds(need, got) :
          output' = Risen(Numbered(s))
                      \o Silence(need - Len(Risen(Numbered(s))), Held(Risen(Numbered(s))))
    BY <1>5 DEF Fill
  <2>2. rpc = "fill" /\ rpc' = "release" /\ UNCHANGED <<need, got, last, cut, consumed>>
    BY <1>5 DEF Fill, ring
  <2>3. GoesOn(output')
    BY <2>1, <2>2, FillGoesOn
  <2>4. GoesOn(output)'
    BY <2>2, <2>3 DEF GoesOn, Joins, EndsWith
  <2> QED BY <2>2, <2>4 DEF LastHeard, OutputGoesOn
<1>6. CASE Release
  <2>1. /\ rpc = "release" /\ rpc' = "wait" /\ last' = output[Len(output)]
        /\ cut' = (got > need /\ CutsShort(need)) /\ UNCHANGED <<consumed, recovering>>
    BY <1>6 DEF Release, Remembered, ring
  <2>2. Len(output) = need /\ (recovering <=> got < need)
    BY <2>1 DEF IInv, OutputFilled
  <2>3. EndsWith(last')
    BY <2>1, <2>2 DEF OutputGoesOn, GoesOn
  <2>4. consumed - 0 = consumed
    BY DEF IInv, TypeOK
  <2>5. CASE got < need
    <3>1. IsSilent(last') /\ recovering'
      BY <2>1, <2>2, <2>3, <2>5 DEF EndsWith
    <3> QED BY <2>1, <3>1 DEF LastHeard, OutputGoesOn
  <2>6. CASE ~(got < need)
    <3>1. last'.gain = Full /\ (cut' \/ last'.right + 1 = consumed) /\ ~recovering'
      BY <2>1, <2>2, <2>3, <2>6 DEF EndsWith
    <3>2. ~IsSilent(last')
      BY <3>1 DEF IsSilent, Full
    <3>3. Behind' = 0
      BY <2>1 DEF Behind
    <3> QED BY <2>1, <2>4, <3>1, <3>2, <3>3 DEF LastHeard, OutputGoesOn
  <2> QED BY <2>5, <2>6
<1> QED BY <1>2, <1>3, <1>4, <1>5, <1>6 DEF Next

\* Two frames heard one after the other are two of the output, or the last of the callback
\* before and the first of this one.
LEMMA HeardPairs ==
  ASSUME output \in Seq(Cells), last \in Cells, NEW i \in 1 .. Len(Heard) - 1
  PROVE  \/ i = 1 /\ last # NoCell /\ Heard[i] = last /\ Heard[i + 1] = output[1]
         \/ \E j \in 1 .. Len(output) - 1 : Heard[i] = output[j] /\ Heard[i + 1] = output[j + 1]
<1>1. CASE last = NoCell
  BY <1>1 DEF Heard
<1>2. CASE last # NoCell
  <2> DEFINE n == Len(output)
             h == <<last>> \o output
  <2>1. n \in Nat
    OBVIOUS
  <2>2. Len(h) = 1 + n /\ \A k \in 1 .. 1 + n : h[k] = IF k <= 1 THEN last ELSE output[k - 1]
    <3>1. <<last>> \in Seq(Cells) /\ Len(<<last>>) = 1 /\ <<last>>[1] = last
      OBVIOUS
    <3>2. \A k \in 1 .. 1 + n : k <= 1 => k = 1
      BY <2>1
    <3> QED BY <3>1, <3>2, ConcatProperties
  <2>3. Heard = h
    BY <1>2 DEF Heard
  <2> HIDE DEF h
  <2>4. i \in 1 .. n /\ i \in 1 .. 1 + n /\ i + 1 \in 1 .. 1 + n /\ ~(i + 1 <= 1) /\ (i + 1) - 1 = i
    BY <2>1, <2>2, <2>3
  <2>5. Heard[i + 1] = output[i]
    BY <2>2, <2>3, <2>4
  <2>6. CASE i = 1
    <3>1. Heard[i] = last
      BY <2>2, <2>3, <2>4, <2>6
    <3> QED BY <1>2, <2>5, <2>6, <3>1
  <2>7. CASE i > 1
    <3>1. i - 1 \in 1 .. n - 1 /\ (i - 1) + 1 = i
      BY <2>1, <2>4, <2>7
    <3>2. Heard[i] = output[i - 1] /\ Heard[i + 1] = output[(i - 1) + 1]
      BY <2>1, <2>2, <2>3, <2>4, <2>5, <2>7, <3>1
    <3> QED BY <3>1, <3>2
  <2> QED BY <2>4, <2>6, <2>7
<1> QED BY <1>1, <1>2

LEMMA HeardGoesOn ==
  ASSUME IInv, HeardInv, rpc = "release", NEW i \in 1 .. Len(Heard) - 1
  PROVE  \/ Smooth(Heard[i], Heard[i + 1]) /\ Level(Heard[i], Heard[i + 1])
         \/ i = 1 /\ Joins(Heard[i], Heard[i + 1])
<1>1. output \in Seq(Cells) /\ last \in Cells /\ Len(output) = need
  BY DEF IInv, TypeOK, OutputFilled
<1>2. GoesOn(output)
  BY DEF HeardInv, OutputGoesOn
<1> QED BY <1>1, <1>2, HeardPairs DEF GoesOn

LEMMA AlwaysHeard == Spec => [](IInv /\ HeardInv)
<1>1. IInv /\ HeardInv /\ [Next]_vars => HeardInv'
  BY NextHeard
<1> QED BY <1>1, InitHeard, Invariant, PTL DEF Spec

\* The three loops of renderPitchPreserved(), the fades and the held frame leave no step in
\* the sound, in a callback or between two, whatever was skipped and however often the
\* ring ran dry; only a callback too short for a cross-fade may leave one behind it.
THEOREM SoundUnbroken == Spec => []NoStepInSound
<1>1. IInv /\ HeardInv => NoStepInSound
  BY HeardGoesOn DEF NoStepInSound, Smooth, Joins
<1> QED BY <1>1, AlwaysHeard, PTL

\* fadeInAfterSilence() and fillSmoothSilence(): the gain goes up from silence and down to it
\* by steps of a fade.
THEOREM FadesMeet == Spec => []EdgesAreFaded
<1>1. ASSUME NEW c, NEW d PROVE Level(c, d) \/ Joins(c, d) => MeetsGently(c, d)
  BY DEF Level, Joins, MeetsGently
<1>2. IInv /\ HeardInv => EdgesAreFaded
  BY <1>1, HeardGoesOn DEF EdgesAreFaded
<1> QED BY <1>2, AlwaysHeard, PTL

\* With a device whose callbacks are long enough for a cross-fade, eight frames in the
\* program, renderPitchPreserved() never cuts a read short (NothingCut), so there is no
\* exception: not a step in the sound.
Unbroken ==
  rpc = "release" =>
    \A i \in 1 .. Len(Heard) - 1 : Smooth(Heard[i], Heard[i + 1]) \/ IsSilent(Heard[i])

LEMMA NothingCut == (\A n \in Needs : ~CutsShort(n)) => (Spec => []~cut)
<1> SUFFICES ASSUME \A n \in Needs : ~CutsShort(n) PROVE Spec => []~cut
  OBVIOUS
<1>1. Init => ~cut
  BY DEF Init
<1>2. IInv /\ ~cut /\ [Next]_vars => ~cut'
  <2> SUFFICES ASSUME IInv, ~cut, [Next]_vars PROVE ~cut'
    OBVIOUS
  <2>1. CASE Release
    BY <2>1 DEF Release, IInv, Planned
  <2>2. CASE ~Release
    BY <2>2 DEF Next, vars, local, MainSets, MainWrites, MainClearsLow, DeviceAsks,
                LookAtBacklog, LookAtProtect, ChooseSpeed, Ask, Plan, Read, Fill
  <2> QED BY <2>1, <2>2
<1> QED BY <1>1, <1>2, Invariant, PTL DEF Spec

\* renderPitchPreserved() on such a device: however far the backlog makes it skip and
\* wherever the skip is put, every frame follows on from the one before it.
THEOREM NeverAStep == (\A n \in Needs : ~CutsShort(n)) => (Spec => []Unbroken)
<1>1. IInv /\ HeardInv /\ ~cut => Unbroken
  BY HeardGoesOn DEF Unbroken, Joins
<1>2. (\A n \in Needs : ~CutsShort(n)) => (Spec => [](IInv /\ HeardInv /\ ~cut))
  BY NothingCut, AlwaysHeard, PTL
<1> QED BY <1>1, <1>2, PTL
===============================================================================

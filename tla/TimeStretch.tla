------------------------------ MODULE TimeStretch -----------------------------
(***************************************************************************)
(* The arithmetic of WasapiRenderer::renderPitchPreserved() and of the      *)
(* fades around silence: which frames of the input each frame of the output *)
(* is made of, and how loud it is.  Frames of the input are numbered from 0 *)
(* in each read; a frame that is not cross-faded is made of one of them.    *)
(***************************************************************************)
EXTENDS Integers, Sequences

CONSTANTS Unit,        \* speeds are counted in parts of Unit above normal speed: 1000
          Slow,        \* a speed up to 1.001 is taken for normal
          FadeLimit,   \* the longest cross-fade: sampleRate_ / 500, at least 1
          FadePart,    \* a cross-fade takes at most this part of the output: 4
          SilenceFade  \* a fade around silence: sampleRate_ / 200, at least 1

ASSUME StretchAssumption ==
  /\ Unit \in Nat \ {0} /\ Slow \in Nat
  /\ FadeLimit \in Nat \ {0} /\ FadePart \in Nat \ {0} /\ SilenceFade \in Nat \ {0}

Min2(a, b) == IF a <= b THEN a ELSE b
Clamp(x, lo, hi) == IF x < lo THEN lo ELSE Min2(x, hi)
CeilDiv(a, b) == (a + b - 1) \div b

\* How many frames to read for so many of output, of those available.
StretchedAtWill(out, speed, available) == CeilDiv(out * (Unit + speed), Unit)
Stretched(out, speed, available) ==
  Clamp(CeilDiv(out * (Unit + speed), Unit), out, available)
Wanted(out, speed, available) ==
  IF speed <= Slow \/ available <= out THEN Min2(out, available)
                                       ELSE Stretched(out, speed, available)

\* The cross-fade for an output of out frames.
FadeLength(out) == Min2(Min2(FadeLimit, out \div FadePart), out)

\* Where the skipped frames may begin; findSmoothSkip() takes the best of these.
SkipStarts(got, skip, fade) ==
  IF got <= skip + fade THEN {0} ELSE 0 .. got - skip - fade

\* A frame of output between frames left and right of the input, at gain gain[1] / gain[2].
Full == <<1, 1>>
Cell(l, r) == [left |-> l, right |-> r, gain |-> Full]
Copy(n) == [i \in 1 .. n |-> Cell(i - 1, i - 1)]

\* The three loops: what is before the skip, the cross-fade over it, what is after it.
\* Each ends with its source or when the output is full.
Before(out, at) == [i \in 1 .. Min2(at, out) |-> Cell(i - 1, i - 1)]
Over(out, skip, fade, at) ==
  [i \in 1 .. Min2(fade, out - Min2(at, out)) |-> Cell(at + i - 1, at + skip + i - 1)]
AfterFromSkip(out, got, skip, fade, at) ==
  [i \in 1 .. out - at - fade |-> Cell(at + skip + i - 1, at + skip + i - 1)]
AfterButLast(out, got, skip, fade, at) ==
  LET from == at + skip + fade
  IN  [i \in 1 .. (IF from + 1 < got THEN got - from - 1 ELSE 0) |->
         Cell(from + i - 1, from + i - 1)]
After(out, got, skip, fade, at) ==
  LET from == at + skip + fade
      room == out - Len(Before(out, at)) - Len(Over(out, skip, fade, at))
  IN  [i \in 1 .. (IF from < got THEN Min2(room, got - from) ELSE 0) |->
         Cell(from + i - 1, from + i - 1)]

Splice(out, got, fade, at) ==
  LET skip == got - out
  IN  Before(out, at) \o Over(out, skip, fade, at) \o After(out, got, skip, fade, at)

\* What the frames read may become: a copy, a copy cut short, or a splice.
CutsShort(out) == FadeLength(out) < 2 \/ out <= FadeLength(out)
Sounds(out, got) ==
  IF got <= out THEN {Copy(got)}
  ELSE IF CutsShort(out) THEN {Copy(out)}
  ELSE {Splice(out, got, FadeLength(out), at) :
          at \in SkipStarts(got, got - out, FadeLength(out))}

\* fadeInAfterSilence(): the first frames after silence rise to full gain.
FadedIn(sound) ==
  LET fade == Min2(Len(sound), SilenceFade)
  IN  [i \in 1 .. Len(sound) |-> IF i < fade THEN [sound[i] EXCEPT !.gain = <<i, fade>>]
                                             ELSE sound[i]]

\* fillSmoothSilence(): the last frame before it dies away, then nothing.
Silence(n, held) ==
  LET fade == Min2(n, SilenceFade)
  IN  [i \in 1 .. n |-> [held EXCEPT !.gain = IF held.gain[1] = 0 THEN <<0, 1>>
                                             ELSE IF i < fade THEN <<fade - i, fade>>
                                             ELSE <<0, fade>>]]
===============================================================================

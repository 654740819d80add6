------------------------------- MODULE Transform -------------------------------
(***************************************************************************)
(* The geometric transform of j4cDAC/firmware/lib/transform.c: the four    *)
(* corners the frame is to be drawn between become a matrix of four        *)
(* entries per axis, which the FIQ handler applies to every point.         *)
(* CornerMax is COORD_MAX: the frame reaches from -CornerMax to CornerMax. *)
(***************************************************************************)
EXTENDS Integers

CONSTANT CornerMax

ASSUME CornerMaxAssumption == CornerMax \in Nat \ {0}

TL == 0
TR == 1
BL == 2
BR == 3
Corner == {TL, TR, BL, BR}

IsTop(c)  == c \in {TL, TR}
IsLeft(c) == c \in {TL, BL}

\* corner ^ 1 and corner ^ 2: its neighbour in the row, in the column.
FlipV(c) == IF IsLeft(c) THEN c + 1 ELSE c - 1
FlipH(c) == IF IsTop(c) THEN c + 2 ELSE c - 2

\* C's division drops the fraction, towards zero.
Half(a)    == IF a >= 0 THEN a \div 2 ELSE -((-a) \div 2)
Quarter(a) == IF a >= 0 THEN a \div 4 ELSE -((-a) \div 4)

\* Mutant of Transformed: the diagonal is taken for the bottom edge.
AuxTransformed(t) ==
  LET c3 == Quarter(t[TL] + t[TR] + t[BL] + t[BR])
      c2 == c3 - Half(t[TL] + t[BR])
      c1 == c3 - Half(t[TR] + t[BL])
  IN <<-t[BL] - c1 + c2 + c3, c1, c2, c3>>

\* calculate_transform for one axis, the corners' coordinates being t:
\* <<c[0], c[1], c[2], c[3]>>.
Transformed(t) ==
  LET c3 == Quarter(t[TL] + t[TR] + t[BL] + t[BR])
      c2 == c3 - Half(t[TL] + t[BR])
      c1 == c3 - Half(t[BR] + t[BL])
  IN <<-t[BL] - c1 + c2 + c3, c1, c2, c3>>

\* translate(): the shifts round down.
Translate(c, x, y) ==
  (c[1] * x + c[2] * y + c[3] * ((x * y) \div CornerMax)) \div CornerMax + c[4]

\* The frame's own corners.
EdgeX(k) == IF IsLeft(k) THEN -CornerMax ELSE CornerMax
EdgeY(k) == IF IsTop(k) THEN CornerMax ELSE -CornerMax

\* Where one axis of the frame's corner k is drawn.
Drawn(c, k) == Translate(c, EdgeX(k), EdgeY(k))

Near(a, b, d) == a - b <= d /\ b - a <= d

\* What the three divisions can add up to at a corner.
Rounding(k) == CASE k = BL -> 0 [] k = BR -> 1 [] k = TL -> 2 [] k = TR -> 4

\* The matrix c draws every corner of the frame where t has it.
Hits(c, t) == \A k \in Corner : Near(Drawn(c, k), t[k], Rounding(k))
=============================================================================

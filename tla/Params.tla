-------------------------------- MODULE Params --------------------------------
(***************************************************************************)
(* Parameters: the table of handlers and the two ways a command reaches    *)
(* one, an OSC packet (net/osc.c) and a line of the autoplay script        *)
(* (file/autoplay.c).                                                      *)
(*                                                                         *)
(* A packet is [ok, path, tags, vals, words]: whether its framing is as    *)
(* osc_parse_packet wants it, the address, the type tags, the values they  *)
(* announce, and how many words of data really follow.  A line is          *)
(* [path, args].  Numbers with a fraction are in units of 1 / One.         *)
(***************************************************************************)
EXTENDS Integers, Sequences, FiniteSets

CONSTANTS
  One,        \* FIXED(1)
  IntRange,   \* FIXED() of an integer keeps it modulo this
  MinSize,    \* the least value of /geom/size
  MaxDelay,   \* DAC_MAX_COLOR_DELAY
  Broken      \* a string argument without its terminating zero

\* The numbers a line of the script may hold; see below.
Decimal == [neg : BOOLEAN, int : Nat, num : Nat, den : Nat]

ASSUME ParamsAssumption ==
  /\ One \in Nat \ {0} /\ MinSize \in 1 .. One /\ MaxDelay \in Nat \ {0, 1}
  /\ IntRange \in Nat \ {0, 1} /\ IntRange % 2 = 0

\* A handler takes so many numbers, converted as intmode says, or a name.
Handler(takes, mode, min, max) == [takes |-> takes, mode |-> mode, min |-> min, max |-> max]

CornerPaths == {"/geom/tl", "/geom/tr", "/geom/bl", "/geom/br"}
LockPaths   == {"/geom/locktop", "/geom/lockbottom", "/geom/lockleft", "/geom/lockright"}
DelayPaths  == {"/geom/rdelay", "/geom/gdelay", "/geom/bdelay"}

Paths == CornerPaths \cup LockPaths \cup DelayPaths \cup
         {"/geom/size", "/geom/offset", "/geom", "/stop", "/ilda/play"}

\* The handlers modelled here; the others' effects are in module Playback.
Table == [path \in Paths |->
  CASE path \in CornerPaths \cup {"/geom/offset"} -> Handler(2, "FIXED", -One, One)
    [] path \in LockPaths -> Handler(1, "INT", 0, 0)
    [] path \in DelayPaths -> Handler(1, "INT", 0, MaxDelay - 1)
    [] path = "/geom/size" -> Handler(1, "FIXED", MinSize, One)
    [] path \in {"/geom", "/stop"} -> Handler(0, "INT", 0, 0)
    [] path = "/ilda/play" -> Handler(1, "NAME", 0, 0)]

Clamped(h, v) == IF v > h.max THEN h.max ELSE IF v < h.min THEN h.min ELSE v

\* FPA_param: the argument lists the handler is called with, one or none.
FPA_param(h, p) ==
  IF Len(p) # h.takes THEN {}
  ELSE IF h.mode = "NAME" \/ (h.min = 0 /\ h.max = 0) THEN {p}
  ELSE {[i \in DOMAIN p |-> Clamped(h, p[i])]}

--------------------------------------------------------------------------------
(* OSC                                                                     *)

\* FIXED() of an integer keeps 32 bits, the upper half of which is the integer.
FixedInt(v) == One * (((v + IntRange \div 2) % IntRange) - IntRange \div 2)

Truncated(v) == IF v >= 0 THEN v \div One ELSE -((-v) \div One)

\* One argument by its type tag; an integer if none of the others.
OfTag(h, t, v) ==
  CASE t = "T" -> 1
    [] t = "F" -> 0
    [] t = "N" -> -1
    [] t = "f" -> (IF h.mode = "INT" THEN Truncated(v) ELSE v)
    [] OTHER   -> (IF h.mode = "INT" THEN v ELSE FixedInt(v))

\* The loop ends with the tags or with the data, whichever is first.
WordsUsed(m, j) == Cardinality({i \in 1 .. j - 1 : m.tags[i] \in {"i", "f"}})
Parsed(m) == {j \in DOMAIN m.tags : WordsUsed(m, j) < m.words}

\* osc_try_handler: the argument lists it calls the handler with.
OscTryHandler(h, m) ==
  IF h.mode = "NAME"
    THEN IF m.tags = <<"s">> /\ m.vals[1] # Broken THEN FPA_param(h, m.vals) ELSE {}
  ELSE IF \E j \in Parsed(m) : m.tags[j] \notin {"i", "f", "T", "F", "N"} THEN {}
  ELSE LET p == [j \in 1 .. Cardinality(Parsed(m)) |-> OfTag(h, m.tags[j], m.vals[j])]
       IN IF h.takes = 0 /\ Len(p) = 1
            THEN (IF p[1] # 0 THEN FPA_param(h, <<>>) ELSE {})
            ELSE FPA_param(h, p)

\* osc_parse_packet.
OscCalls(m) ==
  IF m.ok /\ m.path \in Paths THEN OscTryHandler(Table[m.path], m) ELSE {}

--------------------------------------------------------------------------------
(* Autoplay.  A number in the script is [neg, int, num, den]: its sign,    *)
(* the digits before the point, and those behind it as num / den (den = 0  *)
(* without a point).                                                       *)

Signed(t, v) == IF t.neg THEN -v ELSE v

\* strtofixed: the sign goes with the denominator, so with a point it misses
\* the digits in front of it, and a negative number is always rounded up.
StrToFixed(t) ==
  IF t.den = 0 THEN Signed(t, FixedInt(t.int))
  ELSE LET num   == One * t.num
           denom == Signed(t, t.den)
           half  == Signed(t, t.den \div 2)
       IN FixedInt(t.int) + Signed(t, num \div t.den) + (IF num % t.den > half THEN 1 ELSE 0)

\* autoplay_process_line takes at most three arguments from a line;
\* autoplay_invoke converts them (atoi drops the fraction).
OfText(h, t) ==
  IF h.mode = "NAME" THEN t ELSE IF h.mode = "INT" THEN Signed(t, t.int) ELSE StrToFixed(t)

\* The argument lists a line's handler is called with.
LineCalls(line) ==
  IF line.path \notin Paths THEN {}
  ELSE LET h == Table[line.path]
           argc == IF Len(line.args) > 3 THEN 3 ELSE Len(line.args)
       IN IF h.mode = "NAME" /\ argc # 1 THEN {}
          ELSE FPA_param(h, [i \in 1 .. argc |-> OfText(h, line.args[i])])
=============================================================================

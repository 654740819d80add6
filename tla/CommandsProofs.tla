---------------------------- MODULE CommandsProofs ----------------------------
(***************************************************************************)
(* Proofs about Commands, for every COORD_MAX, every set of packets and    *)
(* scripts and every length of the buffers:                                *)
(*   - calculate_transform draws the frame's corners where they were set;  *)
(*   - the matrix between two stores of update_transform (CommandsInv);    *)
(*   - locked edges and the colors' delays (SettingsInv);                  *)
(*   - corners that are moved one at a time stay apart;                    *)
(*   - the autoplay script, line by line (ScriptInv), and the types.       *)
(***************************************************************************)
EXTENDS Commands, FiniteSetTheorems, SequenceTheorems, WellFoundedInduction, TLAPS

\* Dividing a product by its factor gives the other factor.
LEMMA DivExact ==
  ASSUME NEW a \in Int, NEW n \in Nat \ {0}
  PROVE  (a * n) \div n = a
BY Z3

\* Twice the half is within 1 of what was halved.
LEMMA HalfBound ==
  ASSUME NEW a \in Int
  PROVE  /\ Half(a) \in Int
         /\ Near(2 * Half(a), a, 1)
BY Z3 DEF Half, Near

\* Four times the quarter is within 3 of what was quartered.
LEMMA QuarterBound ==
  ASSUME NEW a \in Int
  PROVE  /\ Quarter(a) \in Int
         /\ Near(4 * Quarter(a), a, 3)
BY Z3 DEF Quarter, Near

\* At a corner of the frame the shifts are exact.
LEMMA TranslateExact ==
  ASSUME NEW c, NEW s \in {-1, 1}, NEW t \in {-1, 1},
         c[1] \in Int, c[2] \in Int, c[3] \in Int, c[4] \in Int
  PROVE  Translate(c, s * CornerMax, t * CornerMax)
           = s * c[1] + t * c[2] + s * t * c[3] + c[4]
<1> DEFINE n == CornerMax
<1>1. n \in Nat \ {0}
  BY CornerMaxAssumption DEF CornerMaxAssumption
<1>2. (s * n) * (t * n) = (s * t * n) * n
  BY <1>1, Z3
<1>3. ((s * n) * (t * n)) \div n = s * t * n
  <2>1. s * t * n \in Int
    BY <1>1, Z3
  <2> QED
    BY <1>1, <1>2, <2>1, DivExact
<1>4. c[1] * (s * n) + c[2] * (t * n) + c[3] * (s * t * n)
        = (s * c[1] + t * c[2] + s * t * c[3]) * n
  BY <1>1, Z3
<1>5. ((s * c[1] + t * c[2] + s * t * c[3]) * n) \div n = s * c[1] + t * c[2] + s * t * c[3]
  <2>1. s * c[1] + t * c[2] + s * t * c[3] \in Int
    BY Z3
  <2> QED
    BY <1>1, <2>1, DivExact
<1> QED
  BY <1>3, <1>4, <1>5 DEF Translate

\* Where a matrix row draws the four corners of the frame.
LEMMA DrawnAt ==
  ASSUME NEW c, c[1] \in Int, c[2] \in Int, c[3] \in Int, c[4] \in Int
  PROVE  /\ Drawn(c, BL) = -c[1] - c[2] + c[3] + c[4]
         /\ Drawn(c, BR) = c[1] - c[2] - c[3] + c[4]
         /\ Drawn(c, TL) = -c[1] + c[2] - c[3] + c[4]
         /\ Drawn(c, TR) = c[1] + c[2] + c[3] + c[4]
<1>1. CornerMax \in Nat
  BY CornerMaxAssumption DEF CornerMaxAssumption
<1>2. \A s, t \in {-1, 1} : Translate(c, s * CornerMax, t * CornerMax)
                             = s * c[1] + t * c[2] + s * t * c[3] + c[4]
  BY TranslateExact
<1>3. Translate(c, -CornerMax, -CornerMax) = -c[1] - c[2] + c[3] + c[4]
  BY <1>1, <1>2, (-1) * CornerMax = -CornerMax, Z3
<1>4. Translate(c, CornerMax, -CornerMax) = c[1] - c[2] - c[3] + c[4]
  BY <1>1, <1>2, (-1) * CornerMax = -CornerMax, 1 * CornerMax = CornerMax, Z3
<1>5. Translate(c, -CornerMax, CornerMax) = -c[1] + c[2] - c[3] + c[4]
  BY <1>1, <1>2, (-1) * CornerMax = -CornerMax, 1 * CornerMax = CornerMax, Z3
<1>6. Translate(c, CornerMax, CornerMax) = c[1] + c[2] + c[3] + c[4]
  BY <1>1, <1>2, 1 * CornerMax = CornerMax, Z3
<1> QED
  BY <1>3, <1>4, <1>5, <1>6 DEF Drawn, EdgeX, EdgeY, IsLeft, IsTop, BL, BR, TL, TR

\* The matrix calculate_transform computes draws the frame's corners where they
\* were set, but for the rounding of its three divisions.
THEOREM TransformedHits ==
  ASSUME NEW t \in [Corner -> Int], NEW c,
         \A e \in 1 .. 4 : c[e] = Transformed(t)[e]
  PROVE  Hits(c, t)
<1> DEFINE sum   == t[TL] + t[TR] + t[BL] + t[BR]
           diag  == t[TL] + t[BR]
           floor == t[BR] + t[BL]
           c4    == Quarter(sum)
           c3    == c4 - Half(diag)
           c2    == c4 - Half(floor)
<1>1. /\ t[TL] \in Int /\ t[TR] \in Int /\ t[BL] \in Int /\ t[BR] \in Int
      /\ sum \in Int /\ diag \in Int /\ floor \in Int
  BY DEF Corner
<1>2. /\ Half(diag) \in Int /\ Near(2 * Half(diag), diag, 1)
      /\ Half(floor) \in Int /\ Near(2 * Half(floor), floor, 1)
      /\ Quarter(sum) \in Int /\ Near(4 * Quarter(sum), sum, 3)
  BY <1>1, HalfBound, QuarterBound
<1>3. /\ c[1] = -t[BL] - c2 + c3 + c4
      /\ c[2] = c2 /\ c[3] = c3 /\ c[4] = c4
  <2>1. Transformed(t) = <<-t[BL] - c2 + c3 + c4, c2, c3, c4>>
    BY Zenon DEF Transformed
  <2> HIDE DEF sum, diag, floor, c4, c3, c2
  <2>2. c[1] = Transformed(t)[1] /\ c[2] = Transformed(t)[2]
        /\ c[3] = Transformed(t)[3] /\ c[4] = Transformed(t)[4]
    BY 1 \in 1 .. 4, 2 \in 1 .. 4, 3 \in 1 .. 4, 4 \in 1 .. 4
  <2> QED
    BY <2>1, <2>2
<1>4. c[1] \in Int /\ c[2] \in Int /\ c[3] \in Int /\ c[4] \in Int
  BY <1>1, <1>2, <1>3
<1>5. Near(Drawn(c, BL), t[BL], 0)
  <2>1. Drawn(c, BL) = -c[1] - c[2] + c[3] + c[4]
    BY <1>4, DrawnAt
  <2>2. c2 \in Int /\ c3 \in Int /\ c4 \in Int
    BY <1>1, <1>2
  <2> HIDE DEF c2, c3, c4
  <2>3. Drawn(c, BL) = t[BL]
    BY <1>1, <1>3, <2>1, <2>2
  <2> QED
    BY <1>1, <2>3 DEF Near
<1>6. Near(Drawn(c, BR), t[BR], 1)
  BY <1>1, <1>2, <1>3, <1>4, DrawnAt DEF Near
<1>7. Near(Drawn(c, TL), t[TL], 2)
  BY <1>1, <1>2, <1>3, <1>4, DrawnAt DEF Near
<1>8. Near(Drawn(c, TR), t[TR], 4)
  BY <1>1, <1>2, <1>3, <1>4, DrawnAt DEF Near
<1> QED
  BY <1>5, <1>6, <1>7, <1>8 DEF Hits, Rounding, Corner, TL, TR, BL, BR

--------------------------------------------------------------------------------
(* The arguments a handler is called with                                  *)

\* The handlers that need their arguments in range.
Ranged == CornerPaths \cup DelayPaths \cup {"/geom/offset", "/geom/size"}

\* FPA_param's promise to the handlers that need it.
ArgsOk(path, p) ==
  /\ path \in CornerPaths \cup {"/geom/offset"} => p[1] \in -One .. One /\ p[2] \in -One .. One
  /\ path = "/geom/size" => p[1] \in 0 .. One
  /\ path \in DelayPaths => p[1] \in 0 .. MaxDelay - 1

\* What the table of parameters says of the geometry and delay paths.
LEMMA TableEntries ==
  /\ \A h \in CornerPaths \cup {"/geom/offset"} : h \in Paths /\ Table[h] = Handler(2, "FIXED", -One, One)
  /\ "/geom/size" \in Paths /\ Table["/geom/size"] = Handler(1, "FIXED", MinSize, One)
  /\ \A h \in DelayPaths : h \in Paths /\ Table[h] = Handler(1, "INT", 0, MaxDelay - 1)
  /\ "/ilda/play" \notin Ranged
BY DEF Table, Paths, CornerPaths, LockPaths, DelayPaths, Ranged

\* FPA_param clamps every argument of a handler that has a range.
LEMMA ClampedRange ==
  ASSUME NEW h, h.max \in Int, h.min \in Int, h.min <= h.max, h.mode # "NAME",
         ~(h.min = 0 /\ h.max = 0),
         NEW q \in Seq(Int), NEW p \in FPA_param(h, q)
  PROVE  Len(q) = h.takes /\ \A i \in 1 .. Len(q) : p[i] \in h.min .. h.max
<1>1. Len(q) = h.takes /\ p = [i \in DOMAIN q |-> Clamped(h, q[i])]
  BY DEF FPA_param
<1>2. \A v \in Int : Clamped(h, v) \in h.min .. h.max
  BY DEF Clamped
<1>3. DOMAIN q = 1 .. Len(q) /\ \A i \in 1 .. Len(q) : q[i] \in Int
  OBVIOUS
<1> QED
  BY <1>1, <1>2, <1>3

\* A packet has no more parsed arguments than tags.
LEMMA ParsedSize ==
  ASSUME NEW m, Len(m.tags) \in Nat, DOMAIN m.tags = 1 .. Len(m.tags)
  PROVE  /\ Cardinality(Parsed(m)) \in Nat
         /\ Cardinality(Parsed(m)) <= Len(m.tags)
<1>1. Parsed(m) \subseteq 1 .. Len(m.tags)
  BY DEF Parsed
<1>2. IsFiniteSet(1 .. Len(m.tags)) /\ Cardinality(1 .. Len(m.tags)) = Len(m.tags)
  BY FS_Interval
<1>3. IsFiniteSet(Parsed(m)) /\ Cardinality(Parsed(m)) <= Cardinality(1 .. Len(m.tags))
  BY <1>1, <1>2, FS_Subset
<1> QED
  BY <1>2, <1>3, FS_CardinalityType

\* A binary argument, whatever its type tag, becomes a number.
LEMMA OfTagInt ==
  ASSUME NEW h, NEW t, NEW v \in Int
  PROVE  OfTag(h, t, v) \in Int
<1>1. One \in Nat \ {0} /\ IntRange \in Nat \ {0}
  BY ParamsAssumption DEF ParamsAssumption
<1>2. FixedInt(v) \in Int
  BY <1>1 DEF FixedInt
<1>3. Truncated(v) \in Int
  BY <1>1 DEF Truncated
<1> QED
  BY <1>2, <1>3 DEF OfTag

\* What FPA_param hands to a handler lies in the handler's range.
LEMMA Ranges ==
  ASSUME NEW path \in Ranged, NEW q \in Seq(Int),
         NEW p \in FPA_param(Table[path], q)
  PROVE  ArgsOk(path, p)
<1> DEFINE h == Table[path]
<1>1. One \in Nat \ {0} /\ MinSize \in 1 .. One /\ MaxDelay \in Nat \ {0, 1}
  BY ParamsAssumption DEF ParamsAssumption
<1>2. CASE path \in DelayPaths
  <2>1. h = Handler(1, "INT", 0, MaxDelay - 1)
    BY <1>2, TableEntries
  <2>2. h.max = MaxDelay - 1 /\ h.min = 0 /\ h.mode = "INT" /\ h.takes = 1
    BY <2>1 DEF Handler
  <2> HIDE DEF h
  <2>3. h.takes = Len(q) /\ \A i \in 1 .. Len(q) : p[i] \in 0 .. MaxDelay - 1
    <3>1. h.min <= h.max /\ h.max \in Int /\ h.min \in Int /\ h.max # 0
      BY <1>1, <2>2
    <3>2. p \in FPA_param(h, q)
      BY DEF h
    <3> QED
      BY <1>1, <2>2, <3>1, <3>2, ClampedRange
  <2> QED
    BY <1>1, <1>2, <2>2, <2>3 DEF ArgsOk, CornerPaths, DelayPaths
<1>3. CASE path = "/geom/size"
  <2>1. h = Handler(1, "FIXED", MinSize, One)
    BY <1>3, TableEntries
  <2>2. h.max = One /\ h.min = MinSize /\ h.mode = "FIXED" /\ h.takes = 1
    BY <2>1 DEF Handler
  <2> HIDE DEF h
  <2>3. h.takes = Len(q) /\ \A i \in 1 .. Len(q) : p[i] \in MinSize .. One
    <3>1. h.min <= h.max /\ h.max \in Int /\ h.min \in Int
      BY <1>1, <2>2
    <3>2. p \in FPA_param(h, q)
      BY DEF h
    <3> QED
      BY <1>1, <2>2, <3>1, <3>2, ClampedRange
  <2> QED
    BY <1>1, <1>3, <2>2, <2>3 DEF ArgsOk, CornerPaths, DelayPaths
<1>4. CASE path \in CornerPaths \cup {"/geom/offset"}
  <2>1. h = Handler(2, "FIXED", -One, One)
    BY <1>4, TableEntries
  <2>2. h.max = One /\ h.min = -One /\ h.mode = "FIXED" /\ h.takes = 2
    BY <2>1 DEF Handler
  <2> HIDE DEF h
  <2>3. h.takes = Len(q) /\ \A i \in 1 .. Len(q) : p[i] \in -One .. One
    <3>1. h.min <= h.max /\ h.max \in Int /\ h.min \in Int
      BY <1>1, <2>2
    <3>2. p \in FPA_param(h, q)
      BY DEF h
    <3> QED
      BY <1>1, <2>2, <3>1, <3>2, ClampedRange
  <2> QED
    BY <1>1, <1>4, <2>2, <2>3 DEF ArgsOk, CornerPaths, DelayPaths
<1> QED
  BY <1>2, <1>3, <1>4 DEF Ranged

\* ... so it is for the arguments of a packet,
LEMMA OscArgs ==
  ASSUME NEW s \in Shows, NEW m \in s.packets, NEW p \in OscCalls(m)
  PROVE  ArgsOk(m.path, p)
<1> SUFFICES ASSUME m.path \in Ranged PROVE ArgsOk(m.path, p)
  BY DEF ArgsOk, Ranged
<1> DEFINE h == Table[m.path]
           k == Cardinality(Parsed(m))
           q == [j \in 1 .. k |-> OfTag(h, m.tags[j], m.vals[j])]
<1>1. m.vals \in Seq(Int) /\ Len(m.vals) = Len(m.tags)
  BY TableEntries, CommandsAssumption DEF CommandsAssumption
<1>2. h.mode # "NAME" /\ h.takes # 0
  BY TableEntries DEF Handler, Ranged
<1>3. p \in OscTryHandler(h, m)
  BY TableEntries DEF OscCalls, Ranged
<1>4. p \in FPA_param(h, q)
  BY <1>2, <1>3 DEF OscTryHandler
<1>5. q \in Seq(Int)
  <2>1. k \in Nat /\ k <= Len(m.vals)
    BY <1>1, ParsedSize
  <2>2. \A j \in 1 .. k : OfTag(h, m.tags[j], m.vals[j]) \in Int
    BY <1>1, <1>2, <2>1, OfTagInt
  <2> QED
    BY <2>1, <2>2
<1> QED
  BY <1>4, <1>5, Ranges

\* A decimal argument of a line becomes a number.
LEMMA OfTextInt ==
  ASSUME NEW h, NEW t \in Decimal, h.mode # "NAME"
  PROVE  OfText(h, t) \in Int
<1>1. One \in Int /\ t.neg \in BOOLEAN /\ t.int \in Nat /\ t.num \in Nat /\ t.den \in Nat
  BY ParamsAssumption DEF ParamsAssumption, Decimal
<1>2. \A v \in Int : Signed(t, v) \in Int
  BY DEF Signed
<1>3. FixedInt(t.int) \in Int
  <2>1. (t.int + IntRange \div 2) % IntRange \in Int
    BY <1>1, ParamsAssumption DEF ParamsAssumption
  <2>2. IntRange \div 2 \in Int
    BY ParamsAssumption DEF ParamsAssumption
  <2> QED
    BY <1>1, <2>1, <2>2 DEF FixedInt
<1>4. CASE t.den = 0
  <2>1. Signed(t, t.int) \in Int /\ Signed(t, FixedInt(t.int)) \in Int
    BY <1>1, <1>2, <1>3
  <2> QED
    BY <1>4, <2>1 DEF OfText, StrToFixed
<1>5. CASE t.den # 0
  <2>1. (One * t.num) \div t.den \in Int
    BY <1>1, <1>5
  <2>2. StrToFixed(t) = FixedInt(t.int) + Signed(t, (One * t.num) \div t.den)
                          + (IF (One * t.num) % t.den > Signed(t, t.den \div 2) THEN 1 ELSE 0)
    BY <1>5 DEF StrToFixed
  <2>3. Signed(t, (One * t.num) \div t.den) \in Int
    BY <1>2, <2>1
  <2>4. StrToFixed(t) \in Int
    BY <1>3, <2>1, <2>2, <2>3
  <2> QED
    BY <1>1, <1>2, <2>4 DEF OfText
<1> QED
  BY <1>4, <1>5

\* ... and for those of a line of the script.
LEMMA LineArgs ==
  ASSUME NEW s \in Shows, NEW i \in DOMAIN s.lines, NEW p \in LineCalls(s.lines[i])
  PROVE  ArgsOk(s.lines[i].path, p)
<1> DEFINE line == s.lines[i]
           h    == Table[line.path]
           argc == IF Len(line.args) > 3 THEN 3 ELSE Len(line.args)
           q    == [j \in 1 .. argc |-> OfText(h, line.args[j])]
<1> SUFFICES ASSUME line.path \in Ranged PROVE ArgsOk(line.path, p)
  BY DEF ArgsOk, Ranged
<1>1. line.args \in Seq(Decimal)
  BY TableEntries, CommandsAssumption DEF CommandsAssumption
<1>2. h.mode # "NAME"
  BY TableEntries DEF Handler, Ranged
<1>3. p \in FPA_param(h, q)
  BY <1>2, TableEntries DEF LineCalls, Ranged
<1>4. q \in Seq(Int)
  <2>1. argc \in Nat /\ argc <= Len(line.args)
    BY <1>1
  <2>2. \A j \in 1 .. argc : line.args[j] \in Decimal
    BY <1>1, <2>1
  <2>3. \A j \in 1 .. argc : OfText(h, line.args[j]) \in Int
    BY <1>2, <2>2, OfTextInt
  <2> QED
    BY <2>1, <2>3
<1> QED
  BY <1>3, <1>4, Ranges

--------------------------------------------------------------------------------
(* The invariant                                                           *)

\* The entries stored so far are those of the corners the handler has set; until
\* the last entry of the x axis is stored, the y axis is that of the frame before.
CommandsInv ==
  /\ show \in Shows
  /\ tx \in [Corner -> Coord] /\ ty \in [Corner -> Coord]
  /\ size \in 0 .. One /\ offset[1] \in -One .. One /\ offset[2] \in -One .. One
  /\ before[2] \in [Corner -> Coord]
  /\ work \in 0 .. 8 /\ matrix \in [1 .. 8 -> Int]
  /\ \A e \in 1 .. 4 :
       /\ work <= e + 3 => matrix[e] = Transformed(tx)[e]
       /\ work < e => matrix[e + 4] = Transformed(ty)[e]
       /\ work > 4 => matrix[e + 4] = Transformed(before[2])[e]

\* What the assumptions say of the constants, in the form the provers need.
LEMMA Constants == CornerMax \in Nat \ {0} /\ One = 2 * CornerMax /\ TooClose \in Nat
BY CornerMaxAssumption, CommandsAssumption DEF CornerMaxAssumption, CommandsAssumption

\* The entries of a transform are numbers.
LEMMA TransformedInt ==
  ASSUME NEW t \in [Corner -> Coord]
  PROVE  \A e \in 1 .. 4 : Transformed(t)[e] \in Int
<1> DEFINE c4 == Quarter(t[TL] + t[TR] + t[BL] + t[BR])
           c3 == c4 - Half(t[TL] + t[BR])
           c2 == c4 - Half(t[BR] + t[BL])
<1>1. t[TL] \in Int /\ t[TR] \in Int /\ t[BL] \in Int /\ t[BR] \in Int
  BY Constants DEF Corner, Coord
<1>2. c4 \in Int /\ c3 \in Int /\ c2 \in Int
  BY <1>1, HalfBound, QuarterBound
<1>3. Transformed(t) = <<-t[BL] - c2 + c3 + c4, c2, c3, c4>>
  BY Zenon DEF Transformed
<1> HIDE DEF c2, c3, c4
<1> QED
  BY <1>1, <1>2, <1>3

\* Half of an argument in range is a coordinate.
LEMMA HalfCoord ==
  ASSUME NEW v \in -One .. One
  PROVE  Half(v) \in Coord
BY Constants, Z3 DEF Half, Coord

\* After reset the stored matrix is the one of the corners.
LEMMA InitInv == Init => CommandsInv
<1> SUFFICES ASSUME Init PROVE CommandsInv
  OBVIOUS
<1>1. tx \in [Corner -> Coord] /\ ty \in [Corner -> Coord]
  BY Constants DEF Init, EdgeX, EdgeY, Coord
<1>2. \A e \in 1 .. 4 : Transformed(tx)[e] \in Int /\ Transformed(ty)[e] \in Int
  BY <1>1, TransformedInt
<1>3. matrix = [e \in 1 .. 8 |-> Entry(e)]
  BY DEF Init
<1>4. \A e \in 1 .. 4 : matrix[e] = Transformed(tx)[e] /\ matrix[e + 4] = Transformed(ty)[e]
  BY <1>3 DEF Entry
<1>5. \A e \in 1 .. 8 : Entry(e) \in Int
  BY <1>2 DEF Entry
<1> QED
  BY <1>1, <1>3, <1>4, <1>5, Constants DEF Init, CommandsInv

\* dac_set_transform's next entry is the one of the new corners.
LEMMA StoreInv == CommandsInv /\ Store => CommandsInv'
<1> SUFFICES ASSUME CommandsInv, Store PROVE CommandsInv'
  OBVIOUS
<1> DEFINE s == StoreOrder[9 - work]
<1>1. work \in 1 .. 8 /\ work' = work - 1 /\ matrix' = [matrix EXCEPT ![s] = Entry(s)]
  BY DEF CommandsInv, Store
<1>2. /\ tx' = tx /\ ty' = ty /\ size' = size /\ offset' = offset /\ show' = show
      /\ before' = IF work = 1 THEN <<tx, ty>> ELSE before
  BY DEF Store, corners
<1>3. /\ tx \in [Corner -> Coord] /\ ty \in [Corner -> Coord]
      /\ matrix \in [1 .. 8 -> Int] /\ before[2] \in [Corner -> Coord]
  BY DEF CommandsInv
<1>4. before'[2] \in [Corner -> Coord] /\ (work > 1 => before' = before)
  BY <1>1, <1>2, <1>3
<1>5. s = IF work > 4 THEN work - 4 ELSE work + 4
  BY <1>1 DEF StoreOrder
<1> HIDE DEF s
<1>6. \A e \in 1 .. 4 : Transformed(tx)[e] \in Int /\ Transformed(ty)[e] \in Int
  BY <1>3, TransformedInt
<1>7. Entry(s) = IF work > 4 THEN Transformed(tx)[s] ELSE Transformed(ty)[s - 4]
  BY <1>1, <1>5 DEF Entry
<1>8. matrix' \in [1 .. 8 -> Int]
  <2>1. Entry(s) \in Int
    BY <1>1, <1>5, <1>6, <1>7
  <2> QED
    BY <1>1, <1>3, <2>1
<1>9. ASSUME NEW e \in 1 .. 4
      PROVE  /\ work' <= e + 3 => matrix'[e] = Transformed(tx)[e]
             /\ work' < e => matrix'[e + 4] = Transformed(ty)[e]
             /\ work' > 4 => matrix'[e + 4] = Transformed(before[2])[e]
  <2>1. /\ work <= e + 3 => matrix[e] = Transformed(tx)[e]
        /\ work < e => matrix[e + 4] = Transformed(ty)[e]
        /\ work > 4 => matrix[e + 4] = Transformed(before[2])[e]
    BY DEF CommandsInv
  <2>2. matrix'[e] = IF s = e THEN Entry(s) ELSE matrix[e]
    BY <1>1, <1>3
  <2>3. matrix'[e + 4] = IF s = e + 4 THEN Entry(s) ELSE matrix[e + 4]
    BY <1>1, <1>3
  <2> QED
    BY <1>1, <1>5, <1>7, <2>1, <2>2, <2>3
<1> QED
  BY <1>1, <1>2, <1>4, <1>8, <1>9 DEF CommandsInv

\* What is left of the invariant when the entries are stored no further.
LEMMA SettledInv ==
  ASSUME CommandsInv, work = 0,
         tx' \in [Corner -> Coord], ty' \in [Corner -> Coord],
         size' \in 0 .. One, offset'[1] \in -One .. One, offset'[2] \in -One .. One,
         show' = show, UpdateTransform
  PROVE  CommandsInv'
<1>1. work' = 8 /\ before' = <<tx, ty>> /\ matrix' = matrix
  BY DEF UpdateTransform, corners
<1>2. \A e \in 1 .. 4 : matrix[e + 4] = Transformed(ty)[e]
  BY DEF CommandsInv
<1>3. ty \in [Corner -> Coord] /\ matrix \in [1 .. 8 -> Int] /\ show \in Shows
  BY DEF CommandsInv
<1> QED
  BY <1>1, <1>2, <1>3 DEF CommandsInv

\* A step that leaves the geometry alone keeps the invariant.
LEMMA SameInv == CommandsInv /\ UNCHANGED <<geom, show>> => CommandsInv'
<1> SUFFICES ASSUME CommandsInv, UNCHANGED <<geom, show>> PROVE CommandsInv'
  OBVIOUS
<1>1. /\ tx' = tx /\ ty' = ty /\ size' = size /\ offset' = offset
      /\ matrix' = matrix /\ work' = work /\ before' = before /\ show' = show
  BY DEF geom
<1> QED
  BY <1>1 DEF CommandsInv

\* geom_update moves corners within the coordinates and starts a new matrix.
LEMMA GeomUpdateInv ==
  ASSUME CommandsInv, work = 0, show' = show,
         NEW c \in Corner, NEW y \in Coord, NEW x \in Coord, GeomUpdate(c, y, x)
  PROVE  CommandsInv'
<1> DEFINE h == RowMate(c)
           v == ColumnMate(c)
<1>1. CASE UNCHANGED geom
  BY <1>1, SameInv
<1>2. CASE /\ tx' = [tx EXCEPT ![c] = x, ![v] = x]
           /\ ty' = [ty EXCEPT ![c] = y, ![h] = y]
           /\ UpdateTransform
           /\ UNCHANGED <<locks, size, offset>>
  <2> HIDE DEF h, v
  <2>1. tx' \in [Corner -> Coord] /\ ty' \in [Corner -> Coord]
    BY <1>2 DEF CommandsInv
  <2>2. size' \in 0 .. One /\ offset'[1] \in -One .. One /\ offset'[2] \in -One .. One
    BY <1>2 DEF CommandsInv
  <2> QED
    BY <1>2, <2>1, <2>2, SettledInv
<1> QED
  BY <1>1, <1>2 DEF GeomUpdate

\* Size and offset set corners within the coordinates and start a new matrix.
LEMMA GeomSetInv ==
  ASSUME CommandsInv, work = 0, show' = show,
         size' \in 0 .. One, offset'[1] \in -One .. One, offset'[2] \in -One .. One,
         GeomSetSzOffset
  PROVE  CommandsInv'
<1>1. One \in Nat
  BY Constants
<1>2. Half(size') \in Int /\ Half(offset'[1]) \in Int /\ Half(offset'[2]) \in Int
  BY <1>1, HalfBound
<1>3. \A v \in Int : CoordClamp(v) \in Coord
  BY Constants DEF CoordClamp, Coord
<1>4. tx' \in [Corner -> Coord] /\ ty' \in [Corner -> Coord]
  BY <1>2, <1>3 DEF GeomSetSzOffset
<1> QED
  BY <1>4, SettledInv DEF GeomSetSzOffset

\* No OSC handler, called with arguments in range, breaks the invariant.
LEMMA CallInv ==
  ASSUME CommandsInv, work = 0, show' = show,
         NEW path, NEW p, ArgsOk(path, p), Call(path, p)
  PROVE  CommandsInv'
<1>1. CASE path \in CornerPaths /\ GeomUpdate(CornerOf(path), Half(p[1]), Half(p[2]))
  <2>1. CornerOf(path) \in Corner
    BY <1>1 DEF CornerPaths, CornerOf, Corner
  <2>2. Half(p[1]) \in Coord /\ Half(p[2]) \in Coord
    BY <1>1, HalfCoord DEF ArgsOk
  <2> QED
    BY <1>1, <2>1, <2>2, GeomUpdateInv
<1>2. ASSUME NEW l, NEW v, GeomUpdateLock(l, v) PROVE CommandsInv'
  BY <1>2 DEF GeomUpdateLock, corners, CommandsInv
<1>3. CASE path = "/geom/size" /\ size' = p[1] /\ UNCHANGED offset /\ GeomSetSzOffset
  <2>1. size' \in 0 .. One /\ offset'[1] \in -One .. One /\ offset'[2] \in -One .. One
    BY <1>3 DEF ArgsOk, CommandsInv
  <2> QED
    BY <1>3, <2>1, GeomSetInv
<1>4. CASE path = "/geom/offset" /\ offset' = <<p[1], p[2]>> /\ UNCHANGED size /\ GeomSetSzOffset
  <2>1. size' \in 0 .. One /\ offset'[1] \in -One .. One /\ offset'[2] \in -One .. One
    BY <1>4 DEF ArgsOk, CommandsInv
  <2> QED
    BY <1>4, <2>1, GeomSetInv
<1>5. CASE UNCHANGED geom
  BY <1>5, SameInv
<1> QED
  BY <1>1, <1>2, <1>3, <1>4, <1>5 DEF Call

\* Nor does a line of the script.
LEMMA LineInv ==
  ASSUME CommandsInv, work = 0, show' = show, NEW b, ProcessLine(b)
  PROVE  CommandsInv'
<1>1. CASE NoCall
  BY <1>1, SameInv DEF NoCall
<1>2. ASSUME NEW i \in DOMAIN show.lines, NEW p \in LineCalls(show.lines[i]),
             Call(show.lines[i].path, p)
      PROVE  CommandsInv'
  <2>1. show \in Shows
    BY DEF CommandsInv
  <2>2. ArgsOk(show.lines[i].path, p)
    BY <2>1, LineArgs
  <2> QED
    BY <1>2, <2>2, CallInv
<1> QED
  BY <1>1, <1>2 DEF ProcessLine

\* Nor does any step.
LEMMA NextInv == CommandsInv /\ [Next]_vars => CommandsInv'
<1> SUFFICES ASSUME CommandsInv, [Next]_vars PROVE CommandsInv'
  OBVIOUS
<1>1. CASE Store
  BY <1>1, StoreInv
<1>2. CASE AutoplayWaits
  BY <1>2, SameInv DEF AutoplayWaits
<1>3. CASE AutoplayLine
  <2>1. work = 0 /\ show' = show
    BY <1>3 DEF AutoplayLine
  <2>2. ASSUME NEW b, GiveUp(b) PROVE CommandsInv'
    BY <2>1, <2>2, SameInv DEF GiveUp, NoCall
  <2> QED
    BY <1>3, <2>1, <2>2, LineInv DEF AutoplayLine
<1>4. CASE AutoplayReadFails
  BY <1>4, SameInv DEF AutoplayReadFails, GiveUp, NoCall
<1>5. CASE Packet
  <2>1. work = 0 /\ show' = show /\ show \in Shows
    BY <1>5 DEF Packet, CommandsInv
  <2>2. PICK m \in show.packets : (\E p \in OscCalls(m) : Call(m.path, p)) \/ NoCall
    BY <1>5 DEF Packet
  <2>3. ASSUME NEW p \in OscCalls(m), Call(m.path, p) PROVE CommandsInv'
    BY <2>1, <2>3, OscArgs, CallInv
  <2> QED
    BY <2>1, <2>2, <2>3, SameInv DEF NoCall
<1>6. CASE NoPacket
  BY <1>6, SameInv DEF NoPacket
<1>7. CASE Refill
  BY <1>7, SameInv DEF Refill
<1>8. CASE Point
  BY <1>8, SameInv DEF Point
<1>9. CASE UNCHANGED vars
  BY <1>9, SameInv DEF vars
<1> QED
  BY <1>1, <1>2, <1>3, <1>4, <1>5, <1>6, <1>7, <1>8, <1>9 DEF Next, MainLoop, Autoplay

--------------------------------------------------------------------------------
(* The theorems                                                            *)

\* The inductive invariant: how far update_transform has come.
THEOREM InvariantHolds == Spec => []CommandsInv
<1> QED
  BY InitInv, NextInv, PTL DEF Spec

\* An axis whose entries are all stored draws its corners where they were set.
LEMMA InvHits ==
  ASSUME CommandsInv
  PROVE  /\ work <= 4 => Hits(MatrixX, tx)
         /\ work > 4 => Hits(MatrixY, before[2])
         /\ work = 0 => Hits(MatrixY, ty)
<1>1. /\ tx \in [Corner -> Int] /\ ty \in [Corner -> Int]
      /\ before[2] \in [Corner -> Int] /\ work \in 0 .. 8
  BY Constants DEF CommandsInv, Coord
<1>2. ASSUME work <= 4 PROVE Hits(MatrixX, tx)
  <2>1. \A e \in 1 .. 4 : MatrixX[e] = Transformed(tx)[e]
    BY <1>1, <1>2 DEF CommandsInv, MatrixX
  <2> QED
    BY <1>1, <1>2, <2>1, TransformedHits
<1>3. ASSUME work > 4 PROVE Hits(MatrixY, before[2])
  <2>1. \A e \in 1 .. 4 : MatrixY[e] = Transformed(before[2])[e]
    BY <1>1, <1>3 DEF CommandsInv, MatrixY
  <2> QED
    BY <1>1, <1>3, <2>1, TransformedHits
<1>4. ASSUME work = 0 PROVE Hits(MatrixY, ty)
  <2>1. \A e \in 1 .. 4 : MatrixY[e] = Transformed(ty)[e]
    BY <1>1, <1>4 DEF CommandsInv, MatrixY
  <2> QED
    BY <1>1, <1>4, <2>1, TransformedHits
<1> QED
  BY <1>1, <1>2, <1>3, <1>4

\* Whatever the packets and the script do, no handler leaves without the matrix it
\* owes: the frame's corners are drawn where they were set (update_transform).
THEOREM CornersAreHit == Spec => []CornersHit
<1>1. CommandsInv => CornersHit
  BY InvHits DEF CornersHit, CommandsInv
<1> QED
  BY <1>1, InvariantHolds, PTL

\* A point drawn between two stores of update_transform is wrong on one axis at
\* most.
THEOREM OnlyOneAxisTorn == Spec => []OneAxisTorn
<1>1. CommandsInv => OneAxisTorn
  <2>1. CommandsInv => work \in 0 .. 8
    BY DEF CommandsInv
  <2> QED
    BY <2>1, InvHits DEF OneAxisTorn
<1> QED
  BY <1>1, InvariantHolds, PTL

--------------------------------------------------------------------------------
(* Locked edges and delays                                                 *)

Pointers == Colors \cup {"consume"}

\* What the handlers of the locks and the delays rely on.
SettingsInv ==
  /\ locks \subseteq Locks
  /\ control \in [Pointers -> 0 .. MaxDelay - 1]

\* A pointer wraps into the delay line.
LEMMA ModRange ==
  ASSUME NEW a \in Int
  PROVE  a % MaxDelay \in 0 .. MaxDelay - 1
BY ParamsAssumption, Z3 DEF ParamsAssumption

\* Moving one color's pointers keeps them in the delay line.
LEMMA MovedRange ==
  ASSUME NEW cc \in [Pointers -> 0 .. MaxDelay - 1], NEW color \in Colors
  PROVE  Moved(cc, color) \in [Pointers -> 0 .. MaxDelay - 1]
<1>1. \A i \in Pointers : cc[i] \in Int /\ (cc[i] + 1) % MaxDelay \in 0 .. MaxDelay - 1
  BY ParamsAssumption, ModRange DEF ParamsAssumption
<1> QED
  BY <1>1 DEF Moved

\* A delay is shorter than the delay line.
LEMMA DelayInt ==
  ASSUME NEW cc \in [Pointers -> 0 .. MaxDelay - 1], NEW color \in Colors
  PROVE  Delay(cc, color) \in 0 .. MaxDelay - 1
<1>1. MaxDelay \in Nat /\ cc[color] \in Int /\ cc["consume"] \in Int
  BY ParamsAssumption DEF ParamsAssumption, Pointers
<1>2. cc[color] - cc["consume"] + MaxDelay \in Int
  BY <1>1
<1> QED
  BY <1>2, ModRange DEF Delay

\* delay_line_set_delay keeps the pointers in the delay line.
LEMMA SetDelaySettings ==
  ASSUME SettingsInv, NEW color \in Colors, NEW delay \in 0 .. MaxDelay - 1,
         DelayLineSetDelay(color, delay)
  PROVE  control' \in [Pointers -> 0 .. MaxDelay - 1]
<1> DEFINE more == delay - Delay(control, color)
<1>1. control \in [Pointers -> 0 .. MaxDelay - 1]
  BY DEF SettingsInv
<1>2. MaxDelay \in Nat /\ control[color] \in Int
  BY <1>1, ParamsAssumption DEF ParamsAssumption, Pointers
<1>3. more \in Int
  BY <1>1, <1>2, DelayInt
<1> HIDE DEF more
<1>4. control[color] + more \in Int
  BY <1>2, <1>3
<1>5. (control[color] + more) % MaxDelay \in 0 .. MaxDelay - 1
  BY <1>4, ModRange
<1>6. control' = IF more >= 0
                   THEN [control EXCEPT ![color] = (@ + more) % MaxDelay]
                   ELSE Moved(control, color)
  BY DEF DelayLineSetDelay, more
<1> QED
  BY <1>1, <1>5, <1>6, MovedRange

\* No OSC handler takes locks or pointers out of their ranges.
LEMMA CallSettings ==
  ASSUME SettingsInv, NEW path, NEW p, ArgsOk(path, p), Call(path, p)
  PROVE  SettingsInv'
<1>1. CASE path \in CornerPaths /\ GeomUpdate(CornerOf(path), Half(p[1]), Half(p[2]))
           /\ UNCHANGED <<control, playing>>
  BY <1>1 DEF GeomUpdate, geom, SettingsInv
<1>2. CASE path \in LockPaths /\ GeomUpdateLock(LockOf(path), p[1])
           /\ UNCHANGED <<control, playing>>
  <2>1. LockOf(path) \in Locks
    BY <1>2 DEF LockPaths, LockOf, Locks
  <2> QED
    BY <1>2, <2>1 DEF GeomUpdateLock, SettingsInv
<1>3. CASE GeomSetSzOffset /\ UNCHANGED <<control, playing>>
  BY <1>3 DEF GeomSetSzOffset, SettingsInv
<1>4. CASE path \in DelayPaths /\ DelayLineSetDelay(ColorOf(path), p[1])
           /\ UNCHANGED <<geom, playing>>
  <2>1. ColorOf(path) \in Colors /\ p[1] \in 0 .. MaxDelay - 1
    BY <1>4 DEF DelayPaths, ColorOf, Colors, ArgsOk
  <2> QED
    BY <1>4, <2>1, SetDelaySettings DEF geom, SettingsInv
<1>5. CASE UNCHANGED <<geom, control>>
  BY <1>5 DEF geom, SettingsInv
<1> QED
  BY <1>1, <1>2, <1>3, <1>4, <1>5 DEF Call

\* Nor does any step, the FIQ's included.
LEMMA NextSettings == SettingsInv /\ CommandsInv /\ [Next]_vars => SettingsInv'
<1> SUFFICES ASSUME SettingsInv, CommandsInv, [Next]_vars PROVE SettingsInv'
  OBVIOUS
<1>1. show \in Shows
  BY DEF CommandsInv
<1>2. ASSUME UNCHANGED <<geom, control>> PROVE SettingsInv'
  BY <1>2 DEF geom, SettingsInv
<1>3. CASE Store
  BY <1>3 DEF Store, SettingsInv
<1>4. CASE Autoplay
  <2>1. ASSUME NEW i \in DOMAIN show.lines, NEW p \in LineCalls(show.lines[i]),
               Call(show.lines[i].path, p)
        PROVE  SettingsInv'
    BY <1>1, <2>1, LineArgs, CallSettings
  <2>2. CASE \E b : ProcessLine(b)
    BY <1>2, <2>1, <2>2 DEF ProcessLine, NoCall
  <2>3. CASE NoCall
    BY <1>2, <2>3 DEF NoCall
  <2>4. CASE UNCHANGED <<geom, control, playing, show, script>>
    BY <1>2, <2>4
  <2> QED
    BY <1>4, <2>2, <2>3, <2>4
    DEF Autoplay, AutoplayWaits, AutoplayLine, AutoplayReadFails, GiveUp
<1>5. CASE Packet
  <2>1. PICK m \in show.packets : (\E p \in OscCalls(m) : Call(m.path, p)) \/ NoCall
    BY <1>5 DEF Packet
  <2>2. ASSUME NEW p \in OscCalls(m), Call(m.path, p) PROVE SettingsInv'
    BY <1>1, <2>2, OscArgs, CallSettings
  <2> QED
    BY <1>2, <2>1, <2>2 DEF NoCall
<1>6. CASE NoPacket \/ Refill
  BY <1>2, <1>6 DEF NoPacket, Refill
<1>7. CASE Point
  <2>1. \A i \in Pointers : control[i] \in Int /\ (control[i] + 1) % MaxDelay \in 0 .. MaxDelay - 1
    BY ParamsAssumption, ModRange DEF ParamsAssumption, SettingsInv
  <2> QED
    BY <1>7, <2>1 DEF Point, geom, SettingsInv
<1>8. CASE UNCHANGED vars
  BY <1>2, <1>8 DEF vars
<1> QED
  BY <1>3, <1>4, <1>5, <1>6, <1>7, <1>8 DEF Next, MainLoop

\* The locks and the pointers stay in their ranges (FPA_param clamps the delays).
THEOREM SettingsHold == Spec => []SettingsInv
<1>1. Init => SettingsInv
  BY ParamsAssumption DEF ParamsAssumption, Init, SettingsInv, Pointers
<1> QED
  BY <1>1, NextSettings, InvariantHolds, PTL DEF Spec

\* A corner that is moved takes its mate along, or belongs to no locked edge.
LEMMA MovedEdges ==
  ASSUME CommandsInv, NEW c \in Corner, NEW x, NEW y,
         tx' = [tx EXCEPT ![c] = x, ![ColumnMate(c)] = x],
         ty' = [ty EXCEPT ![c] = y, ![RowMate(c)] = y],
         NEW l \in locks, l \in Locks, Aligned(l)
  PROVE  Aligned(l)'
<1>1. DOMAIN tx = Corner /\ DOMAIN ty = Corner
  BY DEF CommandsInv
<1>2. CASE l = "top"
  <2>1. ty[TL] = ty[TR]
    BY <1>2 DEF Aligned
  <2>2. RowMate(c) = IF IsTop(c) \/ "bottom" \in locks THEN FlipV(c) ELSE c
    BY <1>2 DEF RowMate, RowLock
  <2>3. ty'[TL] = ty'[TR]
    BY <1>1, <2>1, <2>2 DEF Corner, FlipV, IsTop, IsLeft, TL, TR, BL, BR
  <2> QED
    BY <1>2, <2>3 DEF Aligned
<1>3. CASE l = "bottom"
  <2>1. ty[BL] = ty[BR]
    BY <1>3 DEF Aligned
  <2>2. RowMate(c) = IF ~IsTop(c) \/ "top" \in locks THEN FlipV(c) ELSE c
    BY <1>3 DEF RowMate, RowLock
  <2>3. ty'[BL] = ty'[BR]
    BY <1>1, <2>1, <2>2 DEF Corner, FlipV, IsTop, IsLeft, TL, TR, BL, BR
  <2> QED
    BY <1>3, <2>3 DEF Aligned
<1>4. CASE l = "left"
  <2>1. tx[TL] = tx[BL]
    BY <1>4 DEF Aligned
  <2>2. ColumnMate(c) = IF IsLeft(c) \/ "right" \in locks THEN FlipH(c) ELSE c
    BY <1>4 DEF ColumnMate, ColumnLock
  <2>3. tx'[TL] = tx'[BL]
    BY <1>1, <2>1, <2>2 DEF Corner, FlipH, IsTop, IsLeft, TL, TR, BL, BR
  <2> QED
    BY <1>4, <2>3 DEF Aligned
<1>5. CASE l = "right"
  <2>1. tx[TR] = tx[BR]
    BY <1>5 DEF Aligned
  <2>2. ColumnMate(c) = IF ~IsLeft(c) \/ "left" \in locks THEN FlipH(c) ELSE c
    BY <1>5 DEF ColumnMate, ColumnLock
  <2>3. tx'[TR] = tx'[BR]
    BY <1>1, <2>1, <2>2 DEF Corner, FlipH, IsTop, IsLeft, TL, TR, BL, BR
  <2> QED
    BY <1>5, <2>3 DEF Aligned
<1> QED
  BY <1>2, <1>3, <1>4, <1>5 DEF Locks

\* Size and offset put the corners into a rectangle.
LEMMA SizeRectangle ==
  ASSUME GeomSetSzOffset
  PROVE  tx'[TL] = tx'[BL] /\ tx'[TR] = tx'[BR] /\ ty'[TL] = ty'[TR] /\ ty'[BL] = ty'[BR]
<1> DEFINE sz == Half(size')
           OfEdge(edge, off) == CoordClamp((IF edge < 0 THEN -sz ELSE sz) + Half(off))
<1>1. /\ tx' = [k \in Corner |-> OfEdge(EdgeX(k), offset'[1])]
      /\ ty' = [k \in Corner |-> OfEdge(EdgeY(k), offset'[2])]
  BY DEF GeomSetSzOffset
<1> HIDE DEF OfEdge
<1>2. EdgeX(TL) = EdgeX(BL) /\ EdgeX(TR) = EdgeX(BR) /\ EdgeY(TL) = EdgeY(TR) /\ EdgeY(BL) = EdgeY(BR)
  BY DEF EdgeX, EdgeY, IsLeft, IsTop, TL, TR, BL, BR
<1> QED
  BY <1>1, <1>2 DEF Corner

Straight == \A l \in locks \cap locks' : Aligned(l) => Aligned(l)'

\* A step that moves no corner keeps every locked edge straight.
LEMMA StraightIfSame ==
  ASSUME SettingsInv, tx' = tx, ty' = ty
  PROVE  Straight
BY DEF Straight, SettingsInv, Locks, Aligned

\* No OSC handler bends an edge that is locked before and after.
LEMMA CallStraight ==
  ASSUME CommandsInv, SettingsInv, NEW path, NEW p, Call(path, p)
  PROVE  Straight
<1>1. CASE path \in CornerPaths /\ GeomUpdate(CornerOf(path), Half(p[1]), Half(p[2]))
  <2> DEFINE c == CornerOf(path)
             x == Half(p[2])
             y == Half(p[1])
  <2>1. c \in Corner
    BY <1>1 DEF CornerPaths, CornerOf, Corner
  <2> HIDE DEF c, x, y
  <2>2. CASE /\ tx' = [tx EXCEPT ![c] = x, ![ColumnMate(c)] = x]
             /\ ty' = [ty EXCEPT ![c] = y, ![RowMate(c)] = y]
    BY <2>1, <2>2, MovedEdges DEF Straight, SettingsInv
  <2>3. CASE tx' = tx /\ ty' = ty
    BY <2>3, StraightIfSame
  <2>4. GeomUpdate(c, y, x)
    BY <1>1 DEF c, x, y
  <2> QED
    BY <2>2, <2>3, <2>4 DEF GeomUpdate, geom
<1>2. CASE path \in LockPaths /\ GeomUpdateLock(LockOf(path), p[1])
  BY <1>2, StraightIfSame DEF GeomUpdateLock, corners
<1>3. CASE GeomSetSzOffset
  BY <1>3, SizeRectangle DEF Straight, SettingsInv, Locks, Aligned
<1>4. CASE UNCHANGED geom
  BY <1>4, StraightIfSame DEF geom
<1> QED
  BY <1>1, <1>2, <1>3, <1>4 DEF Call

\* The corners that a step moves.
MovedCorners == {k \in Corner : <<tx[k], ty[k]>> # <<tx'[k], ty'[k]>>}

LoneMoveApart == Apart /\ Cardinality(MovedCorners) = 1 => Apart'

\* A step that moves none.
LEMMA ApartIfSame ==
  ASSUME tx' = tx, ty' = ty
  PROVE  LoneMoveApart
BY DEF LoneMoveApart, Apart

\* A step that moves one corner.
LEMMA MovedSet ==
  ASSUME Cardinality(MovedCorners) = 1
  PROVE  \E m \in Corner : MovedCorners = {m}
<1>1. IsFiniteSet(Corner)
  <2>1. Corner = 0 .. 3
    BY DEF Corner, TL, TR, BL, BR
  <2>2. 0 \in Int /\ 3 \in Int
    OBVIOUS
  <2>3. IsFiniteSet(0 .. 3)
    BY <2>2, FS_Interval, Zenon
  <2> QED
    BY <2>1, <2>3, Zenon
<1>2. IsFiniteSet(MovedCorners)
  BY <1>1, FS_Subset DEF MovedCorners
<1>3. PICK m : MovedCorners = {m}
  BY <1>2, FS_Singleton
<1> QED
  BY <1>3 DEF MovedCorners

\* A corner that moves alone, to a place that can_set_corner admits.
LEMMA AdmittedApart ==
  ASSUME Apart, NEW m \in Corner, CanSetCorner(m, tx'[m], ty'[m]),
         \A k \in Corner \ {m} : tx'[k] = tx[k] /\ ty'[k] = ty[k]
  PROVE  Apart'
<1>1. \A k \in Corner \ {m} : ~(Closer(tx'[k], tx'[m]) /\ Closer(ty'[k], ty'[m]))
  BY DEF CanSetCorner
<1>2. \A a, b : Closer(a, b) <=> Closer(b, a)
  BY DEF Closer
<1>3. ASSUME NEW i \in Corner, NEW k \in Corner, i # k
      PROVE  ~(Closer(tx'[i], tx'[k]) /\ Closer(ty'[i], ty'[k]))
  <2>1. CASE i = m \/ k = m
    BY <1>1, <1>2, <1>3, <2>1
  <2>2. CASE i # m /\ k # m
    BY <1>3, <2>2 DEF Apart
  <2> QED
    BY <2>1, <2>2
<1> QED
  BY <1>3 DEF Apart

\* Of geom_update's three positions the one that differs from the old is checked.
LEMMA UpdateApart ==
  ASSUME CommandsInv, NEW c \in Corner, NEW x, NEW y, GeomUpdate(c, y, x)
  PROVE  LoneMoveApart
<1> DEFINE h == RowMate(c)
           v == ColumnMate(c)
<1>1. CASE UNCHANGED geom
  BY <1>1, ApartIfSame DEF geom
<1>2. ASSUME /\ CanSetCorner(c, x, y)
             /\ h # c => CanSetCorner(h, tx[h], y)
             /\ v # c => CanSetCorner(v, x, ty[v])
             /\ tx' = [tx EXCEPT ![c] = x, ![v] = x]
             /\ ty' = [ty EXCEPT ![c] = y, ![h] = y],
             Apart, NEW m \in Corner, MovedCorners = {m}
      PROVE  Apart'
  <2>1. DOMAIN tx = Corner /\ DOMAIN ty = Corner
    BY DEF CommandsInv
  <2>2. h \in Corner /\ v \in Corner /\ (h = v => h = c)
    BY DEF RowMate, ColumnMate, FlipV, FlipH, IsTop, IsLeft, Corner, TL, TR, BL, BR
  <2> HIDE DEF h, v
  <2>3. \A k \in Corner \ {m} : tx'[k] = tx[k] /\ ty'[k] = ty[k]
    BY <1>2 DEF MovedCorners
  <2>4. m \in {c, h, v}
    <3>1. \A k \in Corner \ {c, h, v} : tx'[k] = tx[k] /\ ty'[k] = ty[k]
      BY <1>2, <2>1
    <3> QED
      BY <1>2, <3>1 DEF MovedCorners
  <2>5. CanSetCorner(m, tx'[m], ty'[m])
    <3>1. CASE m = c
      BY <1>2, <2>1, <2>2, <3>1
    <3>2. CASE m = h /\ m # c
      BY <1>2, <2>1, <2>2, <3>2
    <3>3. CASE m = v /\ m # c
      BY <1>2, <2>1, <2>2, <3>3
    <3> QED
      BY <2>4, <3>1, <3>2, <3>3
  <2> QED
    BY <1>2, <2>3, <2>5, AdmittedApart
<1>3. QED
  BY <1>1, <1>2, MovedSet DEF GeomUpdate, LoneMoveApart

\* Size and offset put the corners into a rectangle; any three of a rectangle's
\* corners have both of its sides, so if they are apart all four are.
LEMMA SizeApart ==
  ASSUME CommandsInv, GeomSetSzOffset
  PROVE  LoneMoveApart
<1> SUFFICES ASSUME Apart, NEW m \in Corner, MovedCorners = {m}
             PROVE  Apart'
  BY MovedSet DEF LoneMoveApart
<1>1. \A k \in Corner \ {m} : tx'[k] = tx[k] /\ ty'[k] = ty[k]
  BY DEF MovedCorners
<1>2. tx'[TL] = tx'[BL] /\ tx'[TR] = tx'[BR] /\ ty'[TL] = ty'[TR] /\ ty'[BL] = ty'[BR]
  BY SizeRectangle
<1>3. \A k \in Corner : tx[k] \in Int /\ ty[k] \in Int
  BY Constants DEF CommandsInv, Coord
<1>4. /\ \A a \in Int : TooClose > 0 => Closer(a, a)
      /\ TooClose = 0 => \A a, b \in Int : ~Closer(a, b)
      /\ \A a, b \in Int : Closer(a, b) <=> Closer(b, a)
  BY Constants DEF Closer
<1>5. \A i, k \in Corner \ {m} : i # k => ~(Closer(tx'[i], tx'[k]) /\ Closer(ty'[i], ty'[k]))
  BY <1>1 DEF Apart
<1>6. \A k \in Corner : tx'[k] \in Int /\ ty'[k] \in Int
  BY <1>1, <1>2, <1>3 DEF Corner, TL, TR, BL, BR
<1>7. ~Closer(tx'[TL], tx'[TR]) /\ ~Closer(ty'[TL], ty'[BL])
  <2>1. CASE TooClose = 0
    BY <1>4, <1>6, <2>1 DEF Corner
  <2>2. CASE TooClose > 0
    <3>1. \A k \in Corner : Closer(tx'[k], tx'[k]) /\ Closer(ty'[k], ty'[k])
      BY <1>4, <1>6, <2>2
    <3>2. ~Closer(tx'[TL], tx'[TR])
      <4>1. CASE m \in {TL, TR}
        BY <1>2, <1>5, <3>1, <4>1 DEF Corner, TL, TR, BL, BR
      <4>2. CASE m \in {BL, BR}
        BY <1>2, <1>5, <3>1, <4>2 DEF Corner, TL, TR, BL, BR
      <4> QED
        BY <4>1, <4>2 DEF Corner
    <3>3. ~Closer(ty'[TL], ty'[BL])
      <4>1. CASE m \in {TL, BL}
        BY <1>2, <1>5, <3>1, <4>1 DEF Corner, TL, TR, BL, BR
      <4>2. CASE m \in {TR, BR}
        BY <1>2, <1>5, <3>1, <4>2 DEF Corner, TL, TR, BL, BR
      <4> QED
        BY <4>1, <4>2 DEF Corner
    <3> QED
      BY <3>2, <3>3
  <2> QED
    BY <2>1, <2>2, Constants
<1>8. ~Closer(tx'[TR], tx'[TL]) /\ ~Closer(ty'[BL], ty'[TL])
  BY <1>4, <1>6, <1>7 DEF Corner
<1>9. ASSUME NEW i \in Corner, NEW k \in Corner, i # k
      PROVE  ~(Closer(tx'[i], tx'[k]) /\ Closer(ty'[i], ty'[k]))
  BY <1>2, <1>7, <1>8, <1>9 DEF Corner, TL, TR, BL, BR
<1> QED
  BY <1>9 DEF Apart

\* Every command.
LEMMA CallApart ==
  ASSUME CommandsInv, NEW path, NEW p, Call(path, p)
  PROVE  LoneMoveApart
<1>1. CASE path \in CornerPaths /\ GeomUpdate(CornerOf(path), Half(p[1]), Half(p[2]))
  <2>1. CornerOf(path) \in Corner
    BY <1>1 DEF CornerPaths, CornerOf, Corner
  <2> QED
    BY <1>1, <2>1, UpdateApart
<1>2. CASE path \in LockPaths /\ GeomUpdateLock(LockOf(path), p[1])
  BY <1>2, ApartIfSame DEF GeomUpdateLock, corners
<1>3. CASE GeomSetSzOffset
  BY <1>3, SizeApart
<1>4. CASE UNCHANGED geom
  BY <1>4, ApartIfSame DEF geom
<1> QED
  BY <1>1, <1>2, <1>3, <1>4 DEF Call

\* Setting one delay, or drawing a point, changes the delay of one color at most.
DelaysApart ==
  \A c, d \in Colors :
    c # d /\ Delay(control', c) # Delay(control, c) => Delay(control', d) = Delay(control, d)

\* Pointers that are moved up together keep their distance.
LEMMA DelayMoves ==
  ASSUME NEW a \in 0 .. MaxDelay - 1, NEW b \in 0 .. MaxDelay - 1
  PROVE  (((a + 1) % MaxDelay) - ((b + 1) % MaxDelay) + MaxDelay) % MaxDelay
           = (a - b + MaxDelay) % MaxDelay
<1>1. MaxDelay \in Nat \ {0, 1}
  BY ParamsAssumption DEF ParamsAssumption
<1>2. \A v \in 0 .. MaxDelay : v % MaxDelay = IF v = MaxDelay THEN 0 ELSE v
  BY <1>1, Z3
<1>3. \A v \in MaxDelay .. 2 * MaxDelay - 1 : v % MaxDelay = v - MaxDelay
  BY <1>1, Z3
<1>4. (a + 1) % MaxDelay = IF a + 1 = MaxDelay THEN 0 ELSE a + 1
  BY <1>1, <1>2
<1>5. (b + 1) % MaxDelay = IF b + 1 = MaxDelay THEN 0 ELSE b + 1
  BY <1>1, <1>2
<1>6. \A v \in 0 .. 2 * MaxDelay - 1 : v % MaxDelay = IF v < MaxDelay THEN v ELSE v - MaxDelay
  BY <1>1, <1>2, <1>3
<1>7. ASSUME NEW u \in 0 .. MaxDelay - 1, NEW w \in 0 .. MaxDelay - 1
      PROVE  (u - w + MaxDelay) % MaxDelay = IF u >= w THEN u - w ELSE u - w + MaxDelay
  <2> DEFINE v == u - w + MaxDelay
  <2>1. v \in 0 .. 2 * MaxDelay - 1
    BY <1>1
  <2>2. v = u - w + MaxDelay
    OBVIOUS
  <2> HIDE DEF v
  <2>3. v % MaxDelay = IF v < MaxDelay THEN v ELSE v - MaxDelay
    BY <1>6, <2>1
  <2>4. v % MaxDelay = IF u >= w THEN u - w ELSE u - w + MaxDelay
    BY <1>1, <2>2, <2>3
  <2> QED
    BY <2>2, <2>4
<1> DEFINE u == IF a + 1 = MaxDelay THEN 0 ELSE a + 1
           w == IF b + 1 = MaxDelay THEN 0 ELSE b + 1
<1>8. (u - w + MaxDelay) % MaxDelay = IF u >= w THEN u - w ELSE u - w + MaxDelay
  <2>1. u \in 0 .. MaxDelay - 1 /\ w \in 0 .. MaxDelay - 1
    BY <1>1
  <2> HIDE DEF u, w
  <2> QED
    BY <1>7, <2>1, Zenon
<1>9. (a - b + MaxDelay) % MaxDelay = IF a >= b THEN a - b ELSE a - b + MaxDelay
  BY <1>7
<1>10. (((a + 1) % MaxDelay) - ((b + 1) % MaxDelay) + MaxDelay) % MaxDelay = (u - w + MaxDelay) % MaxDelay
  BY <1>4, <1>5
<1>11. (IF u >= w THEN u - w ELSE u - w + MaxDelay)
          = IF a >= b THEN a - b ELSE a - b + MaxDelay
  BY <1>1
<1> QED
  BY <1>8, <1>9, <1>10, <1>11, Zenon

\* When a color's pointer and the common one move on together, its delay stays.
LEMMA MovedTogether ==
  ASSUME SettingsInv, NEW d \in Colors,
         control'[d] = (control[d] + 1) % MaxDelay,
         control'["consume"] = (control["consume"] + 1) % MaxDelay
  PROVE  Delay(control', d) = Delay(control, d)
<1>1. control[d] \in 0 .. MaxDelay - 1 /\ control["consume"] \in 0 .. MaxDelay - 1
  BY DEF SettingsInv, Pointers
<1> QED
  BY <1>1, DelayMoves DEF Delay

\* No OSC handler changes the delays of two colors.
LEMMA CallDelays ==
  ASSUME SettingsInv, NEW path, NEW p, Call(path, p)
  PROVE  DelaysApart
<1>1. CASE path \in DelayPaths /\ DelayLineSetDelay(ColorOf(path), p[1])
  <2> DEFINE color == ColorOf(path)
             more  == p[1] - Delay(control, color)
  <2>1. color \in Colors /\ "consume" \notin Colors
    BY <1>1 DEF DelayPaths, ColorOf, Colors
  <2>2. control' = IF more >= 0
                     THEN [control EXCEPT ![color] = (@ + more) % MaxDelay]
                     ELSE Moved(control, color)
    BY <1>1 DEF DelayLineSetDelay
  <2> HIDE DEF color, more
  <2>3. ASSUME NEW d \in Colors \ {color} PROVE Delay(control', d) = Delay(control, d)
    <3>1. CASE control' = [control EXCEPT ![color] = (@ + more) % MaxDelay]
      BY <2>1, <3>1 DEF Delay, SettingsInv
    <3>2. CASE control' = Moved(control, color)
      <4>1. DOMAIN control = Pointers /\ d \in Pointers /\ "consume" \in Pointers
        BY DEF SettingsInv, Pointers
      <4>2. /\ control'[d] = (control[d] + 1) % MaxDelay
            /\ control'["consume"] = (control["consume"] + 1) % MaxDelay
        BY <2>1, <3>2, <4>1 DEF Moved
      <4> QED
        BY <4>2, MovedTogether
    <3> QED
      BY <2>2, <3>1, <3>2
  <2> QED
    BY <2>3 DEF DelaysApart
<1>2. CASE UNCHANGED control
  BY <1>2 DEF DelaysApart
<1> QED
  BY <1>1, <1>2 DEF Call

Kept == Straight /\ LoneMoveApart /\ DelaysApart

\* Every step keeps locked edges, corners apart, and the other colors' delays.
LEMMA StepsKeep ==
  ASSUME CommandsInv, SettingsInv, [Next]_vars
  PROVE  Kept
<1>1. ASSUME UNCHANGED <<tx, ty, control>> PROVE Kept
  BY <1>1, StraightIfSame, ApartIfSame DEF Kept, DelaysApart
<1>2. ASSUME NEW path, NEW p, Call(path, p) PROVE Kept
  BY <1>2, CallStraight, CallApart, CallDelays DEF Kept
<1>3. CASE Store
  BY <1>1, <1>3 DEF Store
<1>4. CASE Autoplay
  <2>1. CASE \E b : ProcessLine(b)
    BY <1>1, <1>2, <2>1 DEF ProcessLine, NoCall, geom
  <2>2. CASE NoCall
    BY <1>1, <2>2 DEF NoCall, geom
  <2>3. CASE UNCHANGED <<geom, control, playing, show, script>>
    BY <1>1, <2>3 DEF geom
  <2> QED
    BY <1>4, <2>1, <2>2, <2>3
    DEF Autoplay, AutoplayWaits, AutoplayLine, AutoplayReadFails, GiveUp
<1>5. CASE Packet
  BY <1>1, <1>2, <1>5 DEF Packet, NoCall, geom
<1>6. CASE NoPacket \/ Refill
  BY <1>1, <1>6 DEF NoPacket, Refill, geom
<1>7. CASE Point
  <2>1. \A i \in Pointers : control'[i] = (control[i] + 1) % MaxDelay
    BY <1>7 DEF Point, SettingsInv
  <2>2. \A d \in Colors : Delay(control', d) = Delay(control, d)
    BY <2>1, MovedTogether DEF Pointers
  <2>3. Straight /\ LoneMoveApart
    BY <1>7, StraightIfSame, ApartIfSame DEF Point, geom
  <2> QED
    BY <2>2, <2>3 DEF Kept, DelaysApart
<1>8. CASE UNCHANGED vars
  BY <1>1, <1>8 DEF vars, geom
<1> QED
  BY <1>3, <1>4, <1>5, <1>6, <1>7, <1>8 DEF Next, MainLoop

\* A straight edge that is locked stays straight, whatever the commands do
\* (geom_update, geom_set_sz_offset).
THEOREM LocksHold == Spec => LockKeepsEdge
<1>1. CommandsInv /\ SettingsInv /\ [Next]_vars
        => [\A l \in locks \cap locks' : Aligned(l) => Aligned(l)']_vars
  BY StepsKeep DEF Kept, Straight
<1> QED
  BY <1>1, InvariantHolds, SettingsHold, PTL DEF Spec, LockKeepsEdge

\* Moving a single corner never brings it onto another one, whatever is locked
\* (can_set_corner, geom_update).
THEOREM CornersStayApart == Spec => MovesKeepApart
<1>1. CommandsInv /\ SettingsInv /\ [Next]_vars
        => [Apart /\ Cardinality({k \in Corner : <<tx[k], ty[k]>> # <<tx'[k], ty'[k]>>}) = 1
              => Apart']_vars
  BY StepsKeep DEF Kept, LoneMoveApart, MovedCorners
<1> QED
  BY <1>1, InvariantHolds, SettingsHold, PTL DEF Spec, MovesKeepApart

\* No color's delay is changed by setting another's, or by the FIQ
\* (delay_line_set_delay).
THEOREM DelaysAreApart == Spec => OthersKeepDelay
<1>1. CommandsInv /\ SettingsInv /\ [Next]_vars
        => [\A c, d \in Colors :
              c # d /\ Delay(control', c) # Delay(control, c)
                => Delay(control', d) = Delay(control, d)]_vars
  BY StepsKeep DEF Kept, DelaysApart
<1> QED
  BY <1>1, InvariantHolds, SettingsHold, PTL DEF Spec, OthersKeepDelay

--------------------------------------------------------------------------------
(* Induction over the natural numbers                                      *)

\* A set of naturals has a least element.
LEMMA LeastNat ==
  ASSUME NEW T, T \subseteq Nat, T # {}
  PROVE  \E x \in T : \A y \in T : x <= y
<1> DEFINE R == OpToRel(<, Nat)
<1>1. R = {p \in Nat \X Nat : p[1] < p[2]}
  BY Zenon DEF OpToRel
<1>2. IsWellFoundedOn(R, Nat)
  BY NatLessThanWellFounded
<1> HIDE DEF R
<1>3. PICK x \in T : \A y \in T : ~ (<<y, x>> \in R)
  BY <1>2, WFMin
<1>4. ASSUME NEW y \in T PROVE x <= y
  <2>1. x \in Nat /\ y \in Nat /\ <<y, x>> \in Nat \X Nat
    OBVIOUS
  <2>2. y < x => <<y, x>> \in R
    BY <1>1, <2>1
  <2> QED
    BY <1>3, <2>1, <2>2
<1> QED
  BY <1>4

\* What is true of 0, and of n + 1 if it is of n, is true of all: sets of naturals.
LEMMA Induction ==
  ASSUME NEW T, 0 \in T, \A n \in Nat : n \in T => n + 1 \in T
  PROVE  \A n \in Nat : n \in T
<1> SUFFICES ASSUME Nat \ T # {} PROVE FALSE
  OBVIOUS
<1>1. PICK x \in Nat \ T : \A y \in Nat \ T : x <= y
  BY LeastNat
<1>2. x - 1 \in Nat /\ x - 1 \notin T /\ x - 1 + 1 = x
  BY <1>1
<1> QED
  BY <1>1, <1>2

--------------------------------------------------------------------------------
(* The script's file                                                       *)

\* Characters, lines, and lines with their ends.
Char == Nat \X Nat
LineLen(s, i) == s.lines[i].len
WithEnds(s) == [i \in DOMAIN s.lines |-> Append(Chars(s, i), EndOfLine)]

\* The lines of a show are a sequence of character sequences.
LEMMA ShowFacts ==
  ASSUME NEW s \in Shows
  PROVE  /\ s.closed \in BOOLEAN /\ Len(s.lines) \in Nat /\ DOMAIN s.lines = 1 .. Len(s.lines)
         /\ \A i \in 1 .. Len(s.lines) : LineLen(s, i) \in Nat
BY CommandsAssumption DEF CommandsAssumption, LineLen

\* A line with its end.
LEMMA LineIs ==
  ASSUME NEW s \in Shows, NEW i \in 1 .. Len(s.lines)
  PROVE  /\ Chars(s, i) \in Seq(Char) /\ Len(Chars(s, i)) = LineLen(s, i)
         /\ \A p \in 1 .. LineLen(s, i) : Chars(s, i)[p] = <<i, p>> /\ <<i, p>> # EndOfLine
         /\ WithEnds(s)[i] \in Seq(Char) /\ Len(WithEnds(s)[i]) = LineLen(s, i) + 1
         /\ \A p \in 1 .. LineLen(s, i) : WithEnds(s)[i][p] = <<i, p>>
         /\ WithEnds(s)[i][LineLen(s, i) + 1] = EndOfLine
<1>1. LineLen(s, i) \in Nat /\ i \in DOMAIN s.lines /\ i \in Nat /\ i # 0
  BY ShowFacts
<1> DEFINE c == Chars(s, i)
           n == LineLen(s, i)
<1>2. c = [p \in 1 .. n |-> <<i, p>>]
  BY DEF Chars, LineLen
<1> HIDE DEF c, n
<1>3. c \in [1 .. n -> Char]
  BY <1>1, <1>2 DEF Char, n
<1>4. c \in Seq(Char)
  BY <1>1, <1>3, SeqDef DEF n
<1>5. Len(c) = n
  BY <1>1, <1>3, <1>4, LenProperties DEF n
<1>6. \A p \in 1 .. n : c[p] = <<i, p>> /\ <<i, p>> # EndOfLine
  BY <1>1, <1>2 DEF EndOfLine
<1>7. EndOfLine \in Char
  BY DEF EndOfLine, Char
<1>8. WithEnds(s)[i] = Append(c, EndOfLine)
  BY <1>1 DEF WithEnds, c
<1>9. /\ Append(c, EndOfLine) \in Seq(Char) /\ Len(Append(c, EndOfLine)) = n + 1
      /\ \A p \in 1 .. n : Append(c, EndOfLine)[p] = c[p]
      /\ Append(c, EndOfLine)[n + 1] = EndOfLine
  BY <1>4, <1>5, <1>7, AppendProperties
<1> QED
  BY <1>4, <1>5, <1>6, <1>8, <1>9 DEF c, n

\* f puts the first n of the sequences together, one by one.
Flattens(seqs, f, n) ==
  /\ DOMAIN f = 1 .. n
  /\ \A i \in 1 .. n : f[i] = IF i = 1 THEN seqs[1] ELSE f[i - 1] \o seqs[i]

\* Concatenating the first n of some sequences is defined step by step.
LEMMA FlattenExists ==
  ASSUME NEW seqs, NEW n \in Nat
  PROVE  \E f : Flattens(seqs, f, n)
<1> DEFINE T == {m \in Nat : \E f : Flattens(seqs, f, m)}
<1>1. 0 \in T
  <2>1. Flattens(seqs, [i \in 1 .. 0 |-> 0], 0)
    BY DEF Flattens
  <2> QED
    BY <2>1
<1>2. ASSUME NEW m \in Nat, m \in T PROVE m + 1 \in T
  <2>1. PICK f : Flattens(seqs, f, m)
    BY <1>2
  <2> DEFINE last == IF m + 1 = 1 THEN seqs[1] ELSE f[m] \o seqs[m + 1]
             f2 == [i \in 1 .. m + 1 |-> IF i <= m THEN f[i] ELSE last]
  <2> HIDE DEF last
  <2>2. /\ DOMAIN f2 = 1 .. m + 1
        /\ \A i \in 1 .. m : f2[i] = f[i]
        /\ f2[m + 1] = last
    OBVIOUS
  <2> HIDE DEF f2
  <2>3. ASSUME NEW i \in 1 .. m + 1
        PROVE  f2[i] = IF i = 1 THEN seqs[1] ELSE f2[i - 1] \o seqs[i]
    <3>1. CASE i = m + 1
      <4>1. i # 1 => i - 1 = m /\ f2[m] = f[m]
        BY <2>2, <3>1
      <4> QED
        BY <2>2, <3>1, <4>1 DEF last
    <3>2. CASE i <= m
      <4>1. i \in 1 .. m /\ (i # 1 => i - 1 \in 1 .. m)
        BY <3>2
      <4>2. f2[i] = f[i] /\ (i # 1 => f2[i - 1] = f[i - 1])
        BY <2>2, <4>1
      <4> QED
        BY <2>1, <4>1, <4>2 DEF Flattens
    <3> QED
      BY <3>1, <3>2
  <2>4. Flattens(seqs, f2, m + 1)
    BY <2>2, <2>3 DEF Flattens
  <2> QED
    BY <2>4
<1> HIDE DEF T
<1>3. n \in T
  BY <1>1, <1>2, Induction
<1> QED
  BY <1>3 DEF T

\* FlattenSeq is what its recursive definition says.
LEMMA FlattenIs ==
  ASSUME NEW seqs, Len(seqs) \in Nat \ {0}
  PROVE  \E f : Flattens(seqs, f, Len(seqs)) /\ FlattenSeq(seqs) = f[Len(seqs)]
<1> DEFINE n == Len(seqs)
           Body(f) == [i \in 1 .. n |-> IF i = 1 THEN seqs[i] ELSE f[i - 1] \o seqs[i]]
           flat == CHOOSE f : f = Body(f)
<1>1. PICK f : Flattens(seqs, f, n)
  BY FlattenExists
<1> DEFINE g == [i \in 1 .. n |-> f[i]]
<1>2. g = Body(g)
  <2>1. ASSUME NEW i \in 1 .. n PROVE g[i] = Body(g)[i]
    <3>1. CASE i = 1
      BY <1>1, <3>1 DEF Flattens
    <3>2. CASE i # 1
      <4>1. i - 1 \in 1 .. n
        BY <3>2
      <4>2. g[i] = f[i] /\ g[i - 1] = f[i - 1]
        BY <4>1
      <4>3. f[i] = f[i - 1] \o seqs[i]
        BY <1>1, <3>2 DEF Flattens
      <4> HIDE DEF g
      <4> QED
        BY <3>2, <4>2, <4>3
    <3> QED
      BY <3>1, <3>2
  <2>2. g = [i \in 1 .. n |-> g[i]]
    OBVIOUS
  <2>3. Body(g) = [i \in 1 .. n |-> Body(g)[i]]
    OBVIOUS
  <2> HIDE DEF g, Body
  <2> QED
    BY <2>1, <2>2, <2>3
<1> HIDE DEF g
<1>3. flat = Body(flat)
  BY <1>2
<1>4. FlattenSeq(seqs) = flat[n]
  BY DEF FlattenSeq
<1> HIDE DEF flat
<1>5. Flattens(seqs, flat, n)
  <2>1. DOMAIN flat = 1 .. n
    BY <1>3
  <2>2. ASSUME NEW i \in 1 .. n
        PROVE  flat[i] = IF i = 1 THEN seqs[1] ELSE flat[i - 1] \o seqs[i]
    <3>1. flat[i] = Body(flat)[i]
      BY <1>3
    <3>2. Body(flat)[i] = IF i = 1 THEN seqs[i] ELSE flat[i - 1] \o seqs[i]
      OBVIOUS
    <3> HIDE DEF Body
    <3> QED
      BY <3>1, <3>2
  <2> QED
    BY <2>1, <2>2 DEF Flattens
<1> QED
  BY <1>4, <1>5

\* The k elements of t behind the m-th.
LEMMA Slice ==
  ASSUME NEW S, NEW t, NEW m \in Nat, NEW k \in Nat,
         NEW a, a = m + 1, NEW z, z = m + k, \A j \in a .. z : t[j] \in S
  PROVE  /\ SubSeq(t, a, z) \in Seq(S) /\ Len(SubSeq(t, a, z)) = k
         /\ \A j \in 1 .. k : SubSeq(t, a, z)[j] = t[m + j]
<1> DEFINE u == SubSeq(t, a, z)
<1>1. a \in Int /\ z \in Int
  OBVIOUS
<1>2. /\ u \in Seq(S) /\ Len(u) = IF a <= z THEN z - a + 1 ELSE 0
      /\ \A j \in 1 .. z - a + 1 : u[j] = t[a + j - 1]
  BY <1>1, SubSeqProperties
<1>3. z - a + 1 = k /\ (a <= z <=> 1 <= k) /\ \A j \in 1 .. k : a + j - 1 = m + j
  OBVIOUS
<1> HIDE DEF u
<1>4. Len(u) = k
  BY <1>2, <1>3
<1>5. \A j \in 1 .. k : u[j] = t[m + j]
  BY <1>2, <1>3
<1> QED
  BY <1>2, <1>4, <1>5, Zenon DEF u

\* Line k of the script s ends with character number off[k] of its file; the end
\* of the last line may be missing.
Layout(s, off) ==
  LET n == Len(s.lines)
  IN /\ off \in [0 .. n -> Nat] /\ off[0] = 0
     /\ \A k \in 1 .. n : off[k] = off[k - 1] + LineLen(s, k) + 1
     /\ \A k \in 0 .. n : off[k] <= off[n]
     /\ File(s) \in Seq(Char)
     /\ Len(File(s)) <= off[n] /\ Len(File(s)) >= off[n] - 1
     /\ \A k \in 1 .. n : \A p \in 1 .. LineLen(s, k) : File(s)[off[k - 1] + p] = <<k, p>>
     /\ \A k \in 1 .. n : off[k] <= Len(File(s)) => File(s)[off[k]] = EndOfLine

\* The same of the lines put together, before the last end is taken off.
Laid(s, off, t, m) ==
  /\ t \in Seq(Char) /\ Len(t) = off[m]
  /\ \A k \in 0 .. m : off[k] \in Nat /\ off[k] <= off[m]
  /\ \A k \in 1 .. m :
       /\ off[k] = off[k - 1] + LineLen(s, k) + 1
       /\ \A p \in 1 .. LineLen(s, k) : t[off[k - 1] + p] = <<k, p>>
       /\ t[off[k]] = EndOfLine

\* One line more.
LEMMA LaidStep ==
  ASSUME NEW s \in Shows, NEW m \in Nat, m + 1 \in 1 .. Len(s.lines),
         NEW off, off[0] = 0, off[m + 1] = off[m] + LineLen(s, m + 1) + 1,
         NEW t, Laid(s, off, t, m)
  PROVE  Laid(s, off, t \o WithEnds(s)[m + 1], m + 1)
<1> DEFINE i == m + 1
           l == LineLen(s, i)
           w == WithEnds(s)[i]
           u == t \o w
<1>1. /\ l \in Nat /\ w \in Seq(Char) /\ Len(w) = l + 1
      /\ \A p \in 1 .. l : w[p] = <<i, p>>
      /\ w[l + 1] = EndOfLine
  BY LineIs, ShowFacts
<1>2. /\ t \in Seq(Char) /\ Len(t) = off[m] /\ off[m] \in Nat
      /\ \A k \in 0 .. m : off[k] \in Nat /\ off[k] <= off[m]
  BY DEF Laid
<1>11. off[i] = off[m] + l + 1
  OBVIOUS
<1> HIDE DEF l, w
<1>12. off[m] \in Nat /\ l \in Nat
  BY <1>1, <1>2
<1>3. off[i] \in Nat /\ off[i] = off[m] + (l + 1) /\ off[m] <= off[i]
  BY <1>11, <1>12
<1>4. /\ u \in Seq(Char) /\ Len(u) = Len(t) + Len(w)
      /\ \A q \in 1 .. Len(t) + Len(w) : u[q] = IF q <= Len(t) THEN t[q] ELSE w[q - Len(t)]
  BY <1>1, <1>2, ConcatProperties
<1> HIDE DEF u
<1>5. \A q \in 1 .. off[m] : u[q] = t[q]
  BY <1>1, <1>2, <1>4
<1>6. \A q \in 1 .. l + 1 : u[off[m] + q] = w[q]
  <2> SUFFICES ASSUME NEW q \in 1 .. l + 1 PROVE u[off[m] + q] = w[q]
    OBVIOUS
  <2> DEFINE o == off[m]
             r == o + q
  <2>1. o \in Nat /\ Len(t) = o /\ Len(w) = l + 1 /\ l \in Nat
    BY <1>1, <1>2
  <2> HIDE DEF o
  <2>2. r \in 1 .. Len(t) + Len(w) /\ ~(r <= Len(t)) /\ r - Len(t) = q
    BY <2>1
  <2> HIDE DEF r
  <2>3. u[r] = w[q]
    BY <1>4, <2>2
  <2> QED
    BY <2>3 DEF r, o
<1>7. ASSUME NEW k \in 1 .. i
      PROVE  /\ off[k] = off[k - 1] + LineLen(s, k) + 1
             /\ \A p \in 1 .. LineLen(s, k) : u[off[k - 1] + p] = <<k, p>>
             /\ u[off[k]] = EndOfLine
  <2>1. CASE k = i
    <3>1. k - 1 = m /\ LineLen(s, k) = l /\ k = i
      BY <2>1 DEF l
    <3>2. \A p \in 1 .. l : u[off[m] + p] = <<i, p>>
      BY <1>1, <1>6
    <3>3. u[off[i]] = EndOfLine
      <4>1. l + 1 \in 1 .. l + 1
        BY <1>12
      <4> QED
        BY <1>1, <1>3, <1>6, <4>1
    <3>4. /\ off[i] = off[i - 1] + LineLen(s, i) + 1
          /\ \A p \in 1 .. LineLen(s, i) : u[off[i - 1] + p] = <<i, p>>
      BY <1>11, <2>1, <3>1, <3>2
    <3> QED
      BY <3>1, <3>3, <3>4
  <2>2. CASE k <= m
    <3>1. /\ off[k] = off[k - 1] + LineLen(s, k) + 1
          /\ \A p \in 1 .. LineLen(s, k) : t[off[k - 1] + p] = <<k, p>>
          /\ t[off[k]] = EndOfLine
      BY <2>2 DEF Laid
    <3>2. off[k - 1] \in Nat /\ off[k] \in Nat /\ off[k] <= off[m] /\ LineLen(s, k) \in Nat
      BY <1>2, <2>2, ShowFacts
    <3>3. off[k] \in 1 .. off[m] /\ \A p \in 1 .. LineLen(s, k) : off[k - 1] + p \in 1 .. off[m]
      <4>1. off[m] \in Nat /\ off[k] = off[k - 1] + LineLen(s, k) + 1
        BY <1>2, <3>1
      <4> QED
        BY <3>2, <4>1
    <3> QED
      BY <1>5, <3>1, <3>3
  <2>3. k = i \/ k <= m
    OBVIOUS
  <2> QED
    BY <2>1, <2>2, <2>3, Zenon
<1>8. \A k \in 0 .. i : off[k] \in Nat /\ off[k] <= off[i]
  BY <1>1, <1>2, <1>3
<1>13. Len(u) = Len(t) + Len(w) /\ Len(t) = off[m] /\ Len(w) = l + 1
  BY <1>1, <1>2, <1>4
<1>9. Len(u) = off[i]
  BY <1>3, <1>13
<1>10. Laid(s, off, u, i)
  BY <1>4, <1>7, <1>8, <1>9 DEF Laid
<1> QED
  BY <1>10 DEF u, w

\* A script's file without the question of its last end.
AllLines(s) == FlattenSeq(WithEnds(s))

\* The lines with their ends are sequences of characters.
LEMMA WithEndsSeq ==
  ASSUME NEW s \in Shows
  PROVE  /\ WithEnds(s) \in Seq(Seq(Char)) /\ Len(WithEnds(s)) = Len(s.lines)
         /\ Len(s.lines) = 0 => WithEnds(s) = <<>>
<1> DEFINE n == Len(s.lines)
           w == WithEnds(s)
<1>1. n \in Nat /\ DOMAIN s.lines = 1 .. n
  BY ShowFacts
<1>2. \A i \in 1 .. n : w[i] \in Seq(Char)
  BY LineIs
<1>3. w = [i \in 1 .. n |-> w[i]]
  BY <1>1 DEF WithEnds
<1> HIDE DEF n, w
<1>4. w \in [1 .. n -> Seq(Char)]
  BY <1>2, <1>3
<1>5. w \in Seq(Seq(Char))
  BY <1>1, <1>4, SeqDef
<1>6. Len(w) = n
  BY <1>1, <1>4, <1>5, LenProperties
<1>7. n = 0 => w = <<>>
  BY <1>5, <1>6, EmptySeq, SeqEqual
<1> QED
  BY <1>5, <1>6, <1>7 DEF n, w

\* In the text of a script every line has a place.
LEMMA AllLaid ==
  ASSUME NEW s \in Shows
  PROVE  \E off \in [0 .. Len(s.lines) -> Nat] : off[0] = 0 /\ Laid(s, off, AllLines(s), Len(s.lines))
<1> DEFINE n == Len(s.lines)
           w == WithEnds(s)
<1>1. n \in Nat /\ Len(w) = n /\ w \in Seq(Seq(Char)) /\ (n = 0 => w = <<>>)
  BY ShowFacts, WithEndsSeq
<1>2. CASE n = 0
  <2> DEFINE off == [k \in 0 .. 0 |-> 0]
  <2>1. AllLines(s) = <<>>
    BY <1>1, <1>2 DEF AllLines, FlattenSeq
  <2>2. Laid(s, off, <<>>, 0)
    BY EmptySeq DEF Laid
  <2> QED
    BY <1>2, <2>1, <2>2
<1>3. CASE n # 0
  <2>1. PICK f : Flattens(w, f, n) /\ AllLines(s) = f[n]
    BY <1>1, <1>3, FlattenIs DEF AllLines
  <2> DEFINE off == [k \in 0 .. n |-> IF k = 0 THEN 0 ELSE Len(f[k])]
             T == {m \in Nat : m >= 1 /\ m <= n => Laid(s, off, f[m], m)}
  <2>2. off[0] = 0 /\ \A k \in 1 .. n : off[k] = Len(f[k])
    BY <1>1
  <2>3. DOMAIN off = 0 .. n
    OBVIOUS
  <2> HIDE DEF off, w, n
  <2>4. 0 \in T
    OBVIOUS
  <2>5. ASSUME NEW m \in Nat, m \in T PROVE m + 1 \in T
    <3> SUFFICES ASSUME m + 1 <= n PROVE Laid(s, off, f[m + 1], m + 1)
      OBVIOUS
    <3>1. m + 1 \in 1 .. n
      BY <1>1
    <3>2. /\ w[m + 1] \in Seq(Char) /\ Len(w[m + 1]) = LineLen(s, m + 1) + 1
          /\ LineLen(s, m + 1) \in Nat
      BY <3>1, LineIs, ShowFacts DEF n, w
    <3>3. CASE m = 0
      <4>1. Laid(s, off, <<>>, 0)
        BY <2>2, EmptySeq DEF Laid
      <4>6. 1 \in 1 .. n /\ m + 1 = 1
        BY <3>1, <3>3
      <4>2. f[1] = w[1] /\ off[1] = Len(w[1])
        BY <2>1, <2>2, <4>6 DEF Flattens
      <4>3. off[1] = off[0] + LineLen(s, 1) + 1
        BY <2>2, <3>2, <3>3, <4>2
      <4>4. <<>> \o w[1] = w[1]
        BY <3>2, <3>3, ConcatEmptySeq
      <4>5. Laid(s, off, <<>> \o w[1], 1)
        <5>1. /\ 0 \in Nat /\ 0 + 1 \in 1 .. Len(s.lines) /\ 0 + 1 = 1
              /\ off[0 + 1] = off[0] + LineLen(s, 0 + 1) + 1
          BY <4>3, <4>6 DEF n
        <5>2. Laid(s, off, <<>> \o WithEnds(s)[0 + 1], 0 + 1)
          BY <2>2, <4>1, <5>1, LaidStep
        <5> QED
          BY <5>1, <5>2 DEF w
      <4> QED
        BY <3>3, <4>2, <4>4, <4>5
    <3>4. CASE m # 0
      <4>1. Laid(s, off, f[m], m)
        BY <1>1, <2>5, <3>1, <3>4
      <4>6. m + 1 # 1 /\ m + 1 - 1 = m
        BY <3>4
      <4>2. f[m + 1] = f[m] \o w[m + 1]
        <5>1. f[m + 1] = IF m + 1 = 1 THEN w[1] ELSE f[m + 1 - 1] \o w[m + 1]
          <6>1. \A j \in 1 .. n : f[j] = IF j = 1 THEN w[1] ELSE f[j - 1] \o w[j]
            BY <2>1 DEF Flattens
          <6> QED
            BY <3>1, <6>1
        <5> QED
          BY <4>6, <5>1
      <4>7. f[m] \in Seq(Char) /\ Len(f[m]) = off[m] /\ off[m] \in Nat
        BY <4>1 DEF Laid
      <4>3. Len(f[m + 1]) = Len(f[m]) + Len(w[m + 1]) /\ Len(f[m]) = off[m] /\ off[m] \in Nat
        <5>1. Len(f[m] \o w[m + 1]) = Len(f[m]) + Len(w[m + 1])
          BY <3>2, <4>7, ConcatProperties, Zenon
        <5> QED
          BY <4>2, <4>7, <5>1
      <4>4. off[m + 1] = off[m] + LineLen(s, m + 1) + 1
        BY <2>2, <3>1, <3>2, <4>3
      <4>5. Laid(s, off, f[m] \o w[m + 1], m + 1)
        BY <2>2, <3>1, <4>1, <4>4, LaidStep DEF n, w
      <4> QED
        BY <4>2, <4>5
    <3> QED
      BY <3>3, <3>4
  <2> HIDE DEF T
  <2>6. n \in T
    BY <1>1, <2>4, <2>5, Induction
  <2>7. Laid(s, off, f[n], n)
    BY <1>1, <1>3, <2>6 DEF T
  <2>8. off \in [0 .. n -> Nat]
    <3>1. \A k \in 0 .. n : off[k] \in Nat
      BY <2>7 DEF Laid
    <3> QED
      BY <3>1 DEF off
  <2> QED
    BY <2>1, <2>2, <2>7, <2>8 DEF n
<1> QED
  BY <1>2, <1>3

\* Every script's file is laid out like this.
LEMMA LayoutExists ==
  ASSUME NEW s \in Shows
  PROVE  \E off : Layout(s, off)
<1> DEFINE n == Len(s.lines)
           all == AllLines(s)
<1>1. PICK off \in [0 .. n -> Nat] : off[0] = 0 /\ Laid(s, off, all, n)
  BY AllLaid
<1>2. /\ n \in Nat /\ all \in Seq(Char) /\ Len(all) = off[n] /\ off[n] \in Nat
      /\ \A k \in 0 .. n : off[k] \in Nat /\ off[k] <= off[n]
      /\ \A k \in 1 .. n : LineLen(s, k) \in Nat
  BY <1>1, ShowFacts DEF Laid
<1>3. File(s) = IF s.closed \/ all = <<>> THEN all ELSE SubSeq(all, 1, Len(all) - 1)
  BY DEF File, AllLines, WithEnds, Front
<1> HIDE DEF all, n
<1>4. /\ File(s) \in Seq(Char)
      /\ Len(File(s)) <= off[n] /\ Len(File(s)) >= off[n] - 1
      /\ \A q \in 1 .. Len(File(s)) : File(s)[q] = all[q]
  <2>1. CASE s.closed \/ all = <<>>
    BY <1>2, <1>3, <2>1
  <2>2. CASE ~(s.closed \/ all = <<>>)
    <3>1. Len(all) \in Nat \ {0}
      BY <1>2, <2>2, EmptySeq
    <3> DEFINE c == Len(all)
    <3> HIDE DEF c
    <3>4. c \in Nat /\ c >= 1 /\ c - 1 - 1 + 1 = c - 1
      BY <3>1 DEF c
    <3>2. \A q \in 1 .. Len(all) - 1 : all[q] \in Char
      BY <1>2, <3>1, ElementOfSeq
    <3>3. /\ SubSeq(all, 1, Len(all) - 1) \in Seq(Char)
          /\ Len(SubSeq(all, 1, Len(all) - 1)) = Len(all) - 1
          /\ \A q \in 1 .. Len(all) - 1 : SubSeq(all, 1, Len(all) - 1)[q] = all[q]
      <4> DEFINE z == Len(all) - 1
      <4>1. 0 \in Nat /\ z \in Nat /\ 1 = 0 + 1 /\ z = 0 + z /\ \A q \in 1 .. z : 0 + q = q
        BY <3>1
      <4> HIDE DEF z
      <4>2. /\ SubSeq(all, 1, z) \in Seq(Char) /\ Len(SubSeq(all, 1, z)) = z
            /\ \A q \in 1 .. z : SubSeq(all, 1, z)[q] = all[0 + q]
        BY <3>2, <4>1, Slice DEF z
      <4> QED
        BY <4>1, <4>2 DEF z
    <3> QED
      BY <1>2, <1>3, <2>2, <3>1, <3>3
  <2> QED
    BY <2>1, <2>2
<1>5. /\ \A k \in 1 .. n : off[k] = off[k - 1] + LineLen(s, k) + 1
      /\ \A k \in 1 .. n : \A p \in 1 .. LineLen(s, k) : all[off[k - 1] + p] = <<k, p>>
      /\ \A k \in 1 .. n : all[off[k]] = EndOfLine
  BY <1>1 DEF Laid
<1>6. \A k \in 1 .. n : \A p \in 1 .. LineLen(s, k) : File(s)[off[k - 1] + p] = <<k, p>>
  <2> SUFFICES ASSUME NEW k \in 1 .. n, NEW p \in 1 .. LineLen(s, k)
               PROVE  File(s)[off[k - 1] + p] = <<k, p>>
    OBVIOUS
  <2>1. off[k - 1] \in Nat /\ LineLen(s, k) \in Nat /\ off[k] <= off[n] /\ off[k] \in Nat
    BY <1>2
  <2>2. off[k] = off[k - 1] + LineLen(s, k) + 1
    BY <1>5
  <2>3. Len(File(s)) \in Nat
    BY <1>4, LenProperties
  <2>4. off[k - 1] + p \in 1 .. Len(File(s))
    BY <1>2, <1>4, <2>1, <2>2, <2>3
  <2> QED
    BY <1>4, <1>5, <2>4
<1>7. \A k \in 1 .. n : off[k] <= Len(File(s)) => File(s)[off[k]] = EndOfLine
  <2> SUFFICES ASSUME NEW k \in 1 .. n, off[k] <= Len(File(s))
               PROVE  File(s)[off[k]] = EndOfLine
    OBVIOUS
  <2>1. off[k - 1] \in Nat /\ LineLen(s, k) \in Nat /\ off[k] \in Nat
    BY <1>2
  <2>2. off[k] = off[k - 1] + LineLen(s, k) + 1
    BY <1>5
  <2>3. off[k] \in 1 .. Len(File(s))
    BY <1>4, <2>1, <2>2, LenProperties
  <2> QED
    BY <1>4, <1>5, <2>3
<1>8. Layout(s, off)
  BY <1>1, <1>2, <1>4, <1>5, <1>6, <1>7 DEF Layout, n
<1> QED
  BY <1>8

Off(s) == CHOOSE off : Layout(s, off)

\* Off gives those places.
LEMMA LayoutOff ==
  ASSUME NEW s \in Shows
  PROVE  Layout(s, Off(s))
BY LayoutExists DEF Off

--------------------------------------------------------------------------------
(* The script, line by line                                                *)

\* The characters of b are those of the script's file from line r + 1 on.
Follows(s, r, b) ==
  /\ b \in Seq(Char)
  /\ Off(s)[r] + Len(b) <= Len(File(s))
  /\ \A j \in 1 .. Len(b) : b[j] = File(s)[Off(s)[r] + j]

\* What stands at and behind the place of a line, the last one's included.
LEMMA OffFacts ==
  ASSUME NEW s \in Shows, NEW r \in 0 .. Len(s.lines)
  PROVE  /\ Off(s)[r] \in Nat /\ Len(File(s)) \in Nat /\ Len(s.lines) \in Nat
         /\ r = Len(s.lines) => Off(s)[r] >= Len(File(s))
         /\ r + 1 \in 1 .. Len(s.lines) =>
              /\ Off(s)[r + 1] = Off(s)[r] + LineLen(s, r + 1) + 1
              /\ \A p \in 1 .. LineLen(s, r + 1) : File(s)[Off(s)[r] + p] = <<r + 1, p>>
              /\ Off(s)[r + 1] <= Len(File(s)) => File(s)[Off(s)[r + 1]] = EndOfLine
<1> DEFINE off == Off(s)
<1>1. Layout(s, off) /\ Len(s.lines) \in Nat
  BY LayoutOff, ShowFacts
<1> HIDE DEF off
<1>2. off[r] \in Nat /\ Len(File(s)) \in Nat
  BY <1>1, LenProperties DEF Layout
<1>3. r = Len(s.lines) => off[r] >= Len(File(s))
  BY <1>1, <1>2 DEF Layout
<1>4. ASSUME r + 1 \in 1 .. Len(s.lines)
      PROVE  /\ off[r + 1] = off[r] + LineLen(s, r + 1) + 1
             /\ \A p \in 1 .. LineLen(s, r + 1) : File(s)[off[r] + p] = <<r + 1, p>>
             /\ off[r + 1] <= Len(File(s)) => File(s)[off[r + 1]] = EndOfLine
  <2>1. r + 1 - 1 = r
    OBVIOUS
  <2>2. \A k \in 1 .. Len(s.lines) :
          /\ off[k] = off[k - 1] + LineLen(s, k) + 1
          /\ \A p \in 1 .. LineLen(s, k) : File(s)[off[k - 1] + p] = <<k, p>>
          /\ off[k] <= Len(File(s)) => File(s)[off[k]] = EndOfLine
    BY <1>1 DEF Layout
  <2> QED
    BY <1>4, <2>1, <2>2
<1> QED
  BY <1>1, <1>2, <1>3, <1>4 DEF off

\* The first newline in what follows line r is the end of line r + 1.
LEMMA FirstLine ==
  ASSUME NEW s \in Shows, NEW r \in 0 .. Len(s.lines), NEW b, Follows(s, r, b), Has(b)
  PROVE  /\ r + 1 \in 1 .. Len(s.lines)
         /\ Newline(b) \in 1 .. Len(b) /\ Off(s)[r + 1] = Off(s)[r] + Newline(b)
         /\ Line(b) = Chars(s, r + 1)
<1> DEFINE o == Off(s)[r]
           i == r + 1
           l == LineLen(s, i)
           f == File(s)
<1>1. /\ b \in Seq(Char) /\ Len(b) \in Nat /\ DOMAIN b = 1 .. Len(b)
      /\ o \in Nat /\ Len(f) \in Nat /\ o + Len(b) <= Len(f)
      /\ \A j \in 1 .. Len(b) : b[j] = f[o + j]
  BY OffFacts, LenProperties DEF Follows
<1>2. PICK n \in 1 .. Len(b) : b[n] = EndOfLine
  BY <1>1 DEF Has
<1>3. i \in 1 .. Len(s.lines)
  <2>1. r # Len(s.lines)
    <3> SUFFICES ASSUME r = Len(s.lines) PROVE FALSE
      OBVIOUS
    <3>1. o >= Len(f)
      BY OffFacts
    <3> HIDE DEF o, f
    <3> QED
      BY <1>1, <1>2, <3>1
  <2> QED
    BY <2>1, OffFacts
<1>4. /\ l \in Nat /\ Off(s)[i] = o + l + 1
      /\ \A p \in 1 .. l : f[o + p] = <<i, p>> /\ <<i, p>> # EndOfLine
      /\ Off(s)[i] <= Len(f) => f[Off(s)[i]] = EndOfLine
  BY <1>3, OffFacts, ShowFacts, LineIs
<1> DEFINE e == Off(s)[i]
<1> HIDE DEF o, l, f, e
<1>5. \A p \in 1 .. Len(b) : p <= l => b[p] = <<i, p>> /\ b[p] # EndOfLine
  <2> SUFFICES ASSUME NEW p \in 1 .. Len(b), p <= l
               PROVE  b[p] = <<i, p>> /\ b[p] # EndOfLine
    OBVIOUS
  <2>1. p \in 1 .. l
    BY <1>4
  <2> QED
    BY <1>1, <1>4, <2>1
<1>6. l + 1 <= Len(b) /\ l + 1 \in 1 .. Len(b)
  BY <1>1, <1>2, <1>4, <1>5
<1>7. b[l + 1] = EndOfLine
  <2>1. e = o + (l + 1) /\ e <= Len(f)
    BY <1>1, <1>4, <1>6 DEF e
  <2>2. f[e] = EndOfLine
    BY <1>4, <2>1 DEF e
  <2>3. b[l + 1] = f[o + (l + 1)]
    BY <1>1, <1>6
  <2> QED
    BY <2>1, <2>2, <2>3
<1>8. Newline(b) = l + 1
  <2> DEFINE First(m) == b[m] = EndOfLine /\ \A k \in 1 .. m - 1 : b[k] # EndOfLine
  <2>1. First(l + 1)
    BY <1>1, <1>4, <1>5, <1>6, <1>7
  <2>2. ASSUME NEW m \in 1 .. Len(b), First(m) PROVE m = l + 1
    <3>1. ~(m <= l)
      BY <1>5, <2>2
    <3>2. ~(l + 1 < m)
      BY <1>4, <1>7, <2>2
    <3> QED
      BY <1>4, <3>1, <3>2
  <2>3. Newline(b) = CHOOSE m \in 1 .. Len(b) : First(m)
    BY <1>1 DEF Newline
  <2> HIDE DEF First
  <2> QED
    BY <1>6, <2>1, <2>2, <2>3
<1>9. Line(b) = Chars(s, i)
  <2>1. Line(b) = SubSeq(b, 1, l)
    BY <1>4, <1>8 DEF Line
  <2>2. \A q \in 1 .. l : b[q] \in Char
    BY <1>1, <1>4, <1>6, ElementOfSeq
  <2> DEFINE u == SubSeq(b, 1, l)
  <2>3. u \in Seq(Char) /\ Len(u) = l /\ \A q \in 1 .. l : u[q] = b[0 + q]
    <3>1. 0 \in Nat /\ 1 = 0 + 1 /\ l = 0 + l
      BY <1>4
    <3> QED
      BY <1>4, <2>2, <3>1, Slice
  <2> HIDE DEF u
  <2>4. Len(u) = l /\ \A q \in 1 .. l : u[q] = <<i, q>>
    <3>1. \A q \in 1 .. l : 0 + q = q /\ q \in 1 .. Len(b) /\ q <= l
      BY <1>1, <1>4, <1>6
    <3> QED
      BY <1>5, <2>3, <3>1
  <2>5. Chars(s, i) \in Seq(Char) /\ Len(Chars(s, i)) = l /\ \A q \in 1 .. l : Chars(s, i)[q] = <<i, q>>
    BY <1>3, LineIs DEF l
  <2>6. u = Chars(s, i)
    BY <2>3, <2>4, <2>5, SeqEqual
  <2> QED
    BY <2>1, <2>6 DEF u
<1>10. Newline(b) \in 1 .. Len(b) /\ Off(s)[i] = o + Newline(b)
  BY <1>4, <1>6, <1>8, <1>1
<1> QED
  BY <1>3, <1>9, <1>10 DEF o

\* Without its first line, the buffer follows the next one.
LEMMA MovedFollows ==
  ASSUME NEW s \in Shows, NEW r \in 0 .. Len(s.lines), NEW b, Follows(s, r, b), Has(b)
  PROVE  /\ Follows(s, r + 1, MovedUp(b, Newline(b)))
         /\ Len(MovedUp(b, Newline(b))) = Len(b) - Newline(b)
<1> DEFINE o == Off(s)[r]
           o2 == Off(s)[r + 1]
           n == Newline(b)
           u == SubSeq(b, n + 1, Len(b))
<1>1. /\ b \in Seq(Char) /\ Len(b) \in Nat
      /\ o \in Nat /\ Len(File(s)) \in Nat /\ o + Len(b) <= Len(File(s))
      /\ \A j \in 1 .. Len(b) : b[j] = File(s)[o + j]
  BY OffFacts, LenProperties DEF Follows
<1>2. n \in 1 .. Len(b) /\ o2 = o + n
  BY FirstLine
<1>3. \A j \in n + 1 .. Len(b) : b[j] \in Char
  BY <1>1, <1>2, ElementOfSeq
<1> HIDE DEF o, o2, n
<1>4. u \in Seq(Char) /\ Len(u) = Len(b) - n /\ \A j \in 1 .. Len(b) - n : u[j] = b[n + j]
  <2> DEFINE k == Len(b) - n
             a == n + 1
             z == Len(b)
  <2>1. n \in Nat /\ k \in Nat /\ a = n + 1 /\ z = n + k
    BY <1>1, <1>2
  <2> HIDE DEF a, k, z
  <2>2. SubSeq(b, a, z) \in Seq(Char) /\ Len(SubSeq(b, a, z)) = k
        /\ \A j \in 1 .. k : SubSeq(b, a, z)[j] = b[n + j]
    BY <1>3, <2>1, Slice DEF a, z
  <2> QED
    BY <2>2 DEF a, k, z
<1> HIDE DEF u
<1>5. Len(u) = Len(b) - n
  BY <1>4
<1>6. ASSUME NEW j \in 1 .. Len(u) PROVE u[j] = File(s)[o2 + j]
  <2>1. n + j \in 1 .. Len(b)
    BY <1>1, <1>2, <1>5
  <2>2. u[j] = b[n + j]
    BY <1>4
  <2>3. b[n + j] = File(s)[o + (n + j)] /\ o + (n + j) = o2 + j
    BY <1>1, <1>2, <2>1
  <2> QED
    BY <2>2, <2>3
<1>7. o2 + Len(u) <= Len(File(s))
  BY <1>1, <1>2, <1>5
<1>8. Follows(s, r + 1, u)
  BY <1>4, <1>6, <1>7 DEF Follows, o2
<1> QED
  BY <1>5, <1>8 DEF MovedUp, u, n

\* Reading on.
LEMMA ReadFollows ==
  ASSUME NEW s \in Shows, NEW r \in 0 .. Len(s.lines), NEW b, Follows(s, r, b),
         NEW k \in Nat, k <= Len(File(s)) - (Off(s)[r] + Len(b))
  PROVE  LET pos == Off(s)[r] + Len(b)
             c   == b \o SubSeq(File(s), pos + 1, pos + k)
         IN  Follows(s, r, c) /\ Len(c) = Len(b) + k
<1> DEFINE o == Off(s)[r]
           pos == o + Len(b)
           f == File(s)
           u == SubSeq(f, pos + 1, pos + k)
           c == b \o u
<1>1. /\ b \in Seq(Char) /\ Len(b) \in Nat
      /\ o \in Nat /\ Len(f) \in Nat
      /\ \A j \in 1 .. Len(b) : b[j] = f[o + j]
  BY OffFacts, LenProperties DEF Follows
<1>2. f \in Seq(Char)
  BY LayoutOff DEF Layout
<1>3. pos \in Nat /\ pos = o + Len(b) /\ pos + k <= Len(f)
  <2> HIDE DEF o, f
  <2> QED
    BY <1>1 DEF o, f
<1> HIDE DEF o, f, pos
<1>4. \A j \in pos + 1 .. pos + k : f[j] \in Char
  BY <1>1, <1>2, <1>3, ElementOfSeq
<1>5. u \in Seq(Char) /\ Len(u) = k /\ \A j \in 1 .. k : u[j] = f[pos + j]
  <2>1. pos \in Nat
    BY <1>3
  <2> DEFINE a == pos + 1
             z == pos + k
  <2>2. a = pos + 1 /\ z = pos + k
    OBVIOUS
  <2>3. \A j \in a .. z : f[j] \in Char
    BY <1>4
  <2> HIDE DEF a, z
  <2>4. SubSeq(f, a, z) \in Seq(Char) /\ Len(SubSeq(f, a, z)) = k
        /\ \A j \in 1 .. k : SubSeq(f, a, z)[j] = f[pos + j]
    BY <2>1, <2>2, <2>3, Slice
  <2> QED
    BY <2>4 DEF a, z
<1> HIDE DEF u
<1>6. Len(u) = k
  BY <1>5
<1>7. \A j \in 1 .. k : u[j] = f[pos + j]
  BY <1>5
<1>8. /\ c \in Seq(Char) /\ Len(c) = Len(b) + Len(u)
      /\ \A j \in 1 .. Len(b) + Len(u) : c[j] = IF j <= Len(b) THEN b[j] ELSE u[j - Len(b)]
  BY <1>1, <1>5, ConcatProperties
<1> HIDE DEF c
<1>10. Len(c) = Len(b) + k
  BY <1>6, <1>8
<1>9. ASSUME NEW j \in 1 .. Len(c) PROVE c[j] = f[o + j]
  <2>3. j \in 1 .. Len(b) + k
    BY <1>10
  <2>1. CASE j <= Len(b)
    <3>1. j \in 1 .. Len(b)
      BY <1>1, <2>1, <2>3
    <3>2. c[j] = b[j]
      BY <1>6, <1>8, <2>1, <2>3
    <3> QED
      BY <1>1, <3>1, <3>2
  <2>2. CASE ~(j <= Len(b))
    <3>1. j - Len(b) \in 1 .. k /\ pos + (j - Len(b)) = o + j
      BY <1>1, <1>3, <2>2, <2>3
    <3>2. c[j] = u[j - Len(b)]
      BY <1>6, <1>8, <2>2, <2>3
    <3> QED
      BY <1>7, <3>1, <3>2
  <2> QED
    BY <2>1, <2>2
<1>11. Follows(s, r, c)
  BY <1>1, <1>3, <1>8, <1>9, <1>10 DEF Follows, o, f
<1> QED
  BY <1>10, <1>11 DEF c, u, f, pos, o

\* Behind the lines that were processed, and what the buffer holds of the next
\* ones, the file goes on.  Once the script is given up only the lines count.
ScriptInv ==
  /\ at \in 0 .. Len(File(show)) /\ buf \in Seq(Char) /\ Len(buf) <= LineMax
  /\ Len(ran) \in 0 .. Len(show.lines) /\ DOMAIN ran = 1 .. Len(ran) /\ ran \in Seq(Seq(Char))
  /\ \A i \in 1 .. Len(ran) : ran[i] = Chars(show, i)
  /\ active => Follows(show, Len(ran), buf) /\ at = Off(show)[Len(ran)] + Len(buf)

\* Before the first poll no line was run and the buffer is empty.
LEMMA ScriptInit == Init => ScriptInv
<1> SUFFICES ASSUME Init PROVE ScriptInv
  OBVIOUS
<1>1. show \in Shows /\ at = 0 /\ buf = <<>> /\ ran = <<>>
  BY DEF Init
<1>2. Layout(show, Off(show)) /\ Len(show.lines) \in Nat
  BY <1>1, LayoutOff, ShowFacts
<1>3. Off(show)[0] = 0 /\ Len(File(show)) \in Nat
  BY <1>2, LenProperties DEF Layout
<1>4. <<>> \in Seq(Char) /\ Len(<<>>) = 0 /\ <<>> \in Seq(Seq(Char)) /\ DOMAIN <<>> = 1 .. 0
  BY EmptySeq
<1>5. Follows(show, 0, <<>>)
  BY <1>3, <1>4 DEF Follows
<1>6. LineMax \in Nat
  BY CommandsAssumption DEF CommandsAssumption
<1> QED
  BY <1>1, <1>2, <1>3, <1>4, <1>5, <1>6 DEF ScriptInv

\* A step that leaves the script alone keeps the invariant.
LEMMA ScriptSame == ScriptInv /\ UNCHANGED <<show, script>> => ScriptInv'
<1> SUFFICES ASSUME ScriptInv, UNCHANGED <<show, script>> PROVE ScriptInv'
  OBVIOUS
<1>1. show' = show /\ active' = active /\ at' = at /\ buf' = buf /\ ran' = ran
  BY DEF script
<1> QED
  BY <1>1 DEF ScriptInv

\* A line of what has been read is processed, in its turn.
LEMMA LineInTurn ==
  ASSUME ScriptInv, show \in Shows, show' = show, NEW b, Follows(show, Len(ran), b),
         Len(b) <= LineMax, at' = Off(show)[Len(ran)] + Len(b), Has(b), ProcessLine(b)
  PROVE  ScriptInv'
<1> DEFINE r == Len(ran)
           i == r + 1
           n == Newline(b)
           line == Chars(show, i)
<1>1. /\ r \in 0 .. Len(show.lines) /\ Len(show.lines) \in Nat
      /\ ran \in Seq(Seq(Char)) /\ \A k \in 1 .. r : ran[k] = Chars(show, k)
      /\ b \in Seq(Char) /\ Len(b) \in Nat /\ LineMax \in Nat
  BY ShowFacts, CommandsAssumption, LenProperties DEF ScriptInv, CommandsAssumption, Follows
<1>2. /\ i \in 1 .. Len(show.lines) /\ n \in 1 .. Len(b)
      /\ Off(show)[i] = Off(show)[r] + n /\ Line(b) = line
  BY <1>1, FirstLine
<1>3. Follows(show, i, MovedUp(b, n)) /\ Len(MovedUp(b, n)) = Len(b) - n
  BY <1>1, MovedFollows
<1>4. ran' = Append(ran, line)
  <2>1. ran' = IF Len(ran) > Len(show.lines) THEN ran ELSE Append(ran, Line(b))
    BY Zenon DEF ProcessLine
  <2>2. ~(Len(ran) > Len(show.lines))
    BY <1>1
  <2> QED
    BY <1>2, <2>1, <2>2
<1>5. line \in Seq(Char)
  BY <1>2, LineIs
<1> HIDE DEF line
<1>6. /\ ran' \in Seq(Seq(Char)) /\ Len(ran') = i /\ DOMAIN ran' = 1 .. i
      /\ \A k \in 1 .. r : ran'[k] = ran[k]
      /\ ran'[i] = line
  BY <1>1, <1>4, <1>5, AppendProperties, LenProperties
<1>7. \A k \in 1 .. i : ran'[k] = Chars(show, k)
  <2> SUFFICES ASSUME NEW k \in 1 .. i PROVE ran'[k] = Chars(show, k)
    OBVIOUS
  <2>1. k = i \/ k \in 1 .. r
    BY <1>1
  <2> QED
    BY <1>1, <1>6, <2>1 DEF line
<1>8. /\ Off(show)[r] \in Nat /\ Len(File(show)) \in Nat
      /\ Off(show)[r] + Len(b) <= Len(File(show))
  BY <1>1, OffFacts DEF Follows
<1>9. at' \in 0 .. Len(File(show))
  BY <1>1, <1>8
<1>10. buf' = MovedUp(b, n) \/ (buf' = b /\ ~active')
  BY DEF ProcessLine
<1>11. CASE buf' = MovedUp(b, n)
  <2>1. MovedUp(b, n) \in Seq(Char)
    BY <1>3 DEF Follows
  <2> DEFINE o == Off(show)[r]
             o2 == Off(show)[i]
  <2>2. at' = o2 + Len(buf') /\ Len(buf') <= LineMax
    <3>1. o \in Nat /\ n \in 1 .. Len(b) /\ Len(b) \in Nat /\ LineMax \in Nat
      BY <1>1, <1>2, <1>8
    <3>2. at' = o + Len(b) /\ o2 = o + n /\ Len(buf') = Len(b) - n
      BY <1>2, <1>3, <1>11
    <3> QED
      BY <3>1, <3>2
  <2> QED
    BY <1>2, <1>3, <1>6, <1>7, <1>9, <1>11, <2>1, <2>2 DEF ScriptInv
<1>12. CASE buf' = b /\ ~active'
  BY <1>1, <1>2, <1>6, <1>7, <1>9, <1>12 DEF ScriptInv
<1> QED
  BY <1>10, <1>11, <1>12

\* autoplay_poll reads on where it stopped and runs the next line whole, or gives up.
LEMMA AutoplayInTurn ==
  ASSUME ScriptInv, show \in Shows, AutoplayLine
  PROVE  ScriptInv'
<1> DEFINE r    == Len(ran)
           f    == File(show)
           room == IF Has(buf) THEN 0 ELSE LineMax - Len(buf)
           left == Len(f) - at
           read == IF room < left THEN room ELSE left
           full == buf \o SubSeq(f, at + 1, at + read)
<1>1. /\ active /\ show' = show /\ at' = at + read
      /\ (Has(full) /\ ProcessLine(full)) \/ (~Has(full) /\ GiveUp(full))
  BY DEF AutoplayLine
<1>2. /\ r \in 0 .. Len(show.lines) /\ Follows(show, r, buf) /\ at = Off(show)[r] + Len(buf)
      /\ buf \in Seq(Char) /\ Len(buf) \in Nat /\ Len(buf) <= LineMax
      /\ Len(f) \in Nat /\ at \in 0 .. Len(f) /\ Off(show)[r] \in Nat /\ LineMax \in Nat
  BY <1>1, CommandsAssumption, OffFacts, LenProperties DEF ScriptInv, CommandsAssumption
<1>3. read \in Nat /\ read <= Len(f) - at /\ Len(buf) + read <= LineMax
  <2>1. at \in Nat /\ at <= Len(f) /\ Len(buf) \in Nat /\ Len(buf) <= LineMax
        /\ LineMax \in Nat /\ Len(f) \in Nat
    BY <1>2
  <2>2. room \in Nat /\ left \in Nat /\ Len(buf) + room <= LineMax
    BY <2>1
  <2> HIDE DEF room, left
  <2>3. read \in Nat /\ read <= left /\ read <= room
    BY <2>2
  <2> HIDE DEF read
  <2> QED
    BY <2>1, <2>2, <2>3 DEF left
<1> HIDE DEF read
<1>4. Follows(show, r, full) /\ Len(full) = Len(buf) + read
  <2>1. read <= Len(f) - (Off(show)[r] + Len(buf))
    BY <1>2, <1>3
  <2>2. LET pos == Off(show)[r] + Len(buf)
            c   == buf \o SubSeq(f, pos + 1, pos + read)
        IN  Follows(show, r, c) /\ Len(c) = Len(buf) + read
    <3>1. r \in 0 .. Len(show.lines) /\ Follows(show, r, buf) /\ read \in Nat
      BY <1>2, <1>3
    <3> HIDE DEF r, f
    <3> QED
      BY <2>1, <3>1, ReadFollows, Zenon DEF f
  <2> QED
    BY <1>2, <2>2
<1> HIDE DEF full
<1>5. at' = Off(show)[r] + Len(full) /\ Len(full) <= LineMax /\ at' \in 0 .. Len(f)
  <2>1. at' = at + read /\ Len(full) = Len(buf) + read
    BY <1>1, <1>4
  <2>2. /\ at = Off(show)[r] + Len(buf) /\ Off(show)[r] \in Nat /\ Len(buf) \in Nat
        /\ at \in Nat /\ Len(f) \in Nat /\ LineMax \in Nat
    BY <1>2
  <2>3. read \in Nat /\ read <= Len(f) - at /\ Len(buf) + read <= LineMax
    BY <1>3
  <2>4. at + read = Off(show)[r] + (Len(buf) + read)
    BY <2>2, <2>3
  <2>5. at + read \in 0 .. Len(f)
    <3>1. at \in Nat /\ Len(f) \in Nat
      BY <2>2
    <3> QED
      BY <2>3, <3>1
  <2> QED
    BY <2>1, <2>3, <2>4, <2>5, Zenon
<1>6. CASE Has(full) /\ ProcessLine(full)
  BY <1>1, <1>4, <1>5, <1>6, LineInTurn
<1>7. CASE GiveUp(full)
  <2>1. full \in Seq(Char)
    BY <1>4 DEF Follows
  <2> QED
    BY <1>1, <1>5, <1>7, <2>1 DEF GiveUp, ScriptInv
<1> QED
  BY <1>1, <1>6, <1>7

\* No step loses, repeats or tears a line.
LEMMA ScriptNext == ScriptInv /\ CommandsInv /\ [Next]_vars => ScriptInv'
<1> SUFFICES ASSUME ScriptInv, CommandsInv, [Next]_vars PROVE ScriptInv'
  OBVIOUS
<1>1. show \in Shows
  BY DEF CommandsInv
<1>2. CASE AutoplayLine
  BY <1>1, <1>2, AutoplayInTurn
<1>3. CASE AutoplayReadFails
  BY <1>3 DEF AutoplayReadFails, GiveUp, ScriptInv
<1>4. CASE Store \/ AutoplayWaits \/ Packet \/ NoPacket \/ Refill \/ Point \/ UNCHANGED vars
  <2>1. UNCHANGED <<show, script>>
    BY <1>4 DEF Store, AutoplayWaits, Packet, NoPacket, Refill, Point, vars
  <2> QED
    BY <2>1, ScriptSame
<1> QED
  BY <1>2, <1>3, <1>4 DEF Next, MainLoop, Autoplay

\* The script's invariant holds in every reachable state.
LEMMA ScriptHolds == Spec => []ScriptInv
<1> QED
  BY ScriptInit, ScriptNext, InvariantHolds, PTL DEF Spec

\* Every line of the script is processed whole, once and in its turn, for every
\* script and every length of the buffer (autoplay_poll, autoplay_process_line).
THEOREM LinesRunInOrder == Spec => []ScriptInOrder
<1>1. CommandsInv /\ ScriptInv => ScriptInOrder
  <2> SUFFICES ASSUME CommandsInv, ScriptInv PROVE ScriptInOrder
    OBVIOUS
  <2>1. show \in Shows /\ Len(ran) \in 0 .. Len(show.lines)
    BY DEF CommandsInv, ScriptInv
  <2>2. Len(ran) <= Len(show.lines)
    BY <2>1, ShowFacts
  <2>3. \A i \in DOMAIN ran : ran[i] = Chars(show, i)
    BY DEF ScriptInv
  <2> QED
    BY <2>2, <2>3 DEF ScriptInOrder
<1> QED
  BY <1>1, InvariantHolds, ScriptHolds, PTL

--------------------------------------------------------------------------------
(* Types                                                                   *)

\* What the other invariants leave open.
RestInv ==
  /\ offset \in (-One .. One) \X (-One .. One)
  /\ before \in [Corner -> Coord] \X [Corner -> Coord]
  /\ playing \in BOOLEAN /\ active \in BOOLEAN /\ pc \in {"auto", "aux", "refill"}

\* A command changes no more of this than the types allow.
Settled ==
  /\ offset' \in (-One .. One) \X (-One .. One)
  /\ before' \in [Corner -> Coord] \X [Corner -> Coord]
  /\ playing' \in BOOLEAN

\* A step that leaves the geometry alone keeps the other variables' types.
LEMMA SettledIfSame ==
  ASSUME RestInv, UNCHANGED geom, playing' \in BOOLEAN
  PROVE  Settled
BY DEF RestInv, Settled, geom

\* Every OSC handler keeps the other variables' types.
LEMMA CallTypes ==
  ASSUME CommandsInv, RestInv, NEW path, NEW p, ArgsOk(path, p), Call(path, p)
  PROVE  Settled
<1>1. corners \in [Corner -> Coord] \X [Corner -> Coord]
  BY DEF CommandsInv, corners
<1>2. ASSUME UNCHANGED offset, before' \in {before, corners}, UNCHANGED <<control, playing>>
      PROVE  Settled
  BY <1>1, <1>2 DEF RestInv, Settled
<1>3. CASE path \in CornerPaths /\ GeomUpdate(CornerOf(path), Half(p[1]), Half(p[2]))
           /\ UNCHANGED <<control, playing>>
  BY <1>2, <1>3 DEF GeomUpdate, UpdateTransform, geom
<1>4. CASE path \in LockPaths /\ GeomUpdateLock(LockOf(path), p[1])
           /\ UNCHANGED <<control, playing>>
  BY <1>2, <1>4 DEF GeomUpdateLock
<1>5. CASE UNCHANGED offset /\ GeomSetSzOffset /\ UNCHANGED <<control, playing>>
  BY <1>2, <1>5 DEF GeomSetSzOffset, UpdateTransform
<1>6. CASE path = "/geom/offset" /\ offset' = <<p[1], p[2]>> /\ GeomSetSzOffset
           /\ UNCHANGED <<control, playing>>
  BY <1>1, <1>6 DEF ArgsOk, GeomSetSzOffset, UpdateTransform, RestInv, Settled
<1>7. CASE path \in DelayPaths /\ DelayLineSetDelay(ColorOf(path), p[1])
           /\ UNCHANGED <<geom, playing>>
  BY <1>7 DEF RestInv, Settled, geom
<1>8. CASE UNCHANGED geom /\ UNCHANGED control /\ playing' \in {playing, TRUE, FALSE}
  BY <1>8, SettledIfSame DEF RestInv
<1> QED
  BY <1>3, <1>4, <1>5, <1>6, <1>7, <1>8 DEF Call

\* Every step keeps them.
LEMMA RestNext == RestInv /\ CommandsInv /\ [Next]_vars => RestInv'
<1> SUFFICES ASSUME RestInv, CommandsInv, [Next]_vars PROVE RestInv'
  OBVIOUS
<1>1. show \in Shows /\ tx \in [Corner -> Coord] /\ ty \in [Corner -> Coord]
  BY DEF CommandsInv
<1>2. ASSUME Settled, active' \in BOOLEAN, pc' \in {"auto", "aux", "refill"} PROVE RestInv'
  BY <1>2 DEF Settled, RestInv
<1>4. NoCall => Settled
  BY SettledIfSame DEF NoCall, RestInv
<1>5. CASE Store
  <2>1. before' \in {before, corners} /\ UNCHANGED <<offset, playing, active, pc>>
    BY <1>5 DEF Store, script
  <2> QED
    BY <1>1, <2>1 DEF RestInv, corners
<1>6. CASE AutoplayWaits \/ NoPacket
  BY <1>2, <1>4, <1>6 DEF AutoplayWaits, NoPacket, NoCall, script, RestInv
<1>7. ASSUME NEW b, ProcessLine(b) PROVE Settled /\ active' \in BOOLEAN
  <2>1. ASSUME NEW i \in DOMAIN show.lines, NEW p \in LineCalls(show.lines[i]),
               Call(show.lines[i].path, p)
        PROVE  Settled
    BY <1>1, <2>1, LineArgs, CallTypes
  <2> QED
    BY <1>4, <1>7, <2>1 DEF ProcessLine, RestInv
<1>8. ASSUME NEW b, GiveUp(b) PROVE Settled /\ active' \in BOOLEAN
  BY <1>4, <1>8 DEF GiveUp
<1>9. CASE AutoplayLine \/ AutoplayReadFails
  BY <1>2, <1>7, <1>8, <1>9 DEF AutoplayLine, AutoplayReadFails
<1>10. CASE Packet
  <2>1. PICK m \in show.packets : (\E p \in OscCalls(m) : Call(m.path, p)) \/ NoCall
    BY <1>10 DEF Packet
  <2>2. ASSUME NEW p \in OscCalls(m), Call(m.path, p) PROVE Settled
    BY <1>1, <2>2, OscArgs, CallTypes
  <2>3. pc' \in {"auto", "aux", "refill"} /\ active' \in BOOLEAN
    BY <1>10 DEF Packet, script, RestInv
  <2> QED
    BY <1>2, <1>4, <2>1, <2>2, <2>3
<1>11. CASE Refill
  BY <1>11 DEF Refill, geom, script, RestInv
<1>12. CASE Point
  BY <1>12 DEF Point, geom, script, RestInv
<1>13. CASE UNCHANGED vars
  BY <1>13 DEF vars, geom, script, RestInv
<1> QED
  BY <1>5, <1>6, <1>9, <1>10, <1>11, <1>12, <1>13 DEF Next, MainLoop, Autoplay

\* They hold after reset.
LEMMA RestInit == Init => RestInv
<1> SUFFICES ASSUME Init PROVE RestInv
  OBVIOUS
<1>1. CommandsInv
  BY InitInv
<1>2. before \in [Corner -> Coord] \X [Corner -> Coord]
  BY <1>1 DEF Init, CommandsInv
<1>3. One \in Nat /\ MaxDelay \in Nat \ {0, 1}
  BY ParamsAssumption DEF ParamsAssumption
<1>4. offset \in (-One .. One) \X (-One .. One)
  BY <1>3 DEF Init
<1> QED
  BY <1>2, <1>4 DEF Init, RestInv

\* The corners, the delays and the script's position are in their ranges, whatever
\* the packets and the lines hold (coord_clamp, FPA_param, autoplay_poll).
THEOREM CommandsTypes == Spec => []TypeOK
<1>1. RestInv /\ CommandsInv /\ [Next]_vars => RestInv'
  BY RestNext
<1>2. CommandsInv /\ SettingsInv /\ ScriptInv /\ RestInv => TypeOK
  BY DEF CommandsInv, SettingsInv, Pointers, ScriptInv, RestInv, TypeOK
<1> QED
  BY RestInit, <1>1, <1>2, InvariantHolds, SettingsHold, ScriptHolds, PTL DEF Spec
================================================================================

----------------------------- MODULE PlaybackProofs ----------------------------
(***************************************************************************)
(* Proofs about Playback and FilePlayer for every set of files, good and   *)
(* bad, every ring, chunk and small-frame size, every rate and both        *)
(* handlers, with or without a failing card.                               *)
(***************************************************************************)
EXTENDS Playback, SequenceTheorems, TLAPS

Point == Nat \X Nat

\* The player's variables, whatever it has read.
PlayerType ==
  [file   : Files \cup {NoFile},
   at     : Point,
   state  : {"between", "ilda", "small", "wav", "bad"},
   left   : Nat,
   repeat : Nat,
   count  : Nat,
   offset : Int,
   start  : Point,
   small  : [1 .. Small -> Point]]

\* Does a read deliver points without a header?
Reads(p) ==
  p.state = "small" \/ (p.state \in {"ilda", "wav"} /\ p.file # NoFile)

\* The replay buffer holds the first n points of the frame.
Remembers(p, n) == \A k \in 1 .. n : p.small[k] = <<p.at[1], k>>

\* A frame is being shown: what is left of it is where the file stands, and what
\* is shown again is in the file or in memory.
Loaded(p) ==
  /\ p.left \in 1 .. p.count
  /\ p.repeat >= 1
  /\ p.state = "wav" => p.repeat = 1
  /\ p.state \in {"ilda", "wav"} =>
       /\ p.file \in Files
       /\ p.at[1] \in 1 .. Len(Frames[p.file])
       /\ p.at[2] = p.count - p.left
  /\ p.state = "ilda" =>
       /\ p.start = <<p.at[1], 0>>
       /\ p.count <= Small => Remembers(p, p.count - p.left)
  /\ p.state = "small" => p.count <= Small /\ Remembers(p, p.count)

--------------------------------------------------------------------------------
(* The header                                                              *)

\* A frame is shown at least once.
LEMMA RepeatIsPositive ==
  ASSUME NEW n \in Nat \ {0}, NEW rate \in Nat, NEW offset \in Int
  PROVE  /\ RepeatCount(n, rate, offset) \in Nat
         /\ RepeatCount(n, rate, offset) >= 1
         /\ NewOffset(n, rate, offset) \in Int
<1>1. RepeatCount(n, rate, offset) \in Nat /\ RepeatCount(n, rate, offset) >= 1
  BY DEF RepeatCount
<1>2. NewOffset(n, rate, offset) \in Int
  <2>1. CASE rate = 0
    BY <2>1 DEF NewOffset
  <2>2. CASE rate # 0
    <3>1. RepeatCount(n, rate, offset) * n \in Int
      BY <1>1
    <3>2. QED
      BY <2>2, <3>1 DEF NewOffset
  <2>3. QED
    BY <2>1, <2>2
<1>3. QED
  BY <1>1, <1>2

\* The frame a header belongs to.
LEMMA FrameIsThere ==
  ASSUME NEW f \in Files, NEW i \in Nat, i + 1 <= Len(Frames[f])
  PROVE  /\ Frames[f][i + 1] \in FrameType
         /\ i + 1 \in 1 .. Len(Frames[f])
<1>1. Frames[f] \in Seq(FrameType)
  BY PlayerAssumption
<1>2. QED
  BY <1>1

\* A header that is read loads its frame; one that is not leaves the frame count
\* alone, and the player between frames only if it was.
HeaderFacts(p, rate, res, q) ==
  /\ q \in PlayerType /\ q.left <= q.count
  /\ res \in {"ok", "end", "error"}
  /\ res = "ok" =>
       /\ Reads(q) /\ q.state \in {"ilda", "wav"}
       /\ q.file = p.file /\ q.left = q.count
       /\ q.at = <<p.at[1] + 1, 0>>
       /\ q.left = 0 => q.state = "wav" /\ q.repeat = 1
       /\ q.left # 0 => Loaded(q)
       /\ q.state = "ilda" =>
            /\ q.repeat = RepeatCount(q.count, rate, p.offset)
            /\ q.offset = NewOffset(q.count, rate, p.offset)
  /\ res # "ok" =>
       /\ q.state \in {"between", "ilda", "bad"}
       /\ q.count = p.count

\* That is what ilda_read_header does, whatever the file holds.
LEMMA HeaderLoads ==
  ASSUME NEW p \in PlayerType, p.state = "between", p.left <= p.count,
         NEW rate \in Nat
  PROVE  HeaderFacts(p, rate, ReadHeader(p, rate).res,
                     ReadHeader(p, rate).player)
<1> DEFINE i == p.at[1] + 1
           frame == Frames[p.file][i]
           here == [p EXCEPT !.at = <<i, 0>>]
<1>1. /\ i \in Nat /\ <<i, 0>> \in Point /\ here \in PlayerType
      /\ here.left = p.left /\ here.count = p.count
      /\ here.state = "between" /\ here.at = <<i, 0>> /\ here.file = p.file
      /\ here.offset = p.offset
  <2>1. p.at \in Nat \X Nat
    BY DEF PlayerType, Point
  <2>2. i \in Nat /\ <<i, 0>> \in Point
    BY <2>1 DEF Point
  <2> HIDE DEF i
  <2>3. QED
    BY <2>2 DEF PlayerType
<1>2. CASE p.file = NoFile
  <2>1. ReadHeader(p, rate) = [res |-> "error", player |-> p]
    BY <1>2 DEF ReadHeader
  <2>2. QED
    BY <2>1 DEF HeaderFacts
<1>3. CASE p.file # NoFile /\ i > Len(Frames[p.file])
  <2>1. ReadHeader(p, rate) = [res |-> "end", player |-> p]
    BY <1>3 DEF ReadHeader
  <2>2. QED
    BY <2>1 DEF HeaderFacts
<1>4. CASE p.file # NoFile /\ ~(i > Len(Frames[p.file]))
  <2>1. p.file \in Files /\ p.at[1] \in Nat
    BY <1>4 DEF PlayerType, Point
  <2>2. frame \in FrameType /\ i \in 1 .. Len(Frames[p.file])
    <3>1. Len(Frames[p.file]) \in Nat
      BY <2>1, PlayerAssumption
    <3>2. QED
      BY <1>4, <2>1, <3>1, FrameIsThere
  <2>3. frame.kind \in Kinds /\ frame.points \in Nat
    BY <2>2 DEF FrameType
  <2> DEFINE n == frame.points
             loaded == [here EXCEPT !.left = n, !.count = n, !.start = <<i, 0>>]
  <2>4. CASE frame.kind = "junk"
    <3>1. ReadHeader(p, rate) = [res |-> "error", player |-> here]
      BY <1>4, <2>4 DEF ReadHeader
    <3> HIDE DEF here
    <3>2. QED
      BY <1>1, <3>1 DEF HeaderFacts
  <2>5. CASE frame.kind = "format"
    <3> DEFINE q == [here EXCEPT !.state = "bad"]
    <3>1. ReadHeader(p, rate) = [res |-> "error", player |-> q]
      BY <1>4, <2>5 DEF ReadHeader
    <3> HIDE DEF here
    <3>2. q \in PlayerType /\ q.state = "bad" /\ q.left = p.left
          /\ q.count = p.count
      BY <1>1 DEF PlayerType
    <3> HIDE DEF q
    <3>3. QED
      BY <3>1, <3>2 DEF HeaderFacts
  <2>6. CASE frame.kind = "cut"
    <3> DEFINE q == [here EXCEPT !.state = "ilda"]
    <3>1. ReadHeader(p, rate) = [res |-> "error", player |-> q]
      BY <1>4, <2>6 DEF ReadHeader
    <3> HIDE DEF here
    <3>2. q \in PlayerType /\ q.state = "ilda" /\ q.left = p.left
          /\ q.count = p.count
      BY <1>1 DEF PlayerType
    <3> HIDE DEF q
    <3>3. QED
      BY <3>1, <3>2 DEF HeaderFacts
  <2>7. /\ loaded \in PlayerType /\ loaded.left = n /\ loaded.count = n
        /\ loaded.start = <<i, 0>> /\ loaded.at = <<i, 0>>
        /\ loaded.file = p.file
    <3> HIDE DEF here, n
    <3>1. n \in Nat
      BY <2>3 DEF n
    <3>2. QED
      BY <1>1, <3>1 DEF PlayerType
  <2>8. CASE frame.kind = "wav"
    <3> DEFINE q == [loaded EXCEPT !.state = "wav", !.repeat = 1,
                                   !.start = p.start]
    <3>1. ReadHeader(p, rate) = [res |-> "ok", player |-> q]
      BY <1>4, <2>8 DEF ReadHeader
    <3> HIDE DEF loaded, n
    <3>2. /\ q \in PlayerType /\ q.left = n /\ q.count = n /\ q.repeat = 1
          /\ q.state = "wav" /\ q.file = p.file /\ q.at = <<i, 0>>
      BY <2>7 DEF PlayerType
    <3> HIDE DEF q
    <3>3. n \in Nat
      BY <2>3 DEF n
    <3>4. q.at[1] = i /\ q.at[2] = 0
      BY <3>2
    <3>5. n # 0 => Loaded(q)
      BY <2>1, <2>2, <3>2, <3>3, <3>4 DEF Loaded
    <3>6. QED
      BY <1>4, <3>1, <3>2, <3>3, <3>5 DEF HeaderFacts, Reads
  <2>9. CASE frame.kind = "ilda" /\ n = 0
    <3> DEFINE q == [here EXCEPT !.state = "ilda", !.left = 0]
    <3>1. ReadHeader(p, rate) = [res |-> "end", player |-> q]
      BY <1>4, <2>9 DEF ReadHeader
    <3> HIDE DEF here
    <3>2. q \in PlayerType /\ q.state = "ilda" /\ q.left = 0
          /\ q.count = p.count
      BY <1>1 DEF PlayerType
    <3>3. p.count \in Nat
      BY DEF PlayerType
    <3> HIDE DEF q
    <3>4. QED
      BY <3>1, <3>2, <3>3 DEF HeaderFacts
  <2>10. CASE frame.kind = "ilda" /\ n > 0
    <3> DEFINE repeat == RepeatCount(n, rate, p.offset)
               offset == NewOffset(n, rate, p.offset)
               q == [loaded EXCEPT !.state = "ilda", !.repeat = repeat,
                                   !.offset = offset]
    <3>1. ReadHeader(p, rate) = [res |-> "ok", player |-> q]
      BY <1>4, <2>10 DEF ReadHeader
    <3>2. repeat \in Nat /\ repeat >= 1 /\ offset \in Int
      <4>1. n \in Nat \ {0} /\ p.offset \in Int
        BY <2>3, <2>10 DEF PlayerType
      <4> HIDE DEF n
      <4>2. QED
        BY <4>1, RepeatIsPositive
    <3> HIDE DEF loaded, n, repeat, offset
    <3>3. /\ q \in PlayerType /\ q.left = n /\ q.count = n /\ q.repeat >= 1
          /\ q.state = "ilda" /\ q.file = p.file /\ q.at = <<i, 0>>
          /\ q.start = <<i, 0>> /\ q.repeat = repeat /\ q.offset = offset
      BY <2>7, <3>2 DEF PlayerType
    <3> HIDE DEF q
    <3>4. n \in Nat /\ n > 0
      BY <2>3, <2>10 DEF n
    <3>5. q.at[1] = i /\ q.at[2] = 0
      BY <3>3
    <3>6. Loaded(q)
      BY <2>1, <2>2, <3>3, <3>4, <3>5 DEF Loaded, Remembers
    <3>7. QED
      BY <1>4, <3>1, <3>3, <3>4, <3>6
         DEF HeaderFacts, Reads, repeat, offset
  <2>11. QED
    BY <2>3, <2>4, <2>5, <2>6, <2>8, <2>9, <2>10 DEF Kinds
<1>5. QED
  BY <1>2, <1>3, <1>4

--------------------------------------------------------------------------------
(* The points                                                              *)

\* After n points of the loaded frame p the player q goes on with the frame,
\* shows it again, or is done with it.
Moved(p, n, q) ==
  /\ q.file = p.file /\ q.at[1] = p.at[1] /\ q.count = p.count
  /\ q.offset = p.offset
  /\ \/ /\ n < p.left
        /\ q.state = p.state /\ q.repeat = p.repeat /\ q.left = p.left - n
     \/ /\ n = p.left /\ p.repeat > 1
        /\ q.state \in {"ilda", "small"}
        /\ q.repeat = p.repeat - 1 /\ q.left = p.count
     \/ /\ n = p.left /\ p.repeat = 1
        /\ q.state = "between" /\ q.repeat = 0 /\ q.left = 0

\* The player's variables are not touched by the points read but for the
\* position in the file and the replay buffer.
SameFrame(p, q) ==
  /\ q.file = p.file /\ q.at[1] = p.at[1] /\ q.state = p.state
  /\ q.left = p.left /\ q.repeat = p.repeat /\ q.count = p.count
  /\ q.start = p.start /\ q.offset = p.offset

\* TakePoints counts the points off and ends the frame when none is left; what
\* the frame's next points come from must be in place by then.
LEMMA TakeMoves ==
  ASSUME NEW p \in PlayerType, NEW q \in PlayerType, Loaded(p),
         p.state \in {"ilda", "wav", "small"},
         NEW n \in 1 .. p.left,
         SameFrame(p, q),
         p.state \in {"ilda", "wav"} => q.at[2] = p.count - p.left + n,
         p.state = "ilda" /\ p.count <= Small
           => Remembers(q, p.count - p.left + n),
         p.state = "small" => Remembers(q, p.count)
  PROVE  LET r == TakePoints(q, n)
         IN  r \in PlayerType /\ Moved(p, n, r)
             /\ (r.state # "between" => Loaded(r))
<1> DEFINE t == [q EXCEPT !.left = @ - n]
<1>1. /\ p.left \in 1 .. p.count /\ p.repeat >= 1 /\ p.repeat \in Nat
      /\ p.count \in Nat /\ p.left \in Nat /\ n \in Nat /\ n >= 1 /\ n <= p.left
  BY DEF Loaded, PlayerType
<1>2. q.left = p.left /\ p.left - n \in Nat
  BY <1>1 DEF SameFrame
<1>3. /\ t \in PlayerType /\ t.left = p.left - n
      /\ t.repeat = p.repeat /\ t.state = p.state /\ t.count = p.count
      /\ t.file = p.file /\ t.at = q.at /\ t.at[1] = p.at[1]
      /\ t.start = p.start /\ t.small = q.small /\ t.offset = p.offset
  BY <1>2 DEF PlayerType, SameFrame
<1>4. TakePoints(q, n) = IF t.left = 0 THEN FrameDone(t) ELSE t
  BY DEF TakePoints
<1> HIDE DEF t
<1>5. CASE n < p.left
  <2>1. TakePoints(q, n) = t
    BY <1>1, <1>3, <1>4, <1>5
  <2>2. Moved(p, n, t)
    BY <1>3, <1>5 DEF Moved
  <2>3. p.count - p.left + n = p.count - t.left /\ t.left \in 1 .. t.count
    BY <1>1, <1>3, <1>5
  <2>4. p.state \in {"ilda", "wav"} => t.at[2] = t.count - t.left
    BY <1>3, <2>3
  <2>5. p.state = "ilda" /\ p.count <= Small => Remembers(t, t.count - t.left)
    BY <1>3, <2>3 DEF Remembers, SameFrame
  <2>6. p.state = "small" => Remembers(t, t.count)
    BY <1>3 DEF Remembers, SameFrame
  <2>7. Loaded(t)
    BY <1>1, <1>3, <2>3, <2>4, <2>5, <2>6 DEF Loaded
  <2>8. QED
    BY <1>3, <2>1, <2>2, <2>7
<1>6. CASE n = p.left
  <2> DEFINE u == [t EXCEPT !.repeat = @ - 1]
  <2>1. /\ u \in PlayerType /\ u.left = 0
        /\ u.repeat = p.repeat - 1 /\ u.state = p.state /\ u.count = p.count
        /\ u.file = p.file /\ u.at = q.at /\ u.at[1] = p.at[1]
        /\ u.start = p.start /\ u.small = q.small /\ u.offset = p.offset
    <3>1. t.repeat - 1 \in Nat /\ t.repeat - 1 = p.repeat - 1 /\ t.left = 0
      BY <1>1, <1>3, <1>6
    <3>2. QED
      BY <1>3, <3>1 DEF PlayerType
  <2>2. TakePoints(q, n) =
          IF u.repeat = 0 THEN [u EXCEPT !.state = "between"]
          ELSE IF u.count <= Small
               THEN [u EXCEPT !.state = "small", !.left = u.count]
               ELSE [u EXCEPT !.at = u.start, !.left = u.count]
    BY <1>1, <1>3, <1>4, <1>6 DEF FrameDone
  <2> HIDE DEF u
  <2>3. CASE p.repeat = 1
    <3> DEFINE r == [u EXCEPT !.state = "between"]
    <3>1. TakePoints(q, n) = r
      BY <2>1, <2>2, <2>3
    <3>2. /\ r \in PlayerType /\ r.state = "between" /\ r.repeat = 0
          /\ r.left = 0 /\ r.file = p.file /\ r.at = u.at /\ r.count = p.count
          /\ r.offset = p.offset
      <4>1. u.repeat = 0
        BY <2>1, <2>3
      <4>2. QED
        BY <2>1, <4>1 DEF PlayerType
    <3> HIDE DEF r
    <3>3. Moved(p, n, r)
      BY <1>6, <2>1, <2>3, <3>2 DEF Moved
    <3>4. QED
      BY <3>1, <3>2, <3>3
  <2>4. CASE p.repeat > 1 /\ p.count <= Small
    <3> DEFINE r == [u EXCEPT !.state = "small", !.left = u.count]
    <3>1. TakePoints(q, n) = r
      BY <1>1, <2>1, <2>2, <2>4
    <3>2. /\ r \in PlayerType /\ r.state = "small" /\ r.repeat = p.repeat - 1
          /\ r.left = p.count /\ r.file = p.file /\ r.at = u.at
          /\ r.count = p.count /\ r.small = u.small /\ r.offset = p.offset
      BY <2>1 DEF PlayerType
    <3> HIDE DEF r
    <3>3. Moved(p, n, r)
      BY <1>6, <2>1, <2>4, <3>2 DEF Moved
    <3>4. p.state \in {"ilda", "small"}
      BY <2>4 DEF Loaded
    <3>5. Remembers(r, p.count)
      BY <1>1, <1>6, <2>1, <2>4, <3>2, <3>4 DEF Remembers
    <3>6. Loaded(r)
      BY <1>1, <2>4, <3>2, <3>5 DEF Loaded
    <3>7. QED
      BY <3>1, <3>2, <3>3, <3>6
  <2>5. CASE p.repeat > 1 /\ ~(p.count <= Small)
    <3> DEFINE r == [u EXCEPT !.at = u.start, !.left = u.count]
    <3>1. TakePoints(q, n) = r
      BY <1>1, <2>1, <2>2, <2>5
    <3>2. /\ r \in PlayerType /\ r.state = p.state /\ r.repeat = p.repeat - 1
          /\ r.left = p.count /\ r.file = p.file /\ r.at = p.start
          /\ r.count = p.count /\ r.start = p.start /\ r.offset = p.offset
      BY <2>1 DEF PlayerType
    <3> HIDE DEF r
    <3>3. p.state = "ilda"
      BY <2>5 DEF Loaded
    <3>4. p.start = <<p.at[1], 0>>
      BY <3>3 DEF Loaded
    <3>5. r.at[1] = p.at[1] /\ r.at[2] = 0
      BY <3>2, <3>4
    <3>6. Moved(p, n, r)
      BY <1>6, <2>1, <2>5, <3>2, <3>3, <3>5 DEF Moved
    <3>7. Loaded(r)
      BY <1>1, <2>5, <3>2, <3>3, <3>4, <3>5 DEF Loaded
    <3>8. QED
      BY <3>1, <3>2, <3>6, <3>7
  <2>6. QED
    BY <1>1, <2>3, <2>4, <2>5, PlayerAssumption
<1>7. QED
  BY <1>1, <1>5, <1>6

\* What one batch does to a player that has a frame loaded: the points are the
\* next ones of the frame, as many as fit, or the file is too short for them.
BatchFacts(p, max, r) ==
  /\ r.player \in PlayerType /\ r.player.left <= r.player.count
  /\ \/ /\ r.res = "error" /\ r.player.state \in {"ilda", "wav"}
     \/ /\ r.res = "ok"
        /\ r.points \in Seq(Point)
        /\ Len(r.points) \in 1 .. max
        /\ Len(r.points) <= Chunk /\ Len(r.points) <= p.left
        /\ \A k \in 1 .. Len(r.points) :
             r.points[k] = <<p.at[1], p.count - p.left + k>>
        /\ Moved(p, Len(r.points), r.player)
        /\ r.player.state # "between" => Loaded(r.player)

\* That is what ilda_do_read_points does, from memory or from the file.
LEMMA BatchMoves ==
  ASSUME NEW p \in PlayerType, Loaded(p), Reads(p), NEW max \in Nat \ {0}
  PROVE  BatchFacts(p, max, DoReadPoints(p, max))
<1> DEFINE n == BatchSize(p, max)
           first == p.count - p.left
<1>1. /\ p.left \in 1 .. p.count /\ p.left \in Nat /\ p.count \in Nat
      /\ p.at \in Point /\ p.at[1] \in Nat /\ p.at[2] \in Nat
      /\ p.small \in [1 .. Small -> Point]
      /\ p.state \in {"ilda", "wav", "small"}
  BY DEF Loaded, PlayerType, Point, Reads
<1>2. /\ n \in 1 .. max /\ n <= Chunk /\ n \in 1 .. p.left /\ n \in Nat
      /\ first \in Nat /\ first + n \in 1 .. p.count
  <2>1. Chunk \in Nat /\ Chunk >= 1
    BY PlayerAssumption
  <2>2. n \in Nat /\ n >= 1 /\ n <= max /\ n <= Chunk /\ n <= p.left
    BY <1>1, <2>1 DEF BatchSize, Lesser
  <2> HIDE DEF n
  <2>3. QED
    BY <1>1, <2>2
<1>3. CASE p.state = "small"
  <2> DEFINE pts == [k \in 1 .. n |-> p.small[first + k]]
  <2>1. DoReadPoints(p, max) =
          [res |-> "ok", player |-> TakePoints(p, n), points |-> pts]
    BY <1>3 DEF DoReadPoints
  <2>2. \A k \in 1 .. n : p.small[first + k] = <<p.at[1], first + k>>
    <3>1. Remembers(p, p.count)
      BY <1>3 DEF Loaded
    <3> HIDE DEF n, first
    <3>2. \A k \in 1 .. n : first + k \in 1 .. p.count
      <4>1. n \in Nat /\ first \in Nat /\ p.count \in Nat /\ first + n <= p.count
        BY <1>1, <1>2
      <4>2. QED
        BY <4>1
    <3>3. QED
      BY <3>1, <3>2 DEF Remembers
  <2> HIDE DEF n, first
  <2>3. \A k \in 1 .. n : pts[k] = <<p.at[1], first + k>> /\ pts[k] \in Point
    <3>1. \A k \in 1 .. n : pts[k] = p.small[first + k]
      OBVIOUS
    <3>2. \A k \in 1 .. n : <<p.at[1], first + k>> \in Point
      BY <1>1, <1>2 DEF Point
    <3>3. QED
      BY <2>2, <3>1, <3>2
  <2>4. pts \in Seq(Point) /\ Len(pts) = n
    BY <1>2, <2>3
  <2>5. Remembers(p, p.count) /\ SameFrame(p, p)
    BY <1>3 DEF Loaded, SameFrame
  <2>6. /\ TakePoints(p, n) \in PlayerType
        /\ Moved(p, n, TakePoints(p, n))
        /\ TakePoints(p, n).state # "between" => Loaded(TakePoints(p, n))
    BY <1>1, <1>2, <1>3, <2>5, TakeMoves
  <2> HIDE DEF pts
  <2>7. TakePoints(p, n).left <= TakePoints(p, n).count
    BY <1>1, <1>2, <2>6 DEF Moved
  <2>8. QED
    BY <1>2, <2>1, <2>3, <2>4, <2>6, <2>7 DEF BatchFacts, first
<1>4. CASE p.state \in {"ilda", "wav"}
  <2> DEFINE batch  == [k \in 1 .. n |-> <<p.at[1], p.at[2] + k>>]
             short  == p.at[2] + n > Frames[p.file][p.at[1]].stored
             moved  == [p EXCEPT !.at[2] = @ + n]
             copied == [moved EXCEPT !.small =
                          [i \in 1 .. Small |-> IF i - first \in 1 .. n
                                                THEN batch[i - first] ELSE @[i]]]
             q == IF p.state = "ilda" /\ p.count <= Small THEN copied ELSE moved
  <2>1. p.file \in Files /\ p.file # NoFile /\ p.at[2] = first
        /\ p.at[1] \in 1 .. Len(Frames[p.file])
    BY <1>4, PlayerAssumption DEF Loaded
  <2>2. DoReadPoints(p, max) =
          IF n > 0 /\ short
          THEN [res |-> "error", points |-> <<>>,
                player |-> [p EXCEPT !.at[2] =
                              Frames[p.file][p.at[1]].stored]]
          ELSE [res |-> "ok", points |-> batch, player |-> TakePoints(q, n)]
    BY <1>4, <2>1 DEF DoReadPoints
  <2>3. CASE short
    <3> DEFINE e == [p EXCEPT !.at[2] = Frames[p.file][p.at[1]].stored]
    <3>1. Frames[p.file][p.at[1]].stored \in Nat
      <4>1. Frames[p.file] \in Seq(FrameType)
        BY <2>1, PlayerAssumption
      <4>2. Frames[p.file][p.at[1]] \in FrameType
        BY <2>1, <4>1
      <4>3. QED
        BY <4>2 DEF FrameType
    <3>2. DoReadPoints(p, max) = [res |-> "error", points |-> <<>>, player |-> e]
      BY <1>2, <2>2, <2>3
    <3>3. e \in PlayerType /\ e.left = p.left /\ e.count = p.count
          /\ e.state = p.state
      <4> DEFINE at == [p.at EXCEPT ![2] = Frames[p.file][p.at[1]].stored]
      <4>1. at \in Point
        BY <1>1, <3>1 DEF Point
      <4>2. e = [p EXCEPT !.at = at]
        OBVIOUS
      <4> HIDE DEF at, e
      <4>3. QED
        BY <4>1, <4>2 DEF PlayerType
    <3> HIDE DEF e
    <3>4. QED
      BY <1>1, <1>4, <3>2, <3>3 DEF BatchFacts
  <2>4. CASE ~short
    <3>1. DoReadPoints(p, max) =
            [res |-> "ok", points |-> batch, player |-> TakePoints(q, n)]
      BY <2>2, <2>4
    <3> HIDE DEF n, first, short
    <3>2. /\ batch \in Seq(Point) /\ Len(batch) = n
          /\ \A k \in 1 .. n : batch[k] = <<p.at[1], first + k>>
      <4>1. \A k \in 1 .. n : <<p.at[1], p.at[2] + k>> \in Point
        BY <1>1, <1>2 DEF Point
      <4>2. batch \in [1 .. n -> Point]
        BY <4>1
      <4>3. batch \in Seq(Point) /\ Len(batch) = n
        BY <1>2, <4>2
      <4>4. \A k \in 1 .. n : batch[k] = <<p.at[1], p.at[2] + k>>
        OBVIOUS
      <4> HIDE DEF batch
      <4>5. QED
        BY <2>1, <4>3, <4>4
    <3>3. /\ moved \in PlayerType /\ moved.at[1] = p.at[1]
          /\ moved.at[2] = first + n /\ SameFrame(p, moved)
          /\ moved.small = p.small
      <4> DEFINE at == [p.at EXCEPT ![2] = @ + n]
      <4>1. at = <<p.at[1], first + n>>
        BY <1>1, <2>1 DEF Point
      <4>2. at \in Point /\ at[1] = p.at[1] /\ at[2] = first + n
        BY <1>1, <1>2, <4>1 DEF Point
      <4>3. moved = [p EXCEPT !.at = at]
        OBVIOUS
      <4> HIDE DEF at, moved
      <4>4. QED
        BY <4>2, <4>3 DEF PlayerType, SameFrame
    <3> HIDE DEF batch, moved
    <3>4. /\ copied \in PlayerType /\ copied.at = moved.at
          /\ SameFrame(p, copied)
          /\ copied.small = [i \in 1 .. Small |->
                IF i - first \in 1 .. n THEN batch[i - first] ELSE p.small[i]]
      <4>1. \A i \in 1 .. Small :
              i - first \in 1 .. n => batch[i - first] \in Point
        BY <1>2, <3>2
      <4>2. [i \in 1 .. Small |-> IF i - first \in 1 .. n
                                  THEN batch[i - first] ELSE p.small[i]]
              \in [1 .. Small -> Point]
        BY <1>1, <4>1
      <4>3. copied.small = [i \in 1 .. Small |->
                IF i - first \in 1 .. n THEN batch[i - first] ELSE p.small[i]]
        BY <3>3 DEF PlayerType
      <4>4. QED
        BY <3>3, <4>2, <4>3 DEF PlayerType, SameFrame
    <3> HIDE DEF copied
    <3>5. p.state = "ilda" /\ p.count <= Small => Remembers(copied, first + n)
      <4>1. SUFFICES ASSUME p.state = "ilda", p.count <= Small,
                            NEW k \in 1 .. first + n
                     PROVE  copied.small[k] = <<p.at[1], k>>
        BY <3>4 DEF Remembers, SameFrame
      <4>2. k \in 1 .. Small
        BY <1>1, <1>2, <4>1, PlayerAssumption
      <4>3. CASE k <= first
        <5>1. p.small[k] = <<p.at[1], k>>
          BY <4>1, <4>3 DEF Loaded, Remembers, first
        <5>2. k - first \notin 1 .. n
          BY <1>2, <4>3
        <5>3. QED
          BY <3>4, <4>2, <5>1, <5>2
      <4>4. CASE k > first
        <5>1. k - first \in 1 .. n /\ first + (k - first) = k
          BY <1>2, <4>4
        <5>2. batch[k - first] = <<p.at[1], k>>
          BY <3>2, <5>1
        <5>3. QED
          BY <3>4, <4>2, <5>1, <5>2
      <4>5. QED
        BY <1>2, <4>3, <4>4
    <3>6. /\ q \in PlayerType /\ SameFrame(p, q) /\ q.at[2] = first + n
          /\ p.state = "ilda" /\ p.count <= Small => Remembers(q, first + n)
      BY <3>3, <3>4, <3>5
    <3> HIDE DEF q
    <3>7. /\ TakePoints(q, n) \in PlayerType
          /\ Moved(p, n, TakePoints(q, n))
          /\ TakePoints(q, n).state # "between" => Loaded(TakePoints(q, n))
      BY <1>1, <1>2, <1>4, <3>6, TakeMoves DEF first
    <3>8. TakePoints(q, n).left <= TakePoints(q, n).count
      BY <1>1, <1>2, <3>7 DEF Moved
    <3>9. QED
      BY <1>2, <3>1, <3>2, <3>7, <3>8 DEF BatchFacts, first
  <2>5. QED
    BY <2>3, <2>4
<1>5. QED
  BY <1>1, <1>3, <1>4

\* Where the points of a read come from: the frame already loaded, or the one
\* whose header the read began with.
Source(p, rate) == IF p.state = "between" THEN ReadHeader(p, rate).player ELSE p

\* What one call of ilda_read_points does to a player that has a frame loaded
\* whenever it can deliver points.
ReadFacts(p, max, rate, r) ==
  /\ r.player \in PlayerType /\ r.player.left <= r.player.count
  /\ (r.res = "ok" /\ r.points # <<>>) =>
       /\ Source(p, rate) \in PlayerType
       /\ Loaded(Source(p, rate)) /\ Reads(Source(p, rate))
       /\ BatchFacts(Source(p, rate), max, r)
       /\ p.state = "between" =>
            HeaderFacts(p, rate, "ok", Source(p, rate))
  /\ r.res = "error" =>
       /\ r.player.state # "small"
       /\ r.player.state = "between" =>
            p.state = "between" /\ r.player.count = p.count

\* That holds whatever the file holds and wherever the player is in it.
LEMMA ReadDelivers ==
  ASSUME NEW p \in PlayerType, p.left <= p.count, Reads(p) => Loaded(p),
         NEW rate \in Nat, NEW max \in Nat \ {0}
  PROVE  ReadFacts(p, max, rate, ReadPoints(p, max, rate))
<1>1. CASE p.state # "between" /\ Reads(p)
  <2>1. ReadPoints(p, max, rate) = DoReadPoints(p, max)
    BY <1>1 DEF ReadPoints
  <2>2. BatchFacts(p, max, DoReadPoints(p, max))
    BY <1>1, BatchMoves
  <2>3. Source(p, rate) = p
    BY <1>1 DEF Source
  <2>4. QED
    BY <1>1, <2>1, <2>2, <2>3 DEF ReadFacts, BatchFacts
<1>2. CASE p.state # "between" /\ ~Reads(p)
  <2>1. p.state = "bad" \/ (p.state \in {"ilda", "wav"} /\ p.file = NoFile)
    BY <1>2 DEF Reads, PlayerType
  <2>2. DoReadPoints(p, max).res \in {"panic", "error"}
        /\ DoReadPoints(p, max).player = p
    BY <2>1 DEF DoReadPoints
  <2>3. ReadPoints(p, max, rate) = DoReadPoints(p, max)
    BY <1>2 DEF ReadPoints
  <2>4. QED
    BY <1>2, <2>1, <2>2, <2>3 DEF ReadFacts
<1>3. CASE p.state = "between"
  <2> DEFINE h == ReadHeader(p, rate)
             q == h.player
  <2>1. HeaderFacts(p, rate, h.res, q) /\ Source(p, rate) = q
    BY <1>3, HeaderLoads DEF Source
  <2>2. ReadPoints(p, max, rate) =
          IF h.res = "ok" THEN DoReadPoints(q, max)
          ELSE [res |-> h.res, player |-> q, points |-> <<>>]
    BY <1>3 DEF ReadPoints
  <2> HIDE DEF h
  <2>3. CASE h.res # "ok"
    BY <1>3, <2>1, <2>2, <2>3 DEF ReadFacts, HeaderFacts
  <2>4. CASE h.res = "ok" /\ q.left # 0
    <3>1. q \in PlayerType /\ Loaded(q) /\ Reads(q)
      BY <2>1, <2>4 DEF HeaderFacts
    <3>2. BatchFacts(q, max, DoReadPoints(q, max))
      BY <3>1, BatchMoves
    <3>3. QED
      BY <2>1, <2>2, <2>4, <3>1, <3>2 DEF ReadFacts, BatchFacts
  <2>5. CASE h.res = "ok" /\ q.left = 0
    <3>1. /\ q \in PlayerType /\ q.state = "wav" /\ q.file # NoFile
          /\ q.repeat = 1 /\ q.left = 0 /\ q.count = 0
          /\ q.at[2] = 0 /\ q.at \in Point
      BY <2>1, <2>5 DEF HeaderFacts, Reads, PlayerType
    <3>2. BatchSize(q, max) = 0
      BY <3>1, PlayerAssumption DEF BatchSize, Lesser
    <3> DEFINE moved == [q EXCEPT !.at[2] = @ + 0]
               r == DoReadPoints(q, max)
    <3>3. r = [res |-> "ok",
               points |-> [k \in 1 .. 0 |-> <<q.at[1], q.at[2] + k>>],
               player |-> TakePoints(moved, 0)]
      BY <3>1, <3>2 DEF DoReadPoints
    <3>4. moved = q
      <4>1. [q.at EXCEPT ![2] = @ + 0] = q.at
        BY <3>1 DEF Point
      <4>2. moved = [q EXCEPT !.at = q.at]
        BY <4>1
      <4>3. QED
        BY <3>1, <4>2 DEF PlayerType
    <3> HIDE DEF moved, q, r
    <3>5. TakePoints(q, 0) \in PlayerType
          /\ TakePoints(q, 0).left <= TakePoints(q, 0).count
      <4> DEFINE t == [q EXCEPT !.left = @ - 0]
                 u == [t EXCEPT !.repeat = @ - 1]
                 v == [u EXCEPT !.state = "between"]
      <4>1. t \in PlayerType /\ t.left = 0 /\ t.repeat = 1 /\ t.count = 0
        BY <3>1 DEF PlayerType
      <4>2. TakePoints(q, 0) = IF t.left = 0 THEN FrameDone(t) ELSE t
        BY DEF TakePoints
      <4> HIDE DEF t
      <4>3. u \in PlayerType /\ u.left = 0 /\ u.repeat = 0 /\ u.count = 0
        BY <4>1 DEF PlayerType
      <4>4. FrameDone(t) = v
        BY <4>3 DEF FrameDone
      <4> HIDE DEF u
      <4>5. v \in PlayerType /\ v.left = 0 /\ v.count = 0
        BY <4>3 DEF PlayerType
      <4> HIDE DEF v
      <4>6. QED
        BY <4>1, <4>2, <4>4, <4>5
    <3>6. r.res = "ok" /\ r.player = TakePoints(q, 0)
          /\ r.points = [k \in 1 .. 0 |-> <<q.at[1], q.at[2] + k>>]
      BY <3>3, <3>4
    <3>7. r.points = <<>>
      BY <3>6
    <3>8. ReadPoints(p, max, rate) = r
      BY <2>2, <2>5 DEF q, r
    <3>9. QED
      BY <3>5, <3>6, <3>7, <3>8 DEF ReadFacts
  <2>6. QED
    BY <2>3, <2>4, <2>5
<1>4. QED
  BY <1>1, <1>2, <1>3

--------------------------------------------------------------------------------
(* The main loop and the DAC                                               *)

\* The batch written into the ring is one the DAC driver made room for, although
\* it drains, underruns or is empty by the time dac_advance commits the batch
\* (ilda_do_read_points, playback_refill).
BatchFits ==
  pc = "advance" => got \in 1 .. dlen /\ (mode # "IDLE" => level + got <= Capacity)

\* Where the main loop is, what room it was granted and what /stop has stopped.
LoopInv ==
  /\ ppf \in Rates
  /\ playing \in BOOLEAN /\ again \in BOOLEAN /\ stopped \in BOOLEAN
  /\ request \in -1 .. Len(Catalog) + 1
  /\ mode \in {"IDLE", "PREPARED", "PLAYING"} /\ level \in 0 .. Capacity
  /\ mode = "IDLE" => level = 0
  /\ pc \in Labels
  /\ dlen \in 0 .. Capacity /\ got \in 0 .. Chunk
  /\ pc = "read" => /\ playing /\ dlen > 0
                    /\ mode # "IDLE" => level + dlen <= Capacity
  /\ pc \in {"full", "read", "advance", "start"} => ~stopped
  /\ BatchFits
  /\ StopHolds

\* What the player has loaded is what the history says was shown of it.
Last == trail[Len(trail)]
Shows ==
  /\ player.repeat <= planned
  /\ shown = (planned - player.repeat) * player.count
               + (player.count - player.left)
  /\ IF player.left < player.count
     THEN Last = <<player.at[1], player.count - player.left>>
     ELSE player.at[1] \in {Last[1], Last[1] + 1}

FrameInv ==
  /\ player \in PlayerType /\ player.left <= player.count
  /\ planned \in Nat /\ shown \in Nat
  /\ trail \in Seq(Point) /\ trail # <<>>
  /\ player.state = "small" \/ (playing /\ Reads(player))
       => Loaded(player) /\ Shows
  /\ player.state = "between" => shown = planned * player.count
  /\ playing /\ player.state = "between" /\ player.file # NoFile
       => Last[1] = player.at[1]
  /\ PointsInOrder

PlaybackInv == LoopInv /\ FrameInv

\* The points a read delivers are no more than it was asked for.
LEMMA ReadAmount ==
  ASSUME PlaybackInv, pc = "read"
  PROVE  ReadFacts(player, dlen, ppf, ReadPoints(player, dlen, ppf))
<1>1. player \in PlayerType /\ player.left <= player.count
  BY DEF PlaybackInv, FrameInv
<1>2. Reads(player) => Loaded(player)
  BY DEF PlaybackInv, FrameInv, LoopInv
<1>3. ppf \in Nat /\ dlen \in Nat \ {0}
  BY PlaybackAssumption DEF PlaybackInv, LoopInv
<1>4. QED
  BY <1>1, <1>2, <1>3, ReadDelivers

\* No step commits more than the DAC has room for or revives what /stop stopped.
LEMMA NextLoopInv ==
  ASSUME PlaybackInv, [Next]_vars
  PROVE  LoopInv'
<1> USE DEF PlaybackInv, LoopInv, BatchFits, StopHolds, Labels, osc, dac,
           refill, history
<1>0. /\ 0 \in -1 .. Len(Catalog) + 1 /\ 0 \in 0 .. Capacity /\ 0 \in 0 .. Chunk
      /\ BootRate \in Rates /\ Capacity \in Nat /\ Chunk \in Nat
  BY PlaybackAssumption, PlayerAssumption
<1>1. CASE PlayIndex
  BY <1>1 DEF PlayIndex, Turn
<1>2. CASE PlayName
  BY <1>2 DEF PlayName, Turn, Forget
<1>3. CASE PlayNoName
  BY <1>3 DEF PlayNoName, Turn
<1>4. CASE SetRate
  BY <1>4 DEF SetRate, Turn
<1>5. CASE SetRepeat
  BY <1>5 DEF SetRepeat, Turn
<1>6. CASE StopPlaying
  BY <1>0, <1>6 DEF StopPlaying, Turn
<1>7. CASE NoCommand
  BY <1>7 DEF NoCommand
<1>8. CASE WalkNothing
  BY <1>8 DEF WalkNothing
<1>9. CASE WalkFails
  BY <1>9 DEF WalkFails
<1>10. CASE WalkOpens
  BY <1>0, <1>10 DEF WalkOpens, Forget
<1>11. CASE RefillPrepare
  BY <1>11, PlaybackAssumption DEF RefillPrepare
<1>12. CASE RefillRequest
  BY <1>12, PlaybackAssumption DEF RefillRequest, Rooms
<1>13. CASE RefillFull
  BY <1>13, PlaybackAssumption DEF RefillFull
<1>14. CASE RefillRead
  <2> DEFINE r == ReadPoints(player, dlen, ppf)
  <2>1. /\ pc = "read" /\ pc' = "advance" /\ r.res = "ok" /\ r.points # <<>>
        /\ got' = Len(r.points)
        /\ UNCHANGED <<ppf, playing, again, request, mode, level, dlen,
                       stopped>>
    BY <1>14 DEF RefillRead, Deliver
  <2>2. ReadFacts(player, dlen, ppf, r)
    BY <1>14, <2>1, ReadAmount
  <2>3. Len(r.points) \in 1 .. dlen /\ Len(r.points) <= Chunk
    BY <2>1, <2>2 DEF ReadFacts, BatchFacts
  <2> HIDE DEF r
  <2>4. QED
    BY <2>1, <2>3, PlaybackAssumption, PlayerAssumption
<1>15. CASE RefillEnd
  <2>1. /\ pc = "read" /\ pc' = "start" /\ playing' = again
        /\ dlen' \in {dlen, 0}
        /\ UNCHANGED <<ppf, again, request, mode, level, got, stopped>>
    BY <1>15 DEF RefillEnd
  <2>2. QED
    BY <1>0, <2>1
<1>16. CASE RefillError
  BY <1>16 DEF RefillError
<1>17. CASE RefillCardError
  BY <1>17 DEF RefillCardError
<1>18. CASE RefillPanic
  BY <1>18 DEF RefillPanic
<1>19. CASE RefillAdvance
  BY <1>0, <1>19 DEF RefillAdvance
<1>20. CASE RefillStart
  BY <1>20, PlaybackAssumption DEF RefillStart
<1>21. CASE FiqPlay
  BY <1>21, PlaybackAssumption DEF FiqPlay
<1>22. CASE FiqUnderrun
  BY <1>22, PlaybackAssumption DEF FiqUnderrun
<1>23. CASE FiqUnderrunReset
  BY <1>0, <1>23 DEF FiqUnderrunReset, Restart, Forget
<1>24. CASE WatchdogReset
  BY <1>0, <1>24 DEF WatchdogReset, Restart, Forget
<1>25. CASE UNCHANGED vars
  BY <1>25 DEF vars
<1>26. QED
  BY <1>1, <1>2, <1>3, <1>4, <1>5, <1>6, <1>7, <1>8, <1>9, <1>10,
     <1>11, <1>12, <1>13, <1>14, <1>15, <1>16, <1>17, <1>18, <1>19, <1>20,
     <1>21, <1>22, <1>23, <1>24, <1>25
     DEF Next, Command, Loop, Interrupt

--------------------------------------------------------------------------------
(* The frame and its points                                                *)

\* Rewinding a file leaves the rest of the player alone.
LEMMA ResetPlayerFile ==
  ASSUME NEW p \in PlayerType, p.left <= p.count
  PROVE  /\ ResetFile(p) \in PlayerType
         /\ ResetFile(p).left <= ResetFile(p).count
         /\ ResetFile(p).state = "between" /\ ResetFile(p).at = <<0, 0>>
<1>1. ResetFile(p) =
        [p EXCEPT !.state = "between", !.offset = 0, !.at = <<0, 0>>]
  BY DEF ResetFile
<1>2. <<0, 0>> \in Point /\ 0 \in Int
      /\ "between" \in {"between", "ilda", "small", "wav", "bad"}
  BY DEF Point
<1>3. [p EXCEPT !.state = "between", !.offset = 0, !.at = <<0, 0>>]
        \in PlayerType
  BY <1>2 DEF PlayerType
<1>4. ResetFile(p).left = p.left /\ ResetFile(p).count = p.count
      /\ ResetFile(p).state = "between" /\ ResetFile(p).at = <<0, 0>>
  BY <1>1 DEF PlayerType
<1>5. QED
  BY <1>1, <1>3, <1>4

\* So does opening one.
LEMMA OpenedPlayer ==
  ASSUME NEW p \in PlayerType, p.left <= p.count, NEW f \in Files
  PROVE  /\ Opened(p, f) \in PlayerType
         /\ Opened(p, f).left <= Opened(p, f).count
         /\ Opened(p, f).state = "between" /\ Opened(p, f).at = <<0, 0>>
<1>1. [p EXCEPT !.file = f] \in PlayerType
      /\ [p EXCEPT !.file = f].left <= [p EXCEPT !.file = f].count
  BY DEF PlayerType
<1>2. QED
  BY <1>1, ResetPlayerFile DEF Opened

\* A player that starts a file has shown nothing of it.
LEMMA FreshStart ==
  ASSUME Forget,
         player' \in PlayerType, player'.left <= player'.count,
         \/ player'.state = "between" /\ player'.at = <<0, 0>>
         \/ player'.state = "ilda" /\ ~playing'
  PROVE  FrameInv'
<1>1. /\ trail' = <<NoPoint>> /\ planned' = 0 /\ shown' = 0
      /\ NoPoint \in Point /\ NoPoint[1] = 0
  BY DEF Forget, NoPoint, Point
<1>2. trail' \in Seq(Point) /\ trail' # <<>> /\ Len(trail') = 1
      /\ trail'[1] = NoPoint
  BY <1>1
<1>3. PointsInOrder' /\ Last' = NoPoint
  BY <1>2 DEF PointsInOrder, Last
<1>4. 0 = 0 * player'.count
  BY DEF PlayerType
<1>5. player'.state # "small" /\ ~(playing' /\ Reads(player'))
  BY DEF Reads
<1>6. (playing' /\ player'.state = "between" /\ player'.file # NoFile)
        => Last'[1] = player'.at[1]
  BY <1>1, <1>3
<1>7. QED
  BY <1>1, <1>2, <1>3, <1>4, <1>5, <1>6 DEF FrameInv, Last

\* One round more of a frame adds its points to the tally.
LEMMA OneRound ==
  ASSUME NEW a \in Nat, NEW k \in Nat, NEW c \in Nat
  PROVE  /\ (a - k) * c + c = (a - (k - 1)) * c
         /\ k = 1 => (a - k) * c + c = a * c
<1>1. \A b, d \in Int : b * d + d = (b + 1) * d
  OBVIOUS
<1>2. a - k \in Int /\ c \in Int /\ a - (k - 1) = (a - k) + 1
  OBVIOUS
<1>3. (a - k) * c + c = (a - (k - 1)) * c
  BY <1>1, <1>2
<1>4. k = 1 => a - (k - 1) = a
  OBVIOUS
<1>5. QED
  BY <1>3, <1>4

\* One batch: its points follow the last one shown, and the tally follows them.
LEMMA BatchKeepsFrame ==
  ASSUME PlaybackInv, RefillRead
  PROVE  FrameInv'
<1> DEFINE r == ReadPoints(player, dlen, ppf)
           q == Source(player, ppf)
           pts == r.points
           n == Len(pts)
<1>1. /\ pc = "read" /\ playing /\ playing' = playing
      /\ r.res = "ok" /\ pts # <<>>
      /\ player' = r.player
      /\ trail' = <<Last>> \o pts
      /\ IF player.state = "between"
         THEN planned' = q.repeat /\ shown' = n
         ELSE planned' = planned /\ shown' = shown + n
  BY DEF RefillRead, Deliver, PlaybackInv, LoopInv, Last, Source
<1>2. ReadFacts(player, dlen, ppf, r)
  BY <1>1, ReadAmount
<1>3. /\ q \in PlayerType /\ Loaded(q) /\ Reads(q) /\ BatchFacts(q, dlen, r)
      /\ player.state = "between" => HeaderFacts(player, ppf, "ok", q)
      /\ player' \in PlayerType /\ player'.left <= player'.count
  BY <1>1, <1>2 DEF ReadFacts
<1>4. /\ pts \in Seq(Point) /\ n \in Nat /\ n >= 1 /\ n <= q.left
      /\ \A k \in 1 .. n : pts[k] = <<q.at[1], q.count - q.left + k>>
      /\ Moved(q, n, player')
      /\ player'.state # "between" => Loaded(player')
  <2>1. /\ pts \in Seq(Point) /\ n \in 1 .. dlen /\ n <= q.left
        /\ \A k \in 1 .. n : pts[k] = <<q.at[1], q.count - q.left + k>>
        /\ Moved(q, n, player')
        /\ player'.state # "between" => Loaded(player')
    BY <1>1, <1>3 DEF BatchFacts
  <2> HIDE DEF r, q
  <2>2. QED
    BY <2>1
<1>5. /\ trail \in Seq(Point) /\ trail # <<>>
      /\ planned \in Nat /\ shown \in Nat /\ player \in PlayerType
  BY DEF PlaybackInv, FrameInv
<1>6. /\ Last \in Point
      /\ player.at[1] \in Nat /\ q.at[1] \in Nat /\ q.count \in Nat
      /\ q.left \in 1 .. q.count /\ q.repeat \in Nat /\ q.repeat >= 1
  <2>1. Last \in Point
    BY <1>5 DEF Last
  <2>2. player.at[1] \in Nat
    BY <1>5 DEF PlayerType, Point
  <2> HIDE DEF r, q, n, pts
  <2>3. q.at[1] \in Nat /\ q.count \in Nat /\ q.repeat \in Nat
    BY <1>3 DEF PlayerType, Point
  <2>4. q.left \in 1 .. q.count /\ q.repeat >= 1
    BY <1>3 DEF Loaded
  <2>5. QED
    BY <2>1, <2>2, <2>3, <2>4
<1> DEFINE first == q.count - q.left
<1>7. PICK before \in Nat :
        /\ shown' = before + n /\ planned' \in Nat /\ q.repeat <= planned'
        /\ before = (planned' - q.repeat) * q.count + first
        /\ IF first > 0 THEN Last = <<q.at[1], first>>
           ELSE q.at[1] \in {Last[1], Last[1] + 1}
  <2>1. CASE player.state = "between"
    <3>1. /\ planned' = q.repeat /\ shown' = n
          /\ q.left = q.count /\ q.at = <<player.at[1] + 1, 0>>
          /\ player.file # NoFile
      BY <1>1, <1>3, <2>1 DEF HeaderFacts, Reads, Loaded
    <3>2. Last[1] = player.at[1]
      BY <1>1, <2>1, <3>1 DEF PlaybackInv, FrameInv
    <3> HIDE DEF r, q, n
    <3>3. first = 0 /\ (planned' - q.repeat) * q.count + first = 0
      BY <1>6, <3>1
    <3>4. q.at[1] = Last[1] + 1
      BY <3>1, <3>2
    <3>5. QED
      BY <1>4, <1>6, <3>1, <3>3, <3>4
  <2>2. CASE player.state # "between"
    <3>1. q = player /\ planned' = planned /\ shown' = shown + n
      BY <1>1, <2>2 DEF Source
    <3>2. Shows
      BY <1>1, <1>3, <3>1 DEF PlaybackInv, FrameInv
    <3> HIDE DEF r, q, n
    <3>3. /\ player.repeat <= planned
          /\ shown = (planned - player.repeat) * player.count + first
          /\ IF first > 0 THEN Last = <<q.at[1], first>>
             ELSE q.at[1] \in {Last[1], Last[1] + 1}
      BY <1>6, <3>1, <3>2 DEF Shows
    <3>4. QED
      BY <1>5, <3>1, <3>3
  <2>3. QED
    BY <2>1, <2>2
<1> HIDE DEF r, q, n, pts
<1>8. /\ trail' \in Seq(Point) /\ Len(trail') = n + 1 /\ trail'[1] = Last
      /\ \A k \in 1 .. n : trail'[k + 1] = <<q.at[1], first + k>>
  <2>1. <<Last>> \in Seq(Point) /\ Len(<<Last>>) = 1 /\ <<Last>>[1] = Last
    BY <1>6
  <2>2. pts \in Seq(Point) /\ Len(pts) = n
    BY <1>4 DEF n
  <2>3. /\ <<Last>> \o pts \in Seq(Point) /\ Len(<<Last>> \o pts) = 1 + n
        /\ \A k \in 1 .. 1 + n : (<<Last>> \o pts)[k] =
              IF k <= 1 THEN <<Last>>[k] ELSE pts[k - 1]
    BY <2>1, <2>2, ConcatProperties
  <2>4. \A k \in 1 .. n :
          k + 1 \in 1 .. 1 + n /\ ~(k + 1 <= 1) /\ (k + 1) - 1 = k
    BY <1>4
  <2>5. \A k \in 1 .. n : trail'[k + 1] = pts[k]
    BY <1>1, <2>3, <2>4
  <2>6. QED
    BY <1>1, <1>4, <2>1, <2>3, <2>5
<1>9. first \in Nat
  BY <1>6
<1> HIDE DEF first
<1>10. PointsInOrder'
  <2>1. SUFFICES ASSUME NEW i \in 1 .. n
                 PROVE  Follows(trail'[i], trail'[i + 1])
    BY <1>4, <1>8 DEF PointsInOrder, Follows
  <2>2. trail'[i + 1] = <<q.at[1], first + i>>
    BY <1>8
  <2>3. CASE i = 1 /\ first = 0
    BY <1>7, <1>8, <1>9, <2>2, <2>3 DEF Follows
  <2>4. CASE i = 1 /\ first > 0
    BY <1>7, <1>8, <1>9, <2>2, <2>4 DEF Follows
  <2>5. CASE i > 1
    <3>1. i - 1 \in 1 .. n /\ (i - 1) + 1 = i
      BY <1>4, <2>5
    <3>2. trail'[i] = <<q.at[1], first + (i - 1)>>
      BY <1>8, <3>1
    <3>3. first + i = (first + (i - 1)) + 1
      BY <1>9
    <3>4. QED
      BY <2>2, <3>2, <3>3 DEF Follows
  <2>6. QED
    BY <1>9, <2>3, <2>4, <2>5
<1>11. Last' = <<q.at[1], first + n>>
  BY <1>4, <1>8 DEF Last
<1>12. shown' \in Nat /\ trail' # <<>>
  BY <1>4, <1>7, <1>8
<1>13. /\ player'.state = "small" \/ (playing' /\ Reads(player'))
            => Loaded(player') /\ Shows'
       /\ player'.state = "between" => shown' = planned' * player'.count
       /\ player'.state = "between" => Last'[1] = player'.at[1]
  <2>1. /\ player'.at[1] = q.at[1] /\ player'.count = q.count
    BY <1>4 DEF Moved
  <2>2. /\ first = q.count - q.left /\ first \in Nat
        /\ n \in Nat /\ n >= 1 /\ n <= q.left
        /\ q.left \in Nat /\ q.count \in Nat /\ q.left <= q.count
        /\ q.repeat \in Nat /\ planned' \in Nat
        /\ q.count - q.left + n = q.count - (q.left - n)
    <3>1. first = q.count - q.left
      BY DEF first
    <3>2. q.left \in Nat /\ q.count \in Nat /\ q.left <= q.count
          /\ q.repeat \in Nat
      BY <1>6
    <3>3. n \in Nat /\ n >= 1 /\ n <= q.left
      BY <1>4
    <3>4. q.count - q.left + n = q.count - (q.left - n)
      BY <3>2, <3>3
    <3>5. QED
      BY <1>7, <1>9, <3>1, <3>2, <3>3, <3>4
  <2>3. CASE n < q.left /\ player'.state = q.state /\ player'.repeat = q.repeat
             /\ player'.left = q.left - n
    <3>1. q.state # "between"
      BY <1>3 DEF Reads
    <3>2. /\ player'.left < player'.count
          /\ player'.count - player'.left = first + n
      BY <2>1, <2>2, <2>3
    <3>3. (planned' - q.repeat) * q.count \in Int
      BY <1>6, <1>7
    <3>4. shown' = (planned' - q.repeat) * q.count + (first + n)
      BY <1>4, <1>7, <1>9, <3>3
    <3>5. Shows'
      BY <1>7, <1>11, <2>1, <2>3, <3>2, <3>4 DEF Shows
    <3>6. QED
      BY <1>4, <2>3, <3>1, <3>5
  <2>4. CASE n = q.left /\ q.repeat > 1 /\ player'.state \in {"ilda", "small"}
             /\ player'.repeat = q.repeat - 1 /\ player'.left = q.count
    <3>1. first + n = q.count
      BY <1>4, <1>6, <2>2, <2>4
    <3>2. (planned' - q.repeat) * q.count + q.count
            = (planned' - player'.repeat) * q.count
      BY <2>2, <2>4, OneRound
    <3>3. (planned' - q.repeat) * q.count \in Int
      BY <1>6, <1>7
    <3>4. shown' = (planned' - player'.repeat) * q.count
                    + (player'.count - player'.left)
      <4>1. shown' = ((planned' - q.repeat) * q.count + first) + n
        BY <1>7
      <4>2. ((planned' - q.repeat) * q.count + first) + n
              = (planned' - q.repeat) * q.count + q.count
        BY <2>2, <3>1, <3>3
      <4>3. player'.count - player'.left = 0
        BY <2>1, <2>2, <2>4
      <4>4. QED
        BY <2>2, <3>2, <3>3, <4>1, <4>2, <4>3
    <3>5. /\ player'.at[1] \in {Last'[1], Last'[1] + 1}
          /\ player'.repeat <= planned'
          /\ ~(player'.left < player'.count)
      BY <1>6, <1>7, <1>11, <2>1, <2>4
    <3>6. Shows'
      BY <2>1, <3>4, <3>5 DEF Shows
    <3>7. QED
      BY <1>4, <2>4, <3>6
  <2>5. CASE n = q.left /\ q.repeat = 1 /\ player'.state = "between"
    <3>1. first + n = q.count
      BY <1>4, <1>6, <2>2, <2>5
    <3>2. (planned' - q.repeat) * q.count + q.count = planned' * q.count
      <4>1. q.repeat \in Nat /\ q.count \in Nat /\ planned' \in Nat
        BY <2>2
      <4>2. QED
        BY <2>5, <4>1, OneRound
    <3>3. (planned' - q.repeat) * q.count \in Int
      BY <1>6, <1>7
    <3>4. shown' = planned' * player'.count
      BY <1>4, <1>6, <1>7, <1>9, <2>1, <3>1, <3>2, <3>3
    <3>5. Last'[1] = player'.at[1]
      BY <1>11, <2>1
    <3>6. QED
      BY <2>5, <3>4, <3>5 DEF Reads
  <2>6. QED
    BY <1>4, <2>3, <2>4, <2>5 DEF Moved
<1>14. QED
  BY <1>3, <1>7, <1>8, <1>10, <1>12, <1>13 DEF FrameInv

\* A step that touches neither player nor history keeps what ties them.
LEMMA FrameKept ==
  ASSUME FrameInv, UNCHANGED <<player, trail, planned, shown>>,
         playing' => playing
  PROVE  FrameInv'
BY DEF FrameInv, Shows, Last, PointsInOrder

\* So does losing the file: what is replayed from memory goes on without it.
LEMMA FrameKeptWithoutFile ==
  ASSUME FrameInv, player' = [player EXCEPT !.file = NoFile],
         UNCHANGED <<trail, planned, shown>>
  PROVE  FrameInv'
<1>1. /\ player' \in PlayerType /\ player'.file = NoFile
      /\ player'.at = player.at /\ player'.state = player.state
      /\ player'.left = player.left /\ player'.repeat = player.repeat
      /\ player'.count = player.count /\ player'.small = player.small
      /\ player'.start = player.start
  BY DEF FrameInv, PlayerType
<1>2. Reads(player') => player.state = "small"
  BY <1>1 DEF Reads
<1>3. player.state = "small" => Loaded(player') /\ Shows'
  <2>1. SUFFICES ASSUME player.state = "small"
                 PROVE  Loaded(player') /\ Shows'
    OBVIOUS
  <2>2. Loaded(player) /\ Shows
    BY <2>1 DEF FrameInv
  <2>3. Loaded(player')
    BY <1>1, <2>1, <2>2 DEF Loaded, Remembers
  <2>4. Shows'
    BY <1>1, <2>2 DEF Shows, Last
  <2>5. QED
    BY <2>3, <2>4
<1>4. PointsInOrder' /\ Last' = Last
  BY DEF FrameInv, PointsInOrder, Last
<1>5. QED
  BY <1>1, <1>2, <1>3, <1>4 DEF FrameInv

\* The player after reset: no file, nothing loaded.
LEMMA BootPlayer ==
  /\ ResetPlayer \in PlayerType /\ ResetPlayer.left <= ResetPlayer.count
  /\ ResetPlayer.state = "ilda"
<1>1. NoPoint \in Point /\ <<0, 0>> \in Point
  BY DEF NoPoint, Point
<1>2. [i \in 1 .. Small |-> NoPoint] \in [1 .. Small -> Point]
  BY <1>1
<1>3. QED
  BY <1>1, <1>2 DEF ResetPlayer, PlayerType

\* No step of the main loop or of the FIQ breaks a frame or its order.
LEMMA NextFrameInv ==
  ASSUME PlaybackInv, [Next]_vars
  PROVE  FrameInv'
<1> USE DEF PlaybackInv, osc, dac, refill, history
<1>1. CASE PlayIndex
  BY <1>1, FrameKept DEF PlayIndex
<1>2. CASE PlayName
  <2>1. PICK f \in Files : player' = Opened(player, f)
    BY <1>2 DEF PlayName
  <2>2. QED
    BY <1>2, <2>1, OpenedPlayer, FreshStart DEF PlayName, FrameInv
<1>3. CASE PlayNoName
  BY <1>3, FrameKeptWithoutFile DEF PlayNoName, OpenFailed
<1>4. CASE SetRate
  BY <1>4, FrameKept DEF SetRate
<1>5. CASE SetRepeat
  BY <1>5, FrameKept DEF SetRepeat
<1>6. CASE StopPlaying
  BY <1>6, FrameKept DEF StopPlaying
<1>7. CASE NoCommand
  BY <1>7, FrameKept DEF NoCommand
<1>8. CASE WalkNothing
  BY <1>8, FrameKept DEF WalkNothing
<1>9. CASE WalkFails
  BY <1>9, FrameKept DEF WalkFails
<1>10. CASE WalkOpens
  <2>1. CASE player' = Opened(player, Catalog[request]) /\ Forget
    <3>1. Catalog[request] \in Files
      BY <1>10, PlaybackAssumption DEF WalkOpens
    <3>2. QED
      BY <2>1, <3>1, OpenedPlayer, FreshStart DEF FrameInv
  <2>2. CASE player' = OpenFailed(player) /\ UNCHANGED <<trail, planned, shown>>
    BY <2>2, FrameKeptWithoutFile DEF OpenFailed
  <2>3. QED
    BY <1>10, <2>1, <2>2 DEF WalkOpens
<1>11. CASE RefillPrepare
  BY <1>11, FrameKept DEF RefillPrepare
<1>12. CASE RefillRequest
  BY <1>12, FrameKept DEF RefillRequest
<1>13. CASE RefillFull
  BY <1>13, FrameKept DEF RefillFull
<1>14. CASE RefillRead
  BY <1>14, BatchKeepsFrame
<1>15. CASE RefillEnd
  <2> DEFINE r == ReadPoints(player, dlen, ppf)
  <2>1. pc = "read" /\ player' = ResetFile(r.player) /\ Forget
    BY <1>15 DEF RefillEnd
  <2>2. ReadFacts(player, dlen, ppf, r)
    BY <2>1, ReadAmount
  <2>3. r.player \in PlayerType /\ r.player.left <= r.player.count
    BY <2>2 DEF ReadFacts
  <2> HIDE DEF r
  <2>4. /\ ResetFile(r.player) \in PlayerType
        /\ ResetFile(r.player).left <= ResetFile(r.player).count
        /\ ResetFile(r.player).state = "between"
        /\ ResetFile(r.player).at = <<0, 0>>
    BY <2>3, ResetPlayerFile
  <2>5. QED
    BY <2>1, <2>4, FreshStart
<1>16. CASE RefillError
  <2> DEFINE r == ReadPoints(player, dlen, ppf)
  <2>1. /\ pc = "read" /\ r.res = "error" /\ player' = r.player /\ ~playing'
        /\ UNCHANGED <<trail, planned, shown>>
    BY <1>16 DEF RefillError
  <2>2. ReadFacts(player, dlen, ppf, r)
    BY <2>1, ReadAmount
  <2>3. /\ player' \in PlayerType /\ player'.left <= player'.count
        /\ player'.state # "small"
        /\ player'.state = "between" =>
             player.state = "between" /\ player'.count = player.count
    BY <2>1, <2>2 DEF ReadFacts
  <2> HIDE DEF r
  <2>4. QED
    BY <2>1, <2>3 DEF FrameInv, PointsInOrder
<1>17. CASE RefillCardError
  <2>1. CASE player' = [player EXCEPT !.file = NoFile]
    BY <1>17, <2>1, FrameKeptWithoutFile DEF RefillCardError
  <2>2. CASE player' = [player EXCEPT !.file = NoFile, !.state = "ilda"]
    <3>1. /\ player' \in PlayerType /\ player'.state = "ilda"
          /\ player'.left = player.left /\ player'.count = player.count
      BY <2>2 DEF FrameInv, PlayerType
    <3>2. ~playing' /\ UNCHANGED <<trail, planned, shown>>
      BY <1>17 DEF RefillCardError
    <3>3. QED
      BY <3>1, <3>2 DEF FrameInv, PointsInOrder
  <2>3. QED
    BY <1>17, <2>1, <2>2 DEF RefillCardError
<1>18. CASE RefillPanic
  BY <1>18, FrameKept DEF RefillPanic
<1>19. CASE RefillAdvance
  <2>1. /\ trail' = <<Last>> /\ Last \in Point
        /\ UNCHANGED <<player, playing, planned, shown>>
    BY <1>19 DEF RefillAdvance, Last, FrameInv
  <2>2. trail' \in Seq(Point) /\ trail' # <<>> /\ Len(trail') = 1
        /\ trail'[1] = Last
    BY <2>1
  <2>3. Last' = Last /\ PointsInOrder'
    BY <2>2 DEF Last, PointsInOrder
  <2>4. QED
    BY <2>1, <2>2, <2>3 DEF FrameInv, Shows
<1>20. CASE RefillStart
  BY <1>20, FrameKept DEF RefillStart
<1>21. CASE FiqPlay
  BY <1>21, FrameKept DEF FiqPlay
<1>22. CASE FiqUnderrun
  BY <1>22, FrameKept DEF FiqUnderrun
<1>23. CASE FiqUnderrunReset
  BY <1>23, BootPlayer, FreshStart DEF FiqUnderrunReset, Restart
<1>24. CASE WatchdogReset
  BY <1>24, BootPlayer, FreshStart DEF WatchdogReset, Restart
<1>25. CASE UNCHANGED vars
  BY <1>25, FrameKept DEF vars
<1>26. QED
  BY <1>1, <1>2, <1>3, <1>4, <1>5, <1>6, <1>7, <1>8, <1>9, <1>10,
     <1>11, <1>12, <1>13, <1>14, <1>15, <1>16, <1>17, <1>18, <1>19, <1>20,
     <1>21, <1>22, <1>23, <1>24, <1>25
     DEF Next, Command, Loop, Interrupt

--------------------------------------------------------------------------------
(* The frame rate                                                          *)

\* The repeat count makes up for what earlier frames were off, to within half a
\* frame; one showing is the least.
LEMMA OffsetIsNear ==
  ASSUME NEW n \in Nat \ {0}, NEW rate \in Nat \ {0}, NEW offset \in Int
  PROVE  /\ 2 * NewOffset(n, rate, offset) >= -n
         /\ RepeatCount(n, rate, offset) > 1
              => 2 * NewOffset(n, rate, offset) <= n
<1> DEFINE x == rate - offset + n \div 2
           k == x \div n
<1>1. n \div 2 \in Int /\ 2 * (n \div 2) <= n /\ n < 2 * (n \div 2) + 2
  OBVIOUS
<1>2. x \in Int
  BY <1>1
<1> HIDE DEF x
<1>3. k \in Int /\ k * n \in Int /\ k * n <= x /\ x < k * n + n
  BY <1>2
<1>4. RepeatCount(n, rate, offset) = IF k <= 0 THEN 1 ELSE k
  BY DEF RepeatCount, x
<1> HIDE DEF k
<1>5. NewOffset(n, rate, offset) =
        offset + RepeatCount(n, rate, offset) * n - rate
  BY DEF NewOffset
<1>6. x = rate - offset + n \div 2
  BY DEF x
<1>7. CASE k > 0
  <2>1. NewOffset(n, rate, offset) = offset + k * n - rate
    BY <1>3, <1>4, <1>5, <1>7
  <2>2. QED
    BY <1>1, <1>3, <1>6, <2>1
<1>8. CASE k <= 0
  <2>1. /\ RepeatCount(n, rate, offset) = 1
        /\ NewOffset(n, rate, offset) = offset + n - rate
    BY <1>3, <1>4, <1>5, <1>8
  <2>2. k * n <= 0
    BY <1>3, <1>8
  <2>3. x < n
    BY <1>2, <1>3, <2>2
  <2>4. QED
    BY <1>1, <1>6, <2>1, <2>3
<1>9. QED
  BY <1>3, <1>7, <1>8

\* The same for the frame a batch has just begun.
LEMMA BatchKeepsRate ==
  ASSUME PlaybackInv, RefillRead, player.state = "between",
         player'.state \in {"ilda", "small"}, ppf > 0
  PROVE  /\ 2 * player'.offset >= -player'.count
         /\ planned' > 1 => 2 * player'.offset <= player'.count
<1> DEFINE r == ReadPoints(player, dlen, ppf)
           q == Source(player, ppf)
<1>1. /\ pc = "read" /\ r.res = "ok" /\ r.points # <<>> /\ player' = r.player
      /\ planned' = q.repeat
  BY DEF RefillRead, Deliver, Source
<1>2. ReadFacts(player, dlen, ppf, r)
  BY <1>1, ReadAmount
<1>3. /\ q \in PlayerType /\ Loaded(q) /\ HeaderFacts(player, ppf, "ok", q)
      /\ BatchFacts(q, dlen, r)
  BY <1>1, <1>2 DEF ReadFacts
<1>4. Moved(q, Len(r.points), player')
  BY <1>1, <1>3 DEF BatchFacts
<1> HIDE DEF r, q
<1>5. q.state = "ilda" /\ player'.count = q.count /\ player'.offset = q.offset
  BY <1>3, <1>4 DEF Moved, HeaderFacts, Loaded
<1>6. /\ q.repeat = RepeatCount(q.count, ppf, player.offset)
      /\ q.offset = NewOffset(q.count, ppf, player.offset)
  BY <1>3, <1>5 DEF HeaderFacts
<1>7. q.count \in Nat \ {0} /\ ppf \in Nat \ {0} /\ player.offset \in Int
  <2>1. q.count \in Nat /\ q.left \in 1 .. q.count
    BY <1>3 DEF PlayerType, Loaded
  <2>2. ppf \in Nat
    BY PlaybackAssumption DEF PlaybackInv, LoopInv
  <2>3. player.offset \in Int
    BY DEF PlaybackInv, FrameInv, PlayerType
  <2>4. QED
    BY <2>1, <2>2, <2>3
<1>8. QED
  BY <1>1, <1>5, <1>6, <1>7, OffsetIsNear

--------------------------------------------------------------------------------
(* The theorems                                                            *)

\* After reset nothing plays, nothing is queued and nothing was shown.
LEMMA InitPlayback == Init => PlaybackInv
<1> SUFFICES ASSUME Init
             PROVE  PlaybackInv
  OBVIOUS
<1>1. LoopInv
  <2>1. /\ 0 \in -1 .. Len(Catalog) + 1 /\ 0 \in 0 .. Capacity
        /\ 0 \in 0 .. Chunk /\ BootRate \in Rates
    BY PlaybackAssumption, PlayerAssumption
  <2>2. QED
    BY <2>1 DEF Init, LoopInv, Labels, BatchFits, StopHolds
<1>2. /\ player \in PlayerType /\ player.left <= player.count
      /\ player.state = "ilda"
  BY BootPlayer DEF Init
<1>3. trail \in Seq(Point) /\ trail # <<>> /\ Len(trail) = 1
  BY DEF Init, NoPoint, Point
<1>4. FrameInv
  BY <1>2, <1>3 DEF Init, FrameInv, PointsInOrder
<1>5. QED
  BY <1>1, <1>4 DEF PlaybackInv

\* The inductive invariant holds in every reachable state.
THEOREM PlaybackInvariance == Spec => []PlaybackInv
<1>1. PlaybackInv /\ [Next]_vars => PlaybackInv'
  BY NextLoopInv, NextFrameInv DEF PlaybackInv
<1>2. QED
  BY <1>1, InitPlayback, PTL DEF Spec

\* Every variable of the player and of the main loop keeps its range, whatever
\* the files hold.
THEOREM PlaybackTypes == Spec => []TypeOK
<1>1. PlaybackInv => TypeOK
  BY DEF PlaybackInv, LoopInv, FrameInv, PlayerType, TypeOK
<1>2. QED
  BY <1>1, PlaybackInvariance, PTL

\* ilda_do_read_points, playback_refill: for every ring and chunk size the batch
\* that dac_advance commits is one the driver has room for.
THEOREM BatchesFit == Spec => []BatchFits
<1>1. PlaybackInv => BatchFits
  BY DEF PlaybackInv, LoopInv
<1>2. QED
  BY <1>1, PlaybackInvariance, PTL

\* ilda_stop_FPV_param, walk_fs, playback_refill: what /stop has stopped stays
\* stopped until a file is opened.
THEOREM StopIsFinal == Spec => []StopHolds
<1>1. PlaybackInv => StopHolds
  BY DEF PlaybackInv, LoopInv
<1>2. QED
  BY <1>1, PlaybackInvariance, PTL

\* ilda_do_read_points, save_small_frame: for every set of files the points come
\* out in the order of the file, through chunks, replays and seeks.
THEOREM OrderIsKept == Spec => []PointsInOrder
<1>1. PlaybackInv => PointsInOrder
  BY DEF PlaybackInv, FrameInv
<1>2. QED
  BY <1>1, PlaybackInvariance, PTL

\* The tail of ilda_do_read_points: for every set of files a frame that is left
\* was shown as often as its header planned, every time to its last point.
THEOREM FramesAreWhole == Spec => []FramesWhole
<1>1. PlaybackInv => FramesWhole
  BY DEF PlaybackInv, FrameInv, FramesWhole
<1>2. QED
  BY <1>1, PlaybackInvariance, PTL

\* ilda_read_frame_header: for every frame size and every points per frame the
\* carried offset stays within half a frame.
THEOREM FrameRateIsKept == Spec => KeepsFrameRate
<1> DEFINE Begins == /\ player.state = "between"
                     /\ player'.state \in {"ilda", "small"}
                     /\ got' > 0 /\ ppf > 0 /\ pc' = "advance"
           Near == /\ 2 * player'.offset >= -player'.count
                   /\ planned' > 1 => 2 * player'.offset <= player'.count
<1>1. ASSUME PlaybackInv, [Next]_vars, Begins
      PROVE  Near
  <2>1. player' # player
    BY <1>1
  <2>2. RefillRead
    BY <1>1, <2>1
       DEF Next, Command, Loop, Interrupt, Turn, vars, PlayIndex, PlayName,
           PlayNoName, SetRate, SetRepeat, StopPlaying, NoCommand, WalkNothing,
           WalkFails, WalkOpens, RefillPrepare, RefillRequest, RefillFull,
           RefillEnd, RefillError, RefillCardError, RefillPanic, RefillAdvance,
           RefillStart, FiqPlay, FiqUnderrun, FiqUnderrunReset, WatchdogReset,
           Restart
  <2>3. QED
    BY <1>1, <2>2, BatchKeepsRate
<1>2. PlaybackInv /\ [Next]_vars => [Begins => Near]_vars
  BY <1>1
<1>3. QED
  BY <1>2, PlaybackInvariance, PTL DEF Spec, KeepsFrameRate

--------------------------------------------------------------------------------
(* The producer and the driver                                             *)

\* The refill is ready for every grant the driver may give, none at all included.
LEMMA EveryGrantIsExpected ==
  ASSUME LoopInv, mode # "IDLE"
  PROVE  Rooms = IF level = Capacity THEN {0} ELSE Levels!Grants
<1>1. CASE level = Capacity
  BY <1>1 DEF Rooms
<1>2. CASE level # Capacity /\ mode = "PREPARED"
  <2>1. Capacity - level # 0
    BY <1>2, PlaybackAssumption DEF LoopInv
  <2>2. {Capacity - level} \ {0} = {Capacity - level}
    BY <2>1
  <2>3. QED
    BY <1>2, <2>2 DEF Rooms, Levels!Grants
<1>3. CASE level # Capacity /\ mode # "PREPARED"
  BY <1>3 DEF Rooms, Levels!Grants
<1>4. QED
  BY <1>1, <1>2, <1>3

\* Every step of the main loop is one the driver admits its producer, and every
\* step of the FIQ one the driver promises.
LEMMA NextLevels ==
  ASSUME LoopInv, [Next]_vars
  PROVE  [Levels!Next]_Levels!levelVars
<1> USE DEF LoopInv, Levels!levelVars, osc, dac, refill, history
<1>1. CASE PlayIndex
  BY <1>1 DEF PlayIndex, Turn
<1>2. CASE PlayName
  BY <1>2 DEF PlayName, Turn
<1>3. CASE PlayNoName
  BY <1>3 DEF PlayNoName, Turn
<1>4. CASE SetRate
  BY <1>4 DEF SetRate, Turn
<1>5. CASE SetRepeat
  BY <1>5 DEF SetRepeat, Turn
<1>6. CASE StopPlaying
  BY <1>6 DEF StopPlaying, Turn, Levels!Stop, Levels!Next
<1>7. CASE NoCommand
  BY <1>7 DEF NoCommand
<1>8. CASE WalkNothing
  BY <1>8 DEF WalkNothing
<1>9. CASE WalkFails
  BY <1>9 DEF WalkFails
<1>10. CASE WalkOpens
  BY <1>10 DEF WalkOpens
<1>11. CASE RefillPrepare
  BY <1>11 DEF RefillPrepare, Levels!Prepare, Levels!Next
<1>12. CASE RefillRequest
  <2>1. PICK rm \in Rooms :
          IF rm > 0 /\ ~playing THEN pc' = "auto" /\ dlen' = 0
          ELSE /\ pc' = IF rm = 0 THEN "full" ELSE "read"
               /\ dlen' = rm
    BY <1>12 DEF RefillRequest
  <2>2. pc = "refill" /\ mode # "IDLE" /\ UNCHANGED <<mode, level>>
    BY <1>12 DEF RefillRequest
  <2>3. CASE rm = 0 \/ ~playing
    BY <2>1, <2>2, <2>3, PlaybackAssumption DEF Rooms
  <2>4. CASE rm # 0 /\ playing
    <3>1. pc' = "read" /\ dlen' = rm
      BY <2>1, <2>4
    <3>2. rm \in Levels!Grants
      BY <2>2, <2>4, PlaybackAssumption DEF Rooms, Levels!Grants
    <3>3. Levels!Request
      BY <2>2, <3>1, <3>2 DEF Levels!Request
    <3>4. QED
      BY <3>3 DEF Levels!Next
  <2>5. QED
    BY <2>3, <2>4
<1>13. CASE RefillFull
  BY <1>13 DEF RefillFull, Levels!Start, Levels!Next
<1>14. CASE RefillRead
  BY <1>14 DEF RefillRead
<1>15. CASE RefillEnd
  BY <1>15 DEF RefillEnd, Levels!GiveUp, Levels!Next
<1>16. CASE RefillError
  BY <1>16 DEF RefillError, Levels!GiveUp, Levels!Next
<1>17. CASE RefillCardError
  BY <1>17 DEF RefillCardError, Levels!GiveUp, Levels!Next
<1>18. CASE RefillPanic
  BY <1>18 DEF RefillPanic, Levels!GiveUp, Levels!Next
<1>19. CASE RefillAdvance
  <2>1. /\ pc = "advance" /\ pc' = "start" /\ got \in 1 .. dlen
        /\ level' = IF mode = "IDLE" THEN level ELSE level + got
        /\ UNCHANGED mode
    BY <1>19 DEF RefillAdvance, BatchFits
  <2>2. Levels!Commit
    BY <2>1 DEF Levels!Commit
  <2>3. QED
    BY <2>2 DEF Levels!Next
<1>20. CASE RefillStart
  BY <1>20 DEF RefillStart, Levels!Start, Levels!Next
<1>21. CASE FiqPlay
  BY <1>21 DEF FiqPlay, Levels!Play, Levels!Next
<1>22. CASE FiqUnderrun
  BY <1>22 DEF FiqUnderrun, Levels!Stop, Levels!Next
<1>23. CASE FiqUnderrunReset
  BY <1>23 DEF FiqUnderrunReset, Restart, Levels!Restart, Levels!Next
<1>24. CASE WatchdogReset
  BY <1>24 DEF WatchdogReset, Restart, Levels!Restart, Levels!Next
<1>25. CASE UNCHANGED vars
  BY <1>25 DEF vars
<1>26. QED
  BY <1>1, <1>2, <1>3, <1>4, <1>5, <1>6, <1>7, <1>8, <1>9, <1>10,
     <1>11, <1>12, <1>13, <1>14, <1>15, <1>16, <1>17, <1>18, <1>19, <1>20,
     <1>21, <1>22, <1>23, <1>24, <1>25
     DEF Next, Command, Loop, Interrupt

\* playback_refill, the OSC commands and the FIQ as Playback has them: for every
\* ring and chunk size, every set of files and every failure, the main loop asks,
\* commits, starts and stops only as the driver's contract lets it.
THEOREM ProducerKeepsLevels == Spec => KeepsLevels
<1>1. Init => Levels!Init
  BY DEF Init, Levels!Init
<1>2. PlaybackInv /\ [Next]_vars => [Levels!Next]_Levels!levelVars
  BY NextLevels DEF PlaybackInv
<1>3. QED
  BY <1>1, <1>2, PlaybackInvariance, PTL DEF Spec, KeepsLevels, Levels!Spec
================================================================================

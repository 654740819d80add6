------------------------------ MODULE FilePlayer ------------------------------
(***************************************************************************)
(* The file player of j4cDAC/firmware/file/ild-player.c: it turns the      *)
(* frames of an ILDA or WAV file into batches of points, repeating each    *)
(* frame often enough to hold the frame rate down.  Small frames are       *)
(* replayed from memory, large ones by seeking back.                       *)
(*                                                                         *)
(* The player runs in the main loop only, so it is a record and its        *)
(* functions are operators on it; module Playback runs them.               *)
(*                                                                         *)
(* A file is a sequence of frames; a frame says what its header announces  *)
(* (kind and points) and how many points are really stored behind it.      *)
(* A point is named by the frame it belongs to and its number in it.       *)
(***************************************************************************)
EXTENDS Integers, Sequences

CONSTANTS
  Frames,   \* Frames[f]: the frames of file f, for every file f
  NoFile,   \* the file object after a failed f_open (fs = 0)
  Small,    \* SMALL_FRAME_THRESHOLD
  Chunk     \* ILDA_MAX_POINTS_PER_LOOP

Files == DOMAIN Frames

\* What a frame header can be: a frame, a WAV file's single run of points, an
\* unsupported ILDA format (such as 2, a palette), a header cut off after the
\* format byte, or bytes that are no header at all.
Kinds == {"ilda", "wav", "format", "cut", "junk"}

FrameType == [kind : Kinds, points : Nat, stored : Nat]

ASSUME PlayerAssumption ==
  /\ \A f \in Files : Frames[f] \in Seq(FrameType)
  /\ \A f \in Files : \A i \in DOMAIN Frames[f] :
       Frames[f][i].stored <= Frames[f][i].points
  /\ NoFile \notin Files
  /\ Small \in Nat /\ Chunk \in Nat \ {0}

Lesser(a, b) == IF a < b THEN a ELSE b

NoPoint == <<0, 0>>

\* After reset every variable is zero, so fplay_state is STATE_ILDA_0.
ResetPlayer ==
  [file   |-> NoFile,                      \* fplay_file
   at     |-> <<0, 0>>,                    \* its position: frame, points read
   state  |-> "ilda",                      \* fplay_state
   left   |-> 0,                           \* fplay_points_left
   repeat |-> 0,                           \* fplay_repeat_count
   count  |-> 0,                           \* ilda_frame_pointcount
   offset |-> 0,                           \* fplay_offset
   start  |-> <<0, 0>>,                    \* fplay_frame_start
   small  |-> [i \in 1 .. Small |-> NoPoint]]  \* fplay_small_frame_buffer

\* Mutant: the file is not rewound.
ResetNoRewind(p) == [p EXCEPT !.state = "between", !.offset = 0]

\* ilda_reset_file(): back to the beginning of the file.
ResetFile(p) == [p EXCEPT !.state = "between", !.offset = 0, !.at = <<0, 0>>]

\* fplay_open(): f_open clears the file object first, so a failure leaves an
\* invalid one and everything else as it was.
Opened(p, f)  == ResetFile([p EXCEPT !.file = f])
OpenFailed(p) == [p EXCEPT !.file = NoFile]

--------------------------------------------------------------------------------
(* The header                                                              *)

\* Mutant: the repeat count is rounded down.
RepeatRoundedDown(n, ppf, offset) ==
  IF ppf = 0 THEN 1
  ELSE LET r == (ppf - offset) \div n
       IN  IF r <= 0 THEN 1 ELSE r

\* ilda_read_frame_header(): how often a frame of n points is shown, to make
\* it last about ppf points, corrected by what earlier frames were off.
RepeatCount(n, ppf, offset) ==
  IF ppf = 0 THEN 1
  ELSE LET r == (ppf - offset + n \div 2) \div n
       IN  IF r <= 0 THEN 1 ELSE r

NewOffset(n, ppf, offset) ==
  IF ppf = 0 THEN offset ELSE offset + RepeatCount(n, ppf, offset) * n - ppf

\* fplay_read_header(): the result and the player afterwards.  An empty ILDA frame
\* marks the end (its repeat count divides by zero, and is never used).
ReadHeader(p, ppf) ==
  LET frames == Frames[p.file]
      i      == p.at[1] + 1
      frame  == frames[i]
      n      == frame.points
      here   == [p EXCEPT !.at = <<i, 0>>]
      loaded == [here EXCEPT !.left = n, !.count = n, !.start = <<i, 0>>]
  IN  IF p.file = NoFile THEN [res |-> "error", player |-> p]
      ELSE IF i > Len(frames) THEN [res |-> "end", player |-> p]
      ELSE CASE frame.kind = "junk"   -> [res |-> "error", player |-> here]
             [] frame.kind = "format" ->
                  [res |-> "error", player |-> [here EXCEPT !.state = "bad"]]
             [] frame.kind = "cut"    ->
                  [res |-> "error", player |-> [here EXCEPT !.state = "ilda"]]
             [] frame.kind = "wav"    ->
                  [res |-> "ok",
                   player |-> [loaded EXCEPT !.state = "wav", !.repeat = 1,
                                             !.start = p.start]]
             [] frame.kind = "ilda" /\ n = 0 ->
                  [res |-> "end",
                   player |-> [here EXCEPT !.state = "ilda", !.left = 0]]
             [] frame.kind = "ilda" /\ n > 0 ->
                  [res |-> "ok",
                   player |-> [loaded EXCEPT
                     !.state  = "ilda",
                     !.repeat = RepeatCount(n, ppf, p.offset),
                     !.offset = NewOffset(n, ppf, p.offset)]]

--------------------------------------------------------------------------------
(* The points                                                              *)

\* Mutant: the repeat count is tested before it is decremented.
FrameDoneLate(p) ==
  LET q == [p EXCEPT !.repeat = @ - 1]
  IN  IF p.repeat = 0 THEN [q EXCEPT !.state = "between"]
      ELSE IF q.count <= Small
           THEN [q EXCEPT !.state = "small", !.left = q.count]
           ELSE [q EXCEPT !.at = q.start, !.left = q.count]

\* The frame is through: the next one, or once more from memory or from the file.
FrameDone(p) ==
  LET q == [p EXCEPT !.repeat = @ - 1]
  IN  IF q.repeat = 0 THEN [q EXCEPT !.state = "between"]
      ELSE IF q.count <= Small
           THEN [q EXCEPT !.state = "small", !.left = q.count]
           ELSE [q EXCEPT !.at = q.start, !.left = q.count]

\* Mutant: a whole batch is counted, however many points it had.
TakeChunk(p, n) ==
  LET q == [p EXCEPT !.left = @ - Chunk]
  IN  IF q.left = 0 THEN FrameDone(q) ELSE q

TakePoints(p, n) ==
  LET q == [p EXCEPT !.left = @ - n]
  IN  IF q.left = 0 THEN FrameDone(q) ELSE q

\* No more points than there is room for, the frame has left, one loop may read.
BatchSize(p, max) == Lesser(Lesser(max, p.left), Chunk)

\* ilda_do_read_points(): one batch, from the file or from the replay buffer.
DoReadPoints(p, max) ==
  LET n      == BatchSize(p, max)
      first  == p.count - p.left
      batch  == [k \in 1 .. n |-> <<p.at[1], p.at[2] + k>>]
      short  == p.at[2] + n > Frames[p.file][p.at[1]].stored
      moved  == [p EXCEPT !.at[2] = @ + n]
      copied == [moved EXCEPT !.small =
                   [i \in 1 .. Small |-> IF i - first \in 1 .. n
                                         THEN batch[i - first] ELSE @[i]]]
  IN  CASE p.state = "small" ->
             [res |-> "ok", player |-> TakePoints(p, n),
              points |-> [k \in 1 .. n |-> p.small[first + k]]]
        [] p.state = "bad" -> [res |-> "panic", player |-> p, points |-> <<>>]
        [] p.state \in {"ilda", "wav"} /\ p.file = NoFile ->
             [res |-> "error", player |-> p, points |-> <<>>]
        [] p.state \in {"ilda", "wav"} /\ p.file # NoFile ->
             IF n > 0 /\ short
             THEN [res |-> "error", points |-> <<>>,
                   player |-> [p EXCEPT !.at[2] =
                                 Frames[p.file][p.at[1]].stored]]
             ELSE [res |-> "ok", points |-> batch,
                   player |-> TakePoints(
                     IF p.state = "ilda" /\ p.count <= Small
                     THEN copied ELSE moved, n)]

\* ilda_read_points(): reads a header first when the player is between frames.
ReadPoints(p, max, ppf) ==
  IF p.state # "between" THEN DoReadPoints(p, max)
  ELSE LET h == ReadHeader(p, ppf)
       IN  IF h.res = "ok" THEN DoReadPoints(h.player, max)
           ELSE [res |-> h.res, player |-> h.player, points |-> <<>>]
================================================================================

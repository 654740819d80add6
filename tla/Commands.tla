------------------------------- MODULE Commands -------------------------------
(***************************************************************************)
(* What the commands do to the picture: the geometric corrector and the    *)
(* colors' delay lines, set by OSC packets and by the lines of the         *)
(* autoplay script, in the rounds of the main loop.                        *)
(*                                                                         *)
(* A handler that moves a corner rewrites the transform matrix entry by    *)
(* entry (update_transform); the FIQ may draw a point, with the matrix as  *)
(* it is, between any two stores.  The FIQ also moves the delay lines on.  *)
(*                                                                         *)
(* A show is what one run of the program meets: the packets the controller *)
(* may send and the script on the card.  The script's file is a sequence   *)
(* of characters, <<i, p>> for character p of line i or EndOfLine.         *)
(* Playing a file is its flag only: module Playback has the rest.          *)
(***************************************************************************)
EXTENDS Transform, Params, SequencesExt

CONSTANTS
  TooClose,   \* COORD_TOO_CLOSE
  LineMax,    \* AUTOPLAY_LINE_MAX
  Shows,      \* [packets, lines, closed]: see above; closed: the last line ends
  CardFails   \* may reading the script fail?

ASSUME CommandsAssumption ==
  /\ One = 2 * CornerMax
  /\ TooClose \in Nat /\ MinSize \div 2 >= TooClose
  /\ LineMax \in Nat \ {0} /\ CardFails \in BOOLEAN
  /\ \A s \in Shows :
       /\ s.closed \in BOOLEAN /\ Len(s.lines) \in Nat /\ DOMAIN s.lines = 1 .. Len(s.lines)
       /\ \A i \in DOMAIN s.lines : s.lines[i].len \in Nat
       /\ \A m \in s.packets :
            m.path # "/ilda/play" =>
              m.vals \in Seq(Int) /\ m.tags \in Seq(STRING) /\ Len(m.vals) = Len(m.tags)
       /\ \A i \in DOMAIN s.lines :
            s.lines[i].path # "/ilda/play" => s.lines[i].args \in Seq(Decimal)

VARIABLES
  tx, ty,        \* settings.transform_x, transform_y
  locks,         \* geom_lock_flags
  size, offset,  \* geom_sz; geom_offset_x and geom_offset_y
  matrix,        \* transform_matrix, x entries 1 .. 4 and y entries 5 .. 8
  work,          \* entries update_transform has still to store
  before,        \* history: the corners the running update started from
  control,       \* color_control: red, green and blue produce, color consume
  playing,       \* ILDA_PLAYER_PLAYING
  pc,            \* where the main loop is
  show,          \* which of Shows this run is
  active,        \* autoplay_active
  at,            \* autoplay_file's position
  buf,           \* the autoplay_bytes used characters of autoplay_buf
  ran            \* history: the lines processed, as they were found in buf, and
                 \* at most one more than the script has

corners == <<tx, ty>>
geom    == <<tx, ty, locks, size, offset, matrix, work, before>>
script  == <<active, at, buf, ran>>
vars    == <<geom, control, playing, pc, show, script>>

\* The entry e the corners call for.
Entry(e) == IF e <= 4 THEN Transformed(tx)[e] ELSE Transformed(ty)[e - 4]

Locks  == {"top", "bottom", "left", "right"}
Colors == {"red", "green", "blue"}

EndOfLine == <<0, 0>>
Chars(s, i) == [p \in 1 .. s.lines[i].len |-> <<i, p>>]
File(s) ==
  LET all == FlattenSeq([i \in DOMAIN s.lines |-> Append(Chars(s, i), EndOfLine)])
  IN IF s.closed \/ all = <<>> THEN all ELSE Front(all)

\* init_transform, and autoplay_init: a show without lines has no script.
Init ==
  /\ tx = [k \in Corner |-> EdgeX(k)] /\ ty = [k \in Corner |-> EdgeY(k)]
  /\ locks = {} /\ size = 0 /\ offset = <<0, 0>>
  /\ matrix = [e \in 1 .. 8 |-> Entry(e)] /\ work = 0 /\ before = <<tx, ty>>
  /\ control = [i \in Colors \cup {"consume"} |-> 0]
  /\ playing = FALSE /\ pc = "auto"
  /\ show \in Shows
  /\ active = (show.lines # <<>>) /\ at = 0 /\ buf = <<>> /\ ran = <<>>

--------------------------------------------------------------------------------
(* update_transform                                                        *)

\* Mutant of StoreOrder: both axes are computed entry by entry.
AuxStoreOrder == <<4, 8, 3, 7, 2, 6, 1, 5>>

\* The entries in the order they are stored: c[3] first, x before y.
StoreOrder == <<4, 3, 2, 1, 8, 7, 6, 5>>

UpdateTransform ==
  /\ work' = 8
  /\ before' = corners
  /\ UNCHANGED matrix

Store ==
  /\ work > 0
  /\ LET e == StoreOrder[9 - work]
     IN matrix' = [matrix EXCEPT ![e] = Entry(e)]
  /\ work' = work - 1
  /\ before' = IF work = 1 THEN corners ELSE before
  /\ UNCHANGED <<tx, ty, locks, size, offset, control, playing, pc, show, script>>

--------------------------------------------------------------------------------
(* Geometry commands                                                       *)

CornerOf(path) ==
  CASE path = "/geom/tl" -> TL [] path = "/geom/tr" -> TR
    [] path = "/geom/bl" -> BL [] path = "/geom/br" -> BR
LockOf(path) ==
  CASE path = "/geom/locktop" -> "top" [] path = "/geom/lockbottom" -> "bottom"
    [] path = "/geom/lockleft" -> "left" [] path = "/geom/lockright" -> "right"

Closer(a, b) == a - b < TooClose /\ b - a < TooClose

\* Mutant of CanSetCorner: the last corner is left out.
AuxCanSetCorner(c, x, y) ==
  \A i \in Corner \ {c, BR} : ~(Closer(tx[i], x) /\ Closer(ty[i], y))

\* can_set_corner.
CanSetCorner(c, x, y) ==
  \A i \in Corner \ {c} : ~(Closer(tx[i], x) /\ Closer(ty[i], y))

RowLock(c)    == IF IsTop(c) THEN "top" ELSE "bottom"
ColumnLock(c) == IF IsLeft(c) THEN "left" ELSE "right"

\* Mutant of RowMate: the lock of the row moves the other corner of the column.
AuxRowMate(c) == IF RowLock(c) \in locks THEN FlipH(c) ELSE c

\* other_corner_h and other_corner_v: the corners a lock moves along.
RowMate(c) == IF RowLock(c) \in locks THEN FlipV(c) ELSE c
ColumnMate(c) == IF ColumnLock(c) \in locks THEN FlipH(c) ELSE c

\* geom_update.  Each new position is checked against the old ones.
GeomUpdate(c, y, x) ==
  LET h == RowMate(c)
      v == ColumnMate(c)
      clear == /\ CanSetCorner(c, x, y)
               /\ h # c => CanSetCorner(h, tx[h], y)
               /\ v # c => CanSetCorner(v, x, ty[v])
  IN \/ /\ clear
        /\ tx' = [tx EXCEPT ![c] = x, ![v] = x]
        /\ ty' = [ty EXCEPT ![c] = y, ![h] = y]
        /\ UpdateTransform
        /\ UNCHANGED <<locks, size, offset>>
     \/ ~clear /\ UNCHANGED geom

GeomUpdateLock(l, v) ==
  /\ locks' = IF v # 0 THEN locks \cup {l} ELSE locks \ {l}
  /\ UNCHANGED <<corners, size, offset, matrix, work, before>>

\* Mutant of CoordClamp: only the upper bound is kept.
AuxCoordClamp(v) == IF v > CornerMax THEN CornerMax ELSE v

CoordClamp(v) ==
  IF v > CornerMax THEN CornerMax ELSE IF v < -CornerMax THEN -CornerMax ELSE v

\* geom_set_sz_offset, the size and the offset being the new ones.
GeomSetSzOffset ==
  LET sz == Half(size')
      OfEdge(edge, off) == CoordClamp((IF edge < 0 THEN -sz ELSE sz) + Half(off))
  IN /\ tx' = [k \in Corner |-> OfEdge(EdgeX(k), offset'[1])]
     /\ ty' = [k \in Corner |-> OfEdge(EdgeY(k), offset'[2])]
     /\ UpdateTransform
     /\ UNCHANGED locks

--------------------------------------------------------------------------------
(* Delay lines                                                             *)

ColorOf(path) ==
  CASE path = "/geom/rdelay" -> "red" [] path = "/geom/gdelay" -> "green"
    [] path = "/geom/bdelay" -> "blue"

\* delay_line_get_delay.
Delay(cc, color) == (cc[color] - cc.consume + MaxDelay) % MaxDelay

\* Mutant of Moved: the consume pointer alone.
AuxMoved(cc, color) == [cc EXCEPT !.consume = (@ + 1) % MaxDelay]

\* The pointers but this color's moved up by one.
Moved(cc, color) == [i \in DOMAIN cc |-> IF i = color THEN cc[i] ELSE (cc[i] + 1) % MaxDelay]

\* delay_line_set_delay, whose two halves run with the FIQ off.  The buffers
\* hold zeros only: the handler puts no color into them.
DelayLineSetDelay(color, delay) ==
  LET more == delay - Delay(control, color)
  IN control' = IF more >= 0
                  THEN [control EXCEPT ![color] = (@ + more) % MaxDelay]
                  ELSE Moved(control, color)

\* The FIQ draws a point and moves all four pointers.
Point ==
  /\ control' = [i \in DOMAIN control |-> (control[i] + 1) % MaxDelay]
  /\ UNCHANGED <<geom, playing, pc, show, script>>

--------------------------------------------------------------------------------
(* The handlers                                                            *)

Call(path, p) ==
  \/ /\ path \in CornerPaths
     /\ GeomUpdate(CornerOf(path), Half(p[1]), Half(p[2]))
     /\ UNCHANGED <<control, playing>>
  \/ /\ path \in LockPaths
     /\ GeomUpdateLock(LockOf(path), p[1])
     /\ UNCHANGED <<control, playing>>
  \/ /\ path = "/geom/size"
     /\ size' = p[1] /\ UNCHANGED offset
     /\ GeomSetSzOffset
     /\ UNCHANGED <<control, playing>>
  \/ /\ path = "/geom/offset"
     /\ offset' = <<p[1], p[2]>> /\ UNCHANGED size
     /\ GeomSetSzOffset
     /\ UNCHANGED <<control, playing>>
  \/ /\ path \in DelayPaths
     /\ DelayLineSetDelay(ColorOf(path), p[1])
     /\ UNCHANGED <<geom, playing>>
  \/ /\ path = "/geom"                       \* a readout
     /\ UNCHANGED <<geom, control, playing>>
  \/ /\ path = "/ilda/play"                  \* the file opens, or not
     /\ playing' \in {playing, TRUE}
     /\ UNCHANGED <<geom, control>>
  \/ /\ path = "/stop"
     /\ playing' = FALSE
     /\ UNCHANGED <<geom, control>>

NoCall == UNCHANGED <<geom, control, playing>>

--------------------------------------------------------------------------------
(* autoplay_poll                                                           *)

Newline(b) == CHOOSE n \in DOMAIN b : b[n] = EndOfLine /\ \A m \in 1 .. n - 1 : b[m] # EndOfLine

\* Mutant of MovedUp: the line stays where it is.
AuxMovedUp(b, n) == b

\* The buffer without its first line, which ends at n.
MovedUp(b, n) == SubSeq(b, n + 1, Len(b))

\* Mutant of Line: the character in front of the newline is lost.
AuxLine(b) == SubSeq(b, 1, Newline(b) - 2)

Line(b) == SubSeq(b, 1, Newline(b) - 1)

\* autoplay_process_line: an empty line, or one of blanks only, does nothing; one that
\* calls no handler ends the script and stays in the buffer.
ProcessLine(b) ==
  LET n == Newline(b)
      found == {i \in DOMAIN show.lines : Line(b) = Chars(show, i)}
      blank == n = 1 \/ \E i \in found : show.lines[i].path = ""
  IN /\ ran' = IF Len(ran) > Len(show.lines) THEN ran ELSE Append(ran, Line(b))
     /\ \/ blank /\ NoCall /\ buf' = MovedUp(b, n) /\ UNCHANGED active
        \/ /\ \E i \in found : \E p \in LineCalls(show.lines[i]) : Call(show.lines[i].path, p)
           /\ buf' = MovedUp(b, n) /\ UNCHANGED active
        \/ /\ ~blank /\ \A i \in found : LineCalls(show.lines[i]) = {}
           /\ NoCall /\ buf' = b /\ active' = FALSE

Has(b) == \E n \in DOMAIN b : b[n] = EndOfLine

\* A read error, nothing more to read, or still no newline.
GiveUp(b) == active' = FALSE /\ buf' = b /\ UNCHANGED ran /\ NoCall

AutoplayWaits ==
  /\ pc = "auto" /\ work = 0
  /\ ~active \/ playing
  /\ pc' = "aux"
  /\ UNCHANGED <<geom, control, playing, show, script>>

\* Without a newline in the buffer, f_read first fills the rest of it, as far as
\* the file goes.
AutoplayLine ==
  /\ pc = "auto" /\ work = 0
  /\ active /\ ~playing
  /\ LET room == IF Has(buf) THEN 0 ELSE LineMax - Len(buf)
         left == Len(File(show)) - at
         read == IF room < left THEN room ELSE left
         full == buf \o SubSeq(File(show), at + 1, at + read)
     IN /\ at' = at + read
        /\ \/ Has(full) /\ ProcessLine(full)
           \/ ~Has(full) /\ GiveUp(full)
  /\ pc' = "aux"
  /\ UNCHANGED show

AutoplayReadFails ==
  /\ CardFails
  /\ pc = "auto" /\ work = 0
  /\ active /\ ~playing /\ ~Has(buf)
  /\ GiveUp(buf)
  /\ pc' = "aux"
  /\ UNCHANGED <<at, show>>

--------------------------------------------------------------------------------
(* The other polls                                                         *)

\* aux_poll hands a packet to osc_parse_packet.
Packet ==
  /\ pc = "aux" /\ work = 0
  /\ \E m \in show.packets :
       \/ \E p \in OscCalls(m) : Call(m.path, p)
       \/ OscCalls(m) = {} /\ NoCall
  /\ pc' = "refill"
  /\ UNCHANGED <<show, script>>

NoPacket ==
  /\ pc = "aux" /\ work = 0
  /\ pc' = "refill"
  /\ UNCHANGED <<geom, control, playing, show, script>>

\* playback_refill: the file being played may end.
Refill ==
  /\ pc = "refill" /\ work = 0
  /\ playing' \in {playing, FALSE}
  /\ pc' = "auto"
  /\ UNCHANGED <<geom, control, show, script>>

Autoplay == AutoplayWaits \/ AutoplayLine \/ AutoplayReadFails
MainLoop == Store \/ Autoplay \/ Packet \/ NoPacket \/ Refill

Next == MainLoop \/ Point

Spec == Init /\ [][Next]_vars

\* Every poll function returns.
FairSpec == Spec /\ WF_vars(MainLoop)

--------------------------------------------------------------------------------
(* Properties                                                              *)

Coord == -CornerMax .. CornerMax

\* The corners stay on the screen (coord_clamp, FPA_param), and every variable is
\* in its range.
TypeOK ==
  /\ tx \in [Corner -> Coord] /\ ty \in [Corner -> Coord]
  /\ locks \subseteq Locks
  /\ size \in 0 .. One /\ offset \in (-One .. One) \X (-One .. One)
  /\ matrix \in [1 .. 8 -> Int] /\ work \in 0 .. 8
  /\ before \in [Corner -> Coord] \X [Corner -> Coord]
  /\ control \in [Colors \cup {"consume"} -> 0 .. MaxDelay - 1]
  /\ playing \in BOOLEAN /\ pc \in {"auto", "aux", "refill"}
  /\ show \in Shows /\ active \in BOOLEAN
  /\ at \in 0 .. Len(File(show)) /\ Len(buf) <= LineMax

MatrixX == [e \in 1 .. 4 |-> matrix[e]]
MatrixY == [e \in 1 .. 4 |-> matrix[e + 4]]

\* No handler leaves without the matrix it owes: whenever none is at work, the
\* point the FIQ draws for a corner of the frame is where that corner was set, but
\* for the rounding of the divisions (geom_update, geom_set_sz_offset,
\* update_transform, the handler's transform).
CornersHit == work = 0 => Hits(MatrixX, tx) /\ Hits(MatrixY, ty)

\* A point drawn in the middle of update_transform is wrong in one coordinate at
\* most: the other one is that of the frame before or of the frame after.
OneAxisTorn ==
  \/ Hits(MatrixX, tx) \/ Hits(MatrixX, before[1])
  \/ Hits(MatrixY, ty) \/ Hits(MatrixY, before[2])

\* The edges a lock keeps level or upright: geom_lock_flags.
Aligned(l) ==
  CASE l = "top"    -> ty[TL] = ty[TR]
    [] l = "bottom" -> ty[BL] = ty[BR]
    [] l = "left"   -> tx[TL] = tx[BL]
    [] l = "right"  -> tx[TR] = tx[BR]

\* An edge that is straight when it is locked stays straight until it is unlocked,
\* whichever corners are moved and whatever else is locked (geom_update).
LockKeepsEdge == [][\A l \in locks \cap locks' : Aligned(l) => Aligned(l)']_vars

Apart == \A i, k \in Corner : i # k => ~(Closer(tx[i], tx[k]) /\ Closer(ty[i], ty[k]))

\* A command that moves a single corner never brings it onto another one
\* (can_set_corner).  One that moves several may: with a lock each is checked
\* against where the others were, and an offset without a size folds all four.
MovesKeepApart ==
  [][Apart /\ Cardinality({k \in Corner : <<tx[k], ty[k]>> # <<tx'[k], ty'[k]>>}) = 1
       => Apart']_vars

\* Setting one color's delay never changes another's, though the consume pointer
\* is common to the three, and neither does the FIQ between any two steps
\* (delay_line_set_delay).
OthersKeepDelay ==
  [][\A c, d \in Colors :
       c # d /\ Delay(control', c) # Delay(control, c)
         => Delay(control', d) = Delay(control, d)]_vars

\* The script's lines are processed whole, once each and in order, however they
\* fall into the buffer and whatever the packets do in between (autoplay_poll).
ScriptInOrder ==
  Len(ran) <= Len(show.lines) /\ \A i \in DOMAIN ran : ran[i] = Chars(show, i)

\* If autoplay_poll finds nothing playing again and again, the script comes to its
\* end (or is given up).
ScriptEnds == []<>(pc = "auto" /\ ~playing) => <>~active
=============================================================================

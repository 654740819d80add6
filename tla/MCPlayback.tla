------------------------------- MODULE MCPlayback ------------------------------
(* Small instances of Playback for TLC.                                    *)
EXTENDS Playback, TLC

Frame(kind, points, stored) == [kind |-> kind, points |-> points, stored |-> stored]
Whole(kind, points) == Frame(kind, points, points)

\* Files that play: small frames and large ones (Small = 2), an end marker inside
\* the file, a WAV file, and one frame that fits the ring.
GoodFiles == [
  show  |-> <<Whole("ilda", 2), Whole("ilda", 3), Whole("ilda", 0)>>,
  sound |-> <<Whole("wav", 3)>>,
  dot   |-> <<Whole("ilda", 1)>>]
GoodCatalog == <<"show">>

\* Files that fail: a palette behind a frame, a frame cut short, a header cut
\* short, bytes behind a WAV file's data, and an empty file.
BadFiles == [
  palette |-> <<Whole("ilda", 1), Whole("format", 0)>>,
  torn    |-> <<Whole("ilda", 1), Frame("ilda", 3, 2)>>,
  cut     |-> <<Whole("cut", 0)>>,
  noise   |-> <<Whole("wav", 1), Whole("junk", 0)>>,
  empty   |-> <<>>]
BadCatalog == <<"palette">>

AllFiles == GoodFiles @@ BadFiles
AllCatalog == GoodCatalog \o BadCatalog

McRates   == {0, 5}
BothHandlers == {"main", "lost"}
AsmHandler   == {"lost"}
================================================================================

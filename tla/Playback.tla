------------------------------- MODULE Playback -------------------------------
(***************************************************************************)
(* The main loop's playback.  One round polls autoplay (a line of its      *)
(* script may run an OSC command of net/ilda-osc.c), then the serial link  *)
(* (so may a packet), then ilda_osc_poll (a file picked by number is       *)
(* opened): the order in which the linker put the poll table (main.map),   *)
(* then playback_refill of file/playback.c, which moves a batch of points  *)
(* from the file player into the DAC driver and starts it when it is       *)
(* nearly full or the file has ended.                                      *)
(*                                                                         *)
(* The DAC driver is what module PointStream promises (and DacRing         *)
(* implements): a mode and a number of waiting points, drained by the FIQ  *)
(* between any two steps of the main loop.  playback_src is                *)
(* SRC_ILDAPLAYER from boot on, and the light engine is READY: nothing in  *)
(* the program changes them.                                               *)
(***************************************************************************)
EXTENDS FilePlayer

CONSTANTS
  Capacity,      \* points the ring can hold, DAC_BUFFER_POINTS - 1
  Low,           \* playback_refill's "nearly full": fewer free than this
  Catalog,       \* the files walk_fs numbers, in directory order
  Rates,         \* values of ilda_points_per_frame an OSC pps or fps sets
  BootRate,      \* its value after main's defaults
  CardFails,     \* may the SD card fail?
  UnderrunExits  \* as in DacRing: does the handler's underrun branch return?

ASSUME PlaybackAssumption ==
  /\ Capacity \in Nat \ {0} /\ Low \in Nat
  /\ Catalog \in Seq(Files)
  /\ Rates \subseteq Nat /\ BootRate \in Rates
  /\ CardFails \in BOOLEAN
  /\ UnderrunExits # {} /\ UnderrunExits \subseteq {"main", "lost"}

VARIABLES
  player,          \* the file player, a record of FilePlayer
  ppf,             \* ilda_points_per_frame
  playing, again,  \* ILDA_PLAYER_PLAYING and ILDA_PLAYER_REPEAT
  request,         \* walk_fs_request
  mode, level,     \* the DAC driver's state and waiting points
  pc,              \* where the main loop is
  dlen, got,       \* playback_refill's locals: room and batch size; 0 outside it
  trail,           \* history: the last point delivered, then the last batch
  planned, shown,  \* history: this frame's repeat count, points delivered of it
  stopped          \* history: /stop was the last playback command carried out

osc     == <<again, request>>
dac     == <<mode, level>>
refill  == <<dlen, got>>
history == <<trail, planned, shown, stopped>>
vars    == <<player, ppf, playing, osc, dac, pc, refill, history>>

Init ==
  /\ player = ResetPlayer /\ ppf = BootRate
  /\ playing = FALSE /\ again = FALSE /\ request = 0
  /\ mode = "IDLE" /\ level = 0
  /\ pc = "auto" /\ dlen = 0 /\ got = 0
  /\ trail = <<NoPoint>> /\ planned = 0 /\ shown = 0 /\ stopped = TRUE

--------------------------------------------------------------------------------
(* OSC commands                                                            *)

\* A packet or an autoplay line runs a command; autoplay waits while a file plays.
Turn ==
  \/ pc = "auto" /\ ~playing /\ pc' = "aux"
  \/ pc = "aux"  /\ pc' = "walk"

NoCommand ==
  /\ \/ pc = "auto" /\ pc' = "aux"
     \/ pc = "aux"  /\ pc' = "walk"
  /\ UNCHANGED <<player, ppf, playing, osc, dac, refill, history>>

\* Nothing delivered since the player was reset.
Forget == trail' = <<NoPoint>> /\ planned' = 0 /\ shown' = 0

\* /ilda/<n>/play only notes the number, the tab and reload buttons note -1.
PlayIndex ==
  /\ Turn
  /\ request' \in {-1} \cup 1 .. Len(Catalog) + 1
  /\ UNCHANGED <<player, ppf, playing, again, dac, refill, history>>

\* /ilda/play with a name: the file is opened at once, or cannot be.
PlayName ==
  /\ Turn
  /\ \E f \in Files : player' = Opened(player, f)
  /\ playing' = TRUE /\ stopped' = FALSE
  /\ Forget
  /\ UNCHANGED <<ppf, osc, dac, refill>>

PlayNoName ==
  /\ Turn
  /\ player' = OpenFailed(player)
  /\ UNCHANGED <<ppf, playing, osc, dac, refill, history>>

\* /ilda/pps and /ilda/fps set the points per frame.
SetRate ==
  /\ Turn
  /\ ppf' \in Rates
  /\ UNCHANGED <<player, playing, osc, dac, refill, history>>

SetRepeat ==
  /\ Turn
  /\ again' \in BOOLEAN
  /\ UNCHANGED <<player, ppf, playing, request, dac, refill, history>>

\* Mutant: /stop clears the flag and leaves the DAC to drain.
StopFlagOnly ==
  /\ Turn
  /\ playing' = FALSE
  /\ stopped' = TRUE
  /\ UNCHANGED <<player, ppf, osc, dac, refill, trail, planned, shown>>

\* /stop: no longer playing, and dac_stop(0).
StopPlaying ==
  /\ Turn
  /\ playing' = FALSE
  /\ mode' = "IDLE" /\ level' = 0
  /\ stopped' = TRUE
  /\ UNCHANGED <<player, ppf, osc, refill, trail, planned, shown>>

--------------------------------------------------------------------------------
(* ilda_osc_poll and walk_fs                                               *)

\* Nothing is asked for, the names are listed, or no such file is found.
WalkNothing ==
  /\ pc = "walk" /\ pc' = "refill"
  /\ request \notin 1 .. Len(Catalog) \/ CardFails
  /\ request' = 0
  /\ UNCHANGED <<player, ppf, playing, again, dac, refill, history>>

\* f_opendir fails: walk_fs returns with the request still standing.
WalkFails ==
  /\ pc = "walk" /\ pc' = "refill"
  /\ CardFails /\ request # 0
  /\ UNCHANGED <<player, ppf, playing, osc, dac, refill, history>>

\* The file is found; walk_fs sets PLAYING whatever fplay_open returned.
WalkOpens ==
  /\ pc = "walk" /\ pc' = "refill"
  /\ request \in 1 .. Len(Catalog)
  /\ \/ player' = Opened(player, Catalog[request]) /\ Forget
     \/ /\ CardFails
        /\ player' = OpenFailed(player)
        /\ UNCHANGED <<trail, planned, shown>>
  /\ playing' = TRUE /\ stopped' = FALSE
  /\ request' = 0
  /\ UNCHANGED <<ppf, again, dac, refill>>

--------------------------------------------------------------------------------
(* playback_refill                                                         *)

\* dac_request(): the room up to the end of the ring.  While PREPARED nothing was
\* consumed, so that is all the room there is; while PLAYING it may be less.
Rooms ==
  IF level = Capacity THEN {0}
  ELSE IF mode = "PREPARED" THEN {Capacity - level}
  ELSE 1 .. Capacity - level

\* The DAC is idle, after a stop or an underrun: it is prepared for new points.
RefillPrepare ==
  /\ pc = "refill" /\ pc' = "auto"
  /\ mode = "IDLE"
  /\ mode' = "PREPARED" /\ level' = 0
  /\ UNCHANGED <<player, ppf, playing, osc, refill, history>>

RefillRequest ==
  /\ pc = "refill" /\ mode # "IDLE"
  /\ \E room \in Rooms :
       IF room > 0 /\ ~playing THEN pc' = "auto" /\ dlen' = 0
       ELSE /\ pc' = IF room = 0 THEN "full" ELSE "read"
            /\ dlen' = room
  /\ UNCHANGED <<player, ppf, playing, osc, dac, got, history>>

\* No room left: start if that has not happened.
RefillFull ==
  /\ pc = "full" /\ pc' = "auto"
  /\ mode' = IF mode = "PREPARED" THEN "PLAYING" ELSE mode
  /\ UNCHANGED <<player, ppf, playing, osc, level, refill, history>>

\* A batch is read straight into the ring, perhaps behind a frame's header.
Deliver(r) ==
  /\ player' = r.player
  /\ got' = Len(r.points)
  /\ trail' = <<trail[Len(trail)]>> \o r.points
  /\ IF player.state = "between"
     THEN /\ planned' = ReadHeader(player, ppf).player.repeat
          /\ shown' = got'
     ELSE /\ shown' = shown + got'
          /\ UNCHANGED planned

RefillRead ==
  /\ pc = "read" /\ pc' = "advance"
  /\ LET r == ReadPoints(player, dlen, ppf)
     IN  r.res = "ok" /\ r.points # <<>> /\ Deliver(r)
  /\ UNCHANGED <<ppf, playing, osc, dac, dlen, stopped>>

\* Mutant: the end of the file does not start the DAC.
RefillEndUnstarted ==
  /\ pc = "read" /\ pc' = "start"
  /\ LET r == ReadPoints(player, dlen, ppf)
     IN  /\ r.res = "end" \/ (r.res = "ok" /\ r.points = <<>>)
         /\ player' = ResetFile(r.player)
  /\ playing' = again
  /\ dlen' = dlen
  /\ Forget
  /\ UNCHANGED <<ppf, osc, dac, got, stopped>>

\* Nothing was read: the file starts over, and unless it is to be repeated the
\* DAC is started with what it has.
RefillEnd ==
  /\ pc = "read" /\ pc' = "start"
  /\ LET r == ReadPoints(player, dlen, ppf)
     IN  /\ r.res = "end" \/ (r.res = "ok" /\ r.points = <<>>)
         /\ player' = ResetFile(r.player)
  /\ playing' = again
  /\ dlen' = IF again THEN dlen ELSE 0
  /\ Forget
  /\ UNCHANGED <<ppf, osc, dac, got, stopped>>

RefillError ==
  /\ pc = "read" /\ pc' = "start"
  /\ LET r == ReadPoints(player, dlen, ppf)
     IN  /\ r.res = "error"
         /\ player' = r.player
  /\ playing' = FALSE
  /\ UNCHANGED <<ppf, osc, dac, refill, history>>

\* The card fails under a read: fatfs marks the file, which fails from then on.
RefillCardError ==
  /\ pc = "read" /\ pc' = "start"
  /\ CardFails /\ player.file # NoFile
  /\ \/ /\ player.state \in {"between", "ilda", "wav"}
        /\ player' = [player EXCEPT !.file = NoFile]
     \/ /\ player.state = "between"  \* past the format byte
        /\ player' = [player EXCEPT !.file = NoFile, !.state = "ilda"]
  /\ playing' = FALSE
  /\ UNCHANGED <<ppf, osc, dac, refill, history>>

\* panic("fplay_state: bad value"): an endless loop, with the FIQ still coming.
RefillPanic ==
  /\ pc = "read" /\ pc' = "panic"
  /\ ReadPoints(player, dlen, ppf).res = "panic"
  /\ UNCHANGED <<player, ppf, playing, osc, dac, refill, history>>

\* Mutant: dac_advance does not look at the state.
RefillAdvanceBlindly ==
  /\ pc = "advance" /\ pc' = "start"
  /\ level' = level + got
  /\ got' = 0
  /\ trail' = <<trail[Len(trail)]>>
  /\ UNCHANGED <<player, ppf, playing, osc, mode, dlen, planned, shown, stopped>>

\* dac_advance(): a DAC that underran meanwhile takes nothing.
RefillAdvance ==
  /\ pc = "advance" /\ pc' = "start"
  /\ level' = IF mode = "IDLE" THEN level ELSE level + got
  /\ got' = 0
  /\ trail' = <<trail[Len(trail)]>>
  /\ UNCHANGED <<player, ppf, playing, osc, mode, dlen, planned, shown, stopped>>

RefillStart ==
  /\ pc = "start" /\ pc' = "auto"
  /\ mode' = IF dlen < Low /\ mode = "PREPARED" THEN "PLAYING" ELSE mode
  /\ dlen' = 0
  /\ UNCHANGED <<player, ppf, playing, osc, level, got, history>>

--------------------------------------------------------------------------------
(* The FIQ and the watchdog                                                *)

FiqPlay ==
  /\ mode = "PLAYING" /\ level > 0
  /\ level' = level - 1
  /\ UNCHANGED <<player, ppf, playing, osc, mode, pc, refill, history>>

\* The stream ran dry: the DAC stops, and the main loop goes on ...
FiqUnderrun ==
  /\ "main" \in UnderrunExits
  /\ mode = "PLAYING" /\ level = 0
  /\ mode' = "IDLE"
  /\ UNCHANGED <<player, ppf, playing, osc, level, pc, refill, history>>

\* ... or it is lost, or caught in panic's endless loop, until the watchdog, which
\* the main loop no longer feeds, restarts the machine.
Restart ==
  /\ player' = ResetPlayer /\ ppf' = BootRate
  /\ playing' = FALSE /\ again' = FALSE /\ request' = 0
  /\ mode' = "IDLE" /\ level' = 0
  /\ pc' = "auto" /\ dlen' = 0 /\ got' = 0
  /\ Forget /\ stopped' = TRUE

FiqUnderrunReset ==
  /\ "lost" \in UnderrunExits
  /\ mode = "PLAYING" /\ level = 0
  /\ Restart

WatchdogReset == pc = "panic" /\ Restart

Command ==
  \/ PlayIndex \/ PlayName \/ PlayNoName
  \/ SetRate \/ SetRepeat \/ StopPlaying

Loop ==
  \/ NoCommand
  \/ WalkNothing \/ WalkFails \/ WalkOpens
  \/ RefillPrepare \/ RefillRequest \/ RefillFull
  \/ RefillRead \/ RefillEnd \/ RefillError \/ RefillCardError \/ RefillPanic
  \/ RefillAdvance \/ RefillStart

Interrupt == FiqPlay \/ FiqUnderrun \/ FiqUnderrunReset \/ WatchdogReset

Next == Command \/ Loop \/ Interrupt

Spec == Init /\ [][Next]_vars

\* The main loop never blocks: every poll function returns, so it moves on from
\* wherever it is, unless it has panicked.
Labels   == {"auto", "aux", "walk", "refill", "full", "read", "advance", "start",
             "panic"}
MovesOn  == pc # "panic" /\ pc' \in Labels \ {pc}
FairSpec == Spec /\ WF_pc(MovesOn)

--------------------------------------------------------------------------------
(* What must hold                                                          *)

TypeOK ==
  /\ player.file \in Files \cup {NoFile}
  /\ player.state \in {"between", "ilda", "small", "wav", "bad"}
  /\ player.left \in 0 .. player.count
  /\ player.repeat \in Nat /\ player.offset \in Int
  /\ ppf \in Rates
  /\ playing \in BOOLEAN /\ again \in BOOLEAN /\ stopped \in BOOLEAN
  /\ request \in -1 .. Len(Catalog) + 1
  /\ mode \in {"IDLE", "PREPARED", "PLAYING"} /\ level \in 0 .. Capacity
  /\ pc \in Labels
  /\ dlen \in 0 .. Capacity /\ got \in 0 .. Chunk

\* The driver as its client sees it.
Levels == INSTANCE DacLevel WITH
  room <- IF pc \in {"read", "advance"} THEN dlen ELSE 0

\* The main loop does to the driver only what its contract admits, whatever
\* commands, file ends, errors and underruns come together: it asks, commits no
\* more than was granted or gives up, and starts only what was prepared
\* (playback_refill, ilda-osc.c).
KeepsLevels == Levels!Spec

\* Points come out in the order of the file: after a point its successor in the
\* frame; after a frame's last point its first again or that of the next frame,
\* through chunks, replays from memory, seeks back, /stop and failed opens
\* (ilda_do_read_points, save_small_frame).
Follows(a, b) ==
  \/ b[1] = a[1] /\ b[2] = a[2] + 1
  \/ b[1] \in {a[1], a[1] + 1} /\ b[2] = 1
PointsInOrder ==
  \A i \in 1 .. Len(trail) - 1 : Follows(trail[i], trail[i + 1])

\* A frame is left only when all its points have been shown as often as planned
\* at its header (ilda_read_frame_header, the tail of ilda_do_read_points).
FramesWhole ==
  player.state = "between" => shown = planned * player.count

\* A frame holds the frame rate down: with what earlier frames were off, it is
\* shown to within half a frame of its share of points, never less, and more only
\* when it is shown once (ilda_read_frame_header).
KeepsFrameRate ==
  [][player.state = "between" /\ player'.state \in {"ilda", "small"} /\ got' > 0
       /\ ppf > 0 /\ pc' = "advance" =>
       /\ 2 * player'.offset >= -player'.count
       /\ planned' > 1 => 2 * player'.offset <= player'.count]_vars

\* After /stop nothing plays and nothing is queued until a file is opened; only
\* a play by number that is still waiting can open one (ilda_stop_FPV_param,
\* walk_fs, playback_refill).
StopHolds == stopped => ~playing /\ mode # "PLAYING" /\ level = 0

\* A file whose frames are all there gets the DAC to PLAYING, however small it is
\* and whatever is in the ring when it is opened, unless it is stopped or replaced
\* first (playback_refill: "we may have to start it now", "If the buffer is nearly
\* full, start it up").
Sound(f) ==
  /\ Frames[f] # <<>> /\ Frames[f][1].points > 0
  /\ \A i \in DOMAIN Frames[f] :
       /\ Frames[f][i].kind \in {"ilda", "wav"}
       /\ Frames[f][i].stored = Frames[f][i].points
FileStarts ==
  \A f \in Files : Sound(f) =>
    (playing /\ pc = "auto" /\ player.file = f /\ player.at = <<0, 0>>)
      ~> (mode = "PLAYING" \/ stopped \/ player.file # f)

\* The player never reads points in a state it does not know (the assertion
\* panic("fplay_state: bad value") in ilda_do_read_points).
NoPanic == pc # "panic"
================================================================================

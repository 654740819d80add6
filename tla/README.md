# A TLA+ model of the OpenILDA projector firmware

This directory holds the specifications, model-checking configurations and
proofs kept beside the OpenILDA firmware (`src/OpenILDA-emmc`, with the SD card
driver in `src/emmc` and the framebuffer console in `src/fb`). The firmware runs
on a bare BCM2835 (Raspberry Pi): it plays ILDA and WAV laser shows from an SD
card, is controlled by OSC packets over a serial line, and drives a laser through
a point buffer that a fast interrupt (FIQ) empties.

Every definition is a translation of the C or assembly lines that `PROJECT.json`
gives for it under `map`. Data that no property distinguishes (coordinates,
colours, names, text) is abstracted; control (order of accesses, guards, early
returns, failure paths) is not.

## 1. The system

| Component | Source | State | Operations |
|---|---|---|---|
| DAC driver | `OpenILDA-emmc/firmware/lib/dac.c` | ring `dac_buffer` with `produce` and `consume`, `state`, `irq_do`, rate, shutter | request, advance, prepare, start, stop, set_rate, shutter_set |
| FIQ handler | `firmware/lib/fiq_handler.S`, `firmware/vectors.s`; alternative `c_fiq_handler` in `dac.c` | shares the driver's | one point per tick, or the underrun stop |
| File player | `j4cDAC/firmware/file/ild-player.c` | file and position, `fplay_state`, points left, repeat count, rate error, replay buffer | open, reset, read header, read points |
| Refill | `j4cDAC/firmware/file/playback.c`, `lib/playback.c` | source and flags | `playback_refill`, `playback_set_src` |
| OSC commands | `j4cDAC/firmware/net/ilda-osc.c` | `walk_fs_request` | play, stop, rate, repeat, `walk_fs` |
| OSC parser | `j4cDAC/firmware/net/osc.c` | last source | parse, clamp, dispatch, send |
| Geometry | `net/correction-osc.c`, `lib/transform.c`, `lib/fixpoint.c` | corners, locks, size, offset, transform matrix | move, lock, size, offset, recompute |
| Delay lines | `dac.c` | three produce pointers, one consume pointer | get_delay, set_delay, one point per FIQ |
| Autoplay | `file/autoplay.c` | script file, line buffer | one line per round while nothing plays |
| Serial receiver | `firmware/lib/bcm2835_irq.c`, `firmware/lib/network-stub.c` | packet ring and its indices | IRQ per byte, `aux_poll` per packet |
| SD card driver | `emmc/src/sd.c` | address, capacity, block size, bus width; the card | commands, retries, resets |
| Disk cache | `emmc/firmware/diskio.c` | tags and lines | initialize, read, write |
| FatFs | `common/lib/ff.c`, `lib/fatfs.c` | the volume's window, file objects, `LfnBuf` | open, read, seek, list |
| Console | `fb/src/console.c` | cursor, top row, attributes | putc, scroll |
| Main loop, watchdog | `firmware/main.c`, `common/lib/hardware.c` | | poll table, watchdog |

The main loop calls, in each round, `autoplay_poll`, `aux_poll`, `ilda_osc_poll`
and `playback_refill` (the order of the poll table in the link, `main.map:1516-1528`),
and feeds the watchdog. It is interrupted by the UART IRQ
and by the FIQ; nothing else runs concurrently. The hard behaviour is therefore:

- the FIQ between any two accesses of the main loop to the ring, the driver state
  and the timer, with no lock but one masked section in `shutter_set`;
- the underrun stop, which runs `dac_stop` inside the FIQ;
- a chain of one-shot timer compares that must never break;
- commands, file ends, read errors and underruns in any order over many rounds;
- frame repetition across chunks, from memory or by seeking back;
- index arithmetic at the limits of the rings;
- a card that loses commands or answers, is taken out or exchanged between any two
  commands, under a cache and a file system that keep state of their own;
- a matrix rewritten in eight stores while the FIQ draws with it;
- a script read in pieces through a small buffer, over rounds in which files play.

What makes each component correct: the *driver* never lets the producer write a
point that is still to be played, loses and repeats none, has the outputs off unless it is
playing and always has a tick coming; the *player* delivers points in
file order, each frame whole and as often as planned; the *refill* respects the
driver's grants and starts every file; a *stop* stays a stop; the *serial
receiver* delivers packets whole and in order; the *cache* returns what the card
holds; the *SD driver* recovers from whatever state a fault left the card and itself in;
*FatFs* makes a file a stream of bytes and a name an entry; the *matrix* the FIQ applies
is that of the corners that were set; a *script* runs line by line to its end.

`PROJECT.json` lists all the components with their status, and the hazards with the
properties that cover them.

## 2. The modules

| Module | What it is |
|---|---|
| `PointStream` | What the comments of `dac.c` promise: a bounded FIFO stream of points, filled while prepared or playing, drained while playing, emptied by a stop. |
| `DacLevel` | The contract between the driver and its producer: points waiting, grant, mode. |
| `DacRing` | The driver and the FIQ handler, one action per shared access. |
| `DacRingProofs` | TLAPS proofs about `DacRing`: its invariants; that the ring refines `PointStream` and `DacLevel`. |
| `FilePlayer` | `ild-player.c` as operators on a record (it runs in the main loop only). |
| `Playback`, `PlaybackProofs` | The main loop: commands, `walk_fs`, `playback_refill`, on top of `FilePlayer` and of the abstract DAC of `DacLevel`; TLAPS proofs about it. |
| `UartRx` | The receive interrupt and `aux_poll`: the ring of packet buffers. |
| `UartRxProofs` | TLAPS proofs about `UartRx`. |
| `SdCard`, `SdCardProofs` | The SD driver, one action per command, and the card's state diagram; TLAPS proofs about it. |
| `BlockDevice` | What `diskio.h` promises of a disk. |
| `DiskCache`, `DiskCacheProofs` | The read cache above the driver; TLAPS proofs about it. |
| `FatVolume` | The mounted volume: clusters, chains, the one sector window, mounting. |
| `FatFile` | `f_open`, `f_read`, `f_lseek` on file objects, and the player's notes of positions. |
| `FatDir` | Searching and listing a directory with long names. |
| `FatFs` | Player, script and `walk_fs` on one volume, composed of the three above. |
| `FatFsProofs`, `FatDirProofs` | TLAPS proofs about `FatFs`: its files; its directory. |
| `FileStream` | What a file promises its reader: a position in a sequence of bytes. |
| `Transform` | The geometric transform as operators. |
| `Params` | The table of parameters; from a packet, or a script's line, to a handler's arguments. |
| `Commands`, `CommandsProofs` | Corners, locks, matrix, delays and the script in the rounds of the main loop, with the FIQ in between; TLAPS proofs about them. |
| `MC...` | Instances for TLC. |

### DacRing

`pc` names the main loop's next access; `Step(at, next)` is one of them. A call
is split where a FIQ can come between: `dac_request` into the copy of `consume`
and the rest; the caller's writes, one point each; `dac_advance` into its test and
its store; `dac_prepare`, `dac_start`, `fiq_init`, `shutter_set` and `dac_stop` at
each store another party looks at. The main loop is the most general client: any
call in any order, as many points as were granted, or none. Stale reads are in
the state (`seen`, `addr`, `room`).

The timer is `armed` (C1 ahead of the clock) and `match` (CS); a FIQ is takable
when it is routed (`fiqOn`) and not masked (`fMask`), and then it precedes the
main loop's next access. The handler is one step: it cannot be interrupted. Time
is not counted, so a tick may come at any moment, with one restriction named
`SlowIrq`: between the two adjacent stores of `fiq_init` (C1, CS) a point period
passes only if another interrupt handler runs between them.

`UnderrunExits` says how the underrun branch ends. `c_fiq_handler` returns
("main"). `asm_fiq_handler`, which the vector table installs, branches to
`dac_stop_underflow` without a link: `dac_stop` returns into the interrupted code
in FIQ mode with the FIQ's stack and registers ("lost"). What then runs is
undefined; the model lets it do nothing until the watchdog restarts the machine.
The passing run allows both ends, so the properties hold for either handler.

`Stream` maps the ring to `PointStream`: the queue is the ring from `consume` to
`produce`, and empty when idle. `Levels` maps it to `DacLevel`: how many points wait and
the grant that the main loop holds between `dac_request` and `dac_advance`.

### FilePlayer and Playback

A file is a sequence of frames, a frame is what its header says (`kind`,
`points`) and how many points are really behind it (`stored`). A point is
`<<frame, number>>`. `ReadPoints` is `ilda_read_points`; its result is "ok",
"end", "error" or "panic", the next player and the points. A file object that was
not opened, or that the card failed under, is `NoFile`: each read from it fails.
Unsupported format bytes are one state, "bad". `RepeatCount` and `NewOffset` are
the integer arithmetic of `ilda_read_frame_header`; `0` points per frame is what
an `fps` of 0 leaves. An ILDA header with no points divides by zero before it is
recognised as an end; the model uses no result of that division.

`Playback` has one action per command, poll function and branch of
`playback_refill`; `FiqPlay` and `FiqUnderrun` come between any two. A
packet and an autoplay line may each run one command per round, the line only
while no file plays. The DAC is `mode` and `level`; `Rooms` is what `dac_request`
can grant for a level: the ring's wrap makes it any smaller number while playing.
Its `Levels` maps the same contract to `mode`, `level` and `dlen`: here the producer is the
real one and the driver the most general, in `DacRing` the other way round.
`trail`, `planned`, `shown` and `stopped` are history and are never read by an
action's guard.

### UartRx

The interrupt handler is one step per byte, by what the byte is: '[', ']' or data.
`aux_poll` is split at each read of the ring, `data_len` included, which the copy
loop reads again for every byte. `buffers[i]` is an `aux_buffer`; its last byte is
`data_len`, so a byte stored at `RXBUFMASK` overwrites it. The line holds one packet
of the remote and the place of its next byte; the UART's FIFO is not modelled apart, a
byte it drops is `LoseByte`. `clean` and `expected` are history: what was sent, and
whether it arrived whole. `Completed` says what becomes of the waiting packets when
one more is completed, and so what a full ring loses: the indices meet, and all that
wait are gone, or all but the one that is being copied.

`aux_buffers` has one element fewer than `rxihead` has values. `Outside` is the value
without a buffer. By the repository's link (`main.map`, `main.list`) `le_state` is the
first byte there and `osc_pcb.recv` the 32nd; then comes memory nothing uses. A
packet stored there is not claimed whole, may have any length when it is read, and
may turn the call of `ipcb->recv` into a jump to nowhere, after which only the watchdog
acts. `Playback` takes the light engine to be READY: that is sound up to the 256th
packet.

### SdCard

The card is a state (`out`, `idle`, `ready`, `ident`, `stby`, `tran`, `data`, `rcv`), a
block length and a bus width; it obeys a command only in the states the SD standard
names (`Obeys`), and what a command leaves it in is `Enters`. `dev` is what the driver
believes. Each command of `sd_card_init`, `sd_ensure_data_mode` and
`sd_do_data_command` is an action; its outcomes are: obeyed and answered, obeyed with
the answer lost, not obeyed, or its data do not come through. A command that fails may
leave the lines it uses inhibited (`inhibit`; which ones is the controller's choice): the
next command then waits for them without a bound (`Hang`, sd.c:677 and 687), unless
`emmc_reset_cmd`, `emmc_reset_dat` or `emmc_reset` freed them first. That
`emmc_handle_interrupts` resets the DAT line on a spurious buffer interrupt is a line that
was not left in use. Without a block size a transfer has -1 blocks: the command is issued,
no data are moved, and it may succeed (`Undelivered`). `Disturb` counts what goes wrong from
outside: a lost command or answer, a removal, an insertion. After a removal the interrupt
bit may not be set, since not every board wires it. The watchdog bites after about a second in which
a call waits for the card, once it is armed; data transfers alone may wait longer. The
clients read and write after one successful `disk_initialize`, as FatFs does. Cards
are taken to support four data lines.

### DiskCache and BlockDevice

The driver below is its results: a failing read may have stored the first part of its
data, a failing write may have reached the card. `spoilt` is history: the lines whose data was replaced
under their tag. `BlockDevice` is the disk of `diskio.h`. A read of the driver that succeeds is
taken to have delivered its data, which it does when the driver has a block size
(`ReadIsTheBlock`); finding 5 is the other case.

### FatVolume, FatFile, FatDir, FatFs, FileStream

A volume is its FAT, its directory entries and the bytes of its clusters, all constants:
the firmware never writes. The sector window (`winsect`) is shared by all objects; every
disk access may fail. `f_read` is a loop whose rounds are actions: next cluster, direct
sectors, the sector window for a partial sector; between calls the objects belong to
`Handles` (player and script). A long name is a sequence of parts, an entry is a
record; `LfnBuf` is one variable, as in the code, with what earlier calls left in it.
`walk_fs` goes through the directory entry by entry, finds shows and opens the one with the number asked
for. `PutBack` is the player's restoring of `fptr`, `clust` and `dsect` behind FatFs's
back. `FatFs` maps all this to `FileStream` (`AsStream`). The FAT may be any function, and
files' chains may end early, cross or run in circles. Of the directory it is assumed that
what it leads to holds entries (`DirClusters`): its own chain may run in a circle, but a
link from it into a file's data is not modelled, since bytes are not read as entries.

### Transform, Params and Commands

`Transformed` and `Translate` are `calculate_transform` and `translate`, with C's
rounding. A handler that moves corners leaves `work` = 8, and `Store` stores one entry
at a time in `StoreOrder`; `Point` is the FIQ. The order is the source's, and that of the
link's code but for c[1] and c[2], which one instruction stores (`main.list`,
`update_transform`). `before` is history.

A packet is its framing, address, tags, values and number of data words; a line of the
script its address and its arguments; a number the digits before and behind its point.
`Table` is the table of the handlers modelled here. The script is a
sequence of characters that know their line, so `buf` is what `autoplay_buf` holds and
`ran` which characters were taken for a line. '\r' and '\n' end a line alike; a file
with both has empty lines.

The delay lines are their four pointers. `asm_fiq_handler` moves the pointers but
neither stores colours in the buffers nor reads them, so the buffers hold zeros and are
not modelled: in this build a delay has no effect on the picture.

## 3. What the runs check

| Run | Instance | Shows |
|---|---|---|
| `dac_ring` | ring of 4, 2 points, both handlers; 336 217 states | `TypeOK`; `WriterOwnsGrant`: no granted slot is unread; `LaserSafe`: dark and shut unless playing; `PlayingHasTick`: a playing DAC has its next FIQ coming; `ImplementsStream`: the ring is the FIFO stream; `KeepsLevels`: it keeps its contract with the producer; `PlayingDrains`: it plays on or stops |
| `dac_underrun` | ring of 3, the installed handler | violation of `UnderrunKeepsControl`: the first underrun does not return to the main loop |
| `playback` | sound and damaged files, batches of 2, ring of 4, a card that may fail; 1 031 697 states | `TypeOK`, `PointsInOrder`, `FramesWhole`, `KeepsFrameRate`, `StopHolds`, `FileStarts`; `KeepsLevels`: the main loop keeps its part of the contract |
| `player_panic` | damaged files | violation of `NoPanic`, the assertion in `ild-player.c` |
| `uart_rx` | 3 indices, buffers of two bytes, 4 payloads, any bytes lost; 346 861 states | `TypeOK`; `EveryPacketOnce`: none skipped or doubled; `PacketsIntact`: whole packets are handed over as they were sent, and reception is whole again at the next one; `PacketsServed`: none waits for ever |
| `uart_light_engine` | as `uart_rx` | violation of `LightEngineIsStub` |
| `sd_card` | old, standard and high-capacity cards, calls of 1 and 2 blocks, 3 faults; 519 546 states | `TypeOK`; `ReadIsTheBlock`: never another block, and that block if there is a block size; `RecoversInOne`: once the faults are over one call may fail or hang, the next works; `HostBusNotWider`; `CallsReturn`, with two exceptions it names |
| `sd_undelivered` | the same cards, calls of 1 block, 1 fault | violation of `SuccessDelivers`: a read succeeds and delivers nothing |
| `disk_cache` | 3 sectors, 2 lines, 2 values; 27 000 states | `TypeOK`; `LinesMatchTags`; `ImplementsDisk`: while no line is spoilt it is the disk of `diskio.h` |
| `disk_torn_read` | failing reads, no writes | violation of `ReadsTheMedium` |
| `fatfs` | sectors of 2 bytes, 7 clusters, 4 files, 3 directories, a failing disk; 404 361 states | `TypeOK`; `FindIsExact`, `ListIsExact`: a search ends at the name's entry, a listing shows the shows; `PlaysTheListed`: the number played is the entry listed, unless a name is there twice; `ImplementsStream`: files are streams; `CallsReturn` |
| `commands` | 6 shows: packets and a script each; 226 155 states | `TypeOK`; `CornersHit`, `OneAxisTorn`: what the FIQ draws; `LockKeepsEdge`, `MovesKeepApart`: corners under locks; `OthersKeepDelay`; `ScriptInOrder`, `ScriptEnds` |

**Bounds.** *`DacRing`*: a ring of four has every case of the index arithmetic: empty,
full (3), a wrap in the middle of a batch, `consume` at 0 and not, grants that end at the
buffer's end and before it; two distinct points suffice to see a swap, a loss or a
repetition. *`Playback`*: frames of 1, 2 and 3 points with `Small` = 2 and `Chunk` = 2
are below, at and above the replay threshold, and take one batch or two; a
rate of 5 points per frame repeats them up to five times with an error carried over.
Both sides of `DacLevel` are checked, each against the most general other side.
*`UartRx`*: three indices are two buffers and the index without one: both indices
wrap, the ring is lapped while idle and in the middle of a copy, and packets follow each
other in the same buffer. The payloads are empty, as long as fits, one byte longer,
and one with a ']' inside.
*`SdCard`*: three faults reach a second fault during the recovery from the first and
one more behind it; calls of one and two blocks take the two commands of each kind.
One fault is enough for `sd_undelivered`.
*`DiskCache`*: three sectors on two lines share a line and have one alone; a transfer
of two sectors goes past the cache.
*`FatFs`*: clusters of two sectors of two bytes; files of 7, 6, 0 and 9 bytes end in a
sector, have a chain that is too short, are empty, and run in a circle; directories
that lie in a chain, in a circle, and in a static table; names of three parts in a
buffer of two; `IndexMod` = 32 for 2^16.
*`Commands`*: `CornerMax` = 8 for 2^15 and `TooClose` = 2 for 150, so that corners can
meet, be clamped and be rounded; `MaxDelay` = 3 for 16; `LineMax` = 6 for 128, with lines
shorter, as long, and in pieces; `IntRange` = 8 for 2^16, so that an integer argument
wraps. The properties of the matrix, the locks and the delays are proved for every
value of these (section 5).

**Fairness.** `DacRing`: weak fairness of the timer (it counts) and of the handler
(a takable FIQ is taken), strong fairness of the main loop: FIQs disable its steps
again and again, but the handler is shorter than a point period, so the main loop
runs between two of them. This is an assumption on the rate: `dac_set_rate` admits
200 000 points per second, where it may not hold. `Playback` and `Commands`: the main
loop moves on, since every poll function returns; commands and the FIQ are not fair.
`UartRx`: `aux_poll` moves on, as the interrupt handler takes less than a byte's time;
the remote is not fair. `SdCard`: the driver goes on (weak); a card that can be ready does
not stay busy for ever, and an armed watchdog that is not fed bites (strong: other steps
come between). `FatFs`: a call goes on, and the disk answers. `ScriptEnds` assumes
nothing of the files that play: it says what follows if `autoplay_poll` finds
nothing playing again and again.

**`StopHolds`** has a limit that the property's comment states: a play by number that
is still waiting (`walk_fs_request`) when `/stop` runs is not cancelled by it. It
can be waiting because the packet that stops comes in the round of the script line that
plays, or because the directory could not be opened.

**`SlowIrq`** is FALSE in the runs. With TRUE `PlayingHasTick` fails: the
match that is cleared by `fiq_init` was the one just set up.

## 4. Findings

1. *Underrun* (`fiq_handler.S:227`). `dac.c:479-482` says the DAC returns to the
   idle state on an underrun, and `playback.c:49` handles it afterwards. With the
   installed handler the main loop does not come back (run `dac_underrun`).
2. *Panic* (`ilda-osc.c:82`, `ild-player.c:362`). A file with an unsupported frame,
   then a play by number whose `f_open` fails, reaches
   `panic("fplay_state: bad value")` (run `player_panic`).
3. *Packet 256* (`bcm2835_irq.c:9`). `lightengine.c:24` calls the light engine a stub;
   its state is LIGHTENGINE_READY and nothing in this build changes it. The bytes of
   every 256th packet do: they are stored behind `aux_buffers`, where `le_state` is, and
   after the next stop nothing plays (run `uart_light_engine`).
4. *Torn line* (`diskio.c:104`). A read that fails half-way leaves part of its data in a
   line that keeps the tag of another sector; the next read of that sector returns it
   with RES_OK (run `disk_torn_read`).
5. *Missing data* (`sd.c:1107`). `sd_read` says "Data read successful" and returns
   `buf_size`. After an initialisation that broke off between the card's address
   (`sd.c:1407`) and its block size (`sd.c:1461`), the next calls do not initialise the card
   again: `buf_size` divided by 0 is -1 blocks, which passes the signed check of `sd.c:694`,
   the data loop moves nothing, and the transfer may end with success. The address is kept,
   so this repeats until a call fails (run `sd_undelivered`).

Met while modelling, and part of the models:

- `diskio.c:138` compares the result of `sd_write`, -1 on failure, as an unsigned number:
  a failed write answers RES_OK. `diskio.c:145` fills a line without its tag. FatFs never
  writes in this firmware.
- `sd.c:677` and `sd.c:687` wait without a bound for a line that a failed command left in
  use; at start-up, before the watchdog runs, the driver waits for ever. `CallsReturn`
  names the wait, and `RecoversInOne` counts it as the failure.
- A high-capacity card whose answer to CMD8 was lost is asked with ACMD41 without the
  HCS bit and stays busy: the same holds of this wait, the second that `CallsReturn`
  names.
- If the first `disk_initialize` fails, `sd_init` never mounts and every call answers
  FR_NOT_ENABLED; the cache is emptied by `disk_initialize` only, so a card that is
  exchanged later is read through the old one's lines.
- FatFs lists a volume label that has the archive bit as a file (`ff.c:1526`) but does not
  find it (`ff.c:1469`); `f_readdir` loses the entry it has when the step behind it fails;
  `walk_fs` keeps its request when `f_opendir` fails and tries again in every round; a
  directory in a circle is left only when its 16-bit index wraps.
- A last line of the script without a line end is dropped; a line of blanks does nothing
  (`autoplay.c:146`), and a line that matches no
  handler, or with the wrong number of arguments, ends the script. `strtofixed` gives
  the sign to the fraction only: "-1.5" is 0.5, and its integers wrap at 32 bits
  (`FixedInt`). Its `%` form, a fraction of 100, is left out.
- A packet's `T`, `F` and `N` need data behind them (`osc.c:225`), which senders do not
  send: `/geom/locktop ,T` is ignored, and `/stop ,F` stops, although `osc.c:268-270`
  swallows a zero.
- To reduce a delay by some points `dac.c:346` moves the other colours' data by that number but
  the pointers by one, so that the delay is not the one that was set (`dac.c:279-285` says it
  changes it). In this build it has no effect on the picture; `OthersKeepDelay` holds.
- With locks a single command can put two corners onto each other, and `/geom/offset`
  before any `/geom/size` puts all four into one point. `MovesKeepApart` therefore speaks
  of steps that move one corner.

## 5. What is proved

`DacRingProofs` proves, for every ring size N > 1, every set of points and both
handlers: `TypeCorrect`, `ProducerOwnsItsGrant` (`WriterOwnsGrant`), `OutputIsSafe`
(`LaserSafe`) and, without slow interrupt handlers, `TickIsPending`
(`PlayingHasTick`). The only assumption is `RingAssumption` of `DacRing`, and
`~SlowIrq` for the last.

None of these is inductive. `Inv` adds what ties the main loop's copies to the
shared state:

- `SeenBehind`: the copy of `consume` in `dac_request` lies behind `consume`, and
  the FIQ has not passed `produce`; so the room computed from it is safe now
  (`RoomFits`) and stays safe when a point is played (`PlayMovesOn`);
- `GrantFits`: the grant starts at `produce`, ends inside the buffer and leaves a
  slot free. Its slot-by-slot reading is `WriterOwnsGrant` (`FitsIsFree`);
- `OutputInv`: which of the FIQ routing, the FIQ mask, `state` and `irq_do` protect
  the outputs at each step of `dac_start`, `shutter_set` and `dac_stop`;
- `TickInv`: what `fiq_init` has done so far, step by step.

It also proves `RingIsAStream` (`ImplementsStream`) from `RingAssumption`: the
ring's initial states are the stream's, and each of its steps is one of the stream's or a
stutter, under the mapping of `Stream`, whose queue is the ring from `consume` to
`produce`. On top of `Inv` it needs `StagedInv`: the points written and not yet committed
lie in their slots in the order of writing, so that `dac_advance` appends exactly these;
and the ring is empty between the stores of `dac_prepare`.

`DriverKeepsLevels` (`KeepsLevels`) shows, likewise, that the ring keeps to `DacLevel`. A
prepared ring must grant all its room in one piece, which is what `playback_refill`
needs in order to start the DAC for a small file; this holds since nothing has moved
`consume` from 0 yet, nor the copy that `dac_request` works on (`UnplayedInv`).

`UartRxProofs` proves, for every ring size, buffer size, set of payloads and both kinds
of line: `UartTypeCorrect`, `NoPacketSkipped` (`EveryPacketOnce`) and
`WholePacketsArrive` (`PacketsIntact`), from `UartAssumption` only. Its `Inv` adds:

- `QueueInv`: the k-th waiting packet lies in the buffer k - 1 after `rxitail`, unless it
  is spoilt, and a full ring's oldest is. So the handler's buffer is never a whole
  packet's (`HandlerOwnsBuffer`), and its writes change none (`WaitingKept`);
- `LineInv`: of a clean packet on the line, the bytes up to `rxhead` are stored;
- `ReaderInv`: what `aux_poll` has copied is the beginning of the packet.

`DiskCacheProofs` proves, for every number of sectors and lines, every set of values
and every kind of fault, from `CacheAssumption`: `DiskTypes`, `TaggedLinesAreTrue` (`LinesMatchTags`) and
`CacheIsTransparent` (`ImplementsDisk`: initial states map to initial states and each
step to a step of `BlockDevice` or a stutter). The invariant is the types and
`LinesMatchTags`.

`CommandsProofs` proves, for every `CornerMax`, every set of packets and scripts and
every length of the buffers, from the assumptions of `Transform`, `Params` and `Commands`:

- `TransformedHits`: the matrix of `calculate_transform` draws the frame's corners within
  0, 1, 2 and 4 units of where they were set. At a corner the shifts are exact
  (`TranslateExact`), so what is left is the rounding of the divisions;
- `CornersAreHit` (`CornersHit`) and `OnlyOneAxisTorn` (`OneAxisTorn`) from `CommandsInv`:
  the entries stored so far are those of the new corners, and until the last entry of
  the x axis is stored the y axis is that of the old ones. It needs the handlers'
  arguments in range, so the lemmas before it go through `FPA_param`, both ways of
  converting arguments included (`OscArgs`, `LineArgs`);
- `LocksHold` (`LockKeepsEdge`) and `DelaysAreApart` (`OthersKeepDelay`), with
  `SettingsInv` for the ranges of locks and pointers;
- `CornersStayApart` (`MovesKeepApart`): of the positions that `geom_update` computes, the
  one that differs from where its corner was is one that it has checked (`AdmittedApart`).
  Size and offset make a rectangle; any three of its corners have both of its sides, so
  if three stay where they were, and apart, all four are apart (`SizeApart`);
- `CommandsTypes` (`TypeOK`) and `LinesRunInOrder` (`ScriptInOrder`): the lines run are the
  script's, in order, however `f_gets` cuts them. `ScriptInv` says of the rest: behind the
  lines that were run and what the buffer still holds, the file goes on where the reader stands.

`PlaybackProofs` proves, for every set of files, ring, batch and threshold size, rate, and
both handlers, from `PlayerAssumption` and `PlaybackAssumption`: `PlaybackTypes`,
`BatchesFit` (a batch fits the room that `dac_request` found), `StopIsFinal` (`StopHolds`),
`OrderIsKept` (`PointsInOrder`), `FramesAreWhole` (`FramesWhole`), `FrameRateIsKept`
(`KeepsFrameRate`) and `ProducerKeepsLevels` (`KeepsLevels`), the other side of the contract;
`EveryGrantIsExpected` adds that the refill reckons with every grant that the contract lets
the driver give. The invariant has two parts:

- `LoopInv`: what the refill's grant and the stop flags are at each place of the main loop;
- `FrameInv`: where the player is in its frame. The file stands at the next point of the
  frame, or its beginning is noted for seeking back, and the replay buffer holds what was
  read of a small one (`Loaded`, `Remembers`); the points shown are those of the passes that
  are over and of the current one, `(planned - repeat) * count + (count - left)` (`Shows`).

`SdCardProofs` proves, for any number of faults and every kind of card, from
`SdAssumption`: `SdTypes`, `ReadsAreRight` (`ReadIsTheBlock`), `OneFailureAtMost`
(`RecoversInOne`) and `BusWidthsAgree` (`HostBusNotWider`): a read that succeeds never
delivers a wrong block, and delivers its block when there is a block size; after the faults at
most one call fails or hangs before one works. `SdInv` adds:

- `BeliefInv`: what the driver believes of a card that takes data commands
  (its address, its kind, its block length, its width) is true of it;
- `RecoverInv`: a call that fails without a fault of its own has forgotten the card's
  address, so the next call initialises it anew (after a hang the watchdog does); and an
  initialisation that nothing disturbs finds the lines free and is obeyed command by
  command, whatever state the card was left in (`Follows`), so that the call behind it has
  a card and a block size to move data with (`Working`).

`FatFsProofs` proves `FilesAreStreams` (`ImplementsStream`) from the assumptions of
`FatVolume`, `FatFile`, `FatDir` and `FatFs`. The lemma `ChainSteps` unfolds the recursive
definition of a chain. The library's induction theorems cannot be used, so the
proof goes by induction over sets of naturals (`Induction`, from the well-foundedness
of <). Then positions are taken apart into cluster, sector and place (`PositionParts`,
`Further`), and `FsInv` is shown to be inductive:

- `ObjectsInv`: an object's cluster is the one that its *previous* byte is in, or the next
  byte's when `f_read` has just crossed the boundary (`Stands`, `Enters`), and within a
  sector `dsect` is the position's sector. The same holds of what the player has noted,
  which is why it can be put back;
- `ReadInv`: the caller's buffer holds the bytes from where the read began up to the
  position, and what is still to be read is the rest of what was promised;
- `FindInv`: a search stays in the directory (`NextInDir`), so what it finds is a file.

`FatDirProofs` proves, for every root directory, table of entries and set of names, from the
assumptions of `FatVolume`, `FatFile`, `FatDir` and `FatFs`: `FatFsTypes`, `SearchesAreExact`
(`FindIsExact`), `ListingsAreExact` (`ListIsExact`) and `PlaysAreListed` (`PlaysTheListed`).
`NamesAssumption` says how the format cuts names into pieces: of a long name only the
last may be short, and an 8.3 form fits one piece. Orphaned, repeated, interleaved and
wrongly numbered pieces are all allowed. `PlaysTheListed` speaks of directories in which
no path names two different entries (`UniqueNames`): `f_open` takes the first of two.

Neither a search nor a listing looks back; both carry two numbers (`ord`, `sum`) and a
buffer. What these know of the entries passed is the heart of `DirInv`:

- `Run`: the entries before a place are the last of a sequence of n pieces with one
  checksum, some of them still to come; `Tracks`: `ord` and `sum` tell of the only such run, if
  there is one. A run that is complete is the entry's long name (`LongIs`, `LongHasRun`);
- `SearchInv`: the pieces of the run are those of the path, since `cmp_lfn` compared each with
  the buffer (`Matching`), and the buffer still holds the path (`Holds`, `MatchIsName`);
- `ListInv`: the pieces of the run are what `pick_lfn` has put into the buffer (`Buffers`), so
  what is left of longer names is behind the name's end (`LfnNameIs`);
- `Counted`: the shows among the entries passed are those in `listed`, in order; and between
  two calls of `f_readdir` the object is behind an entry that is no piece (`WalkInv`), so that
  a name is never torn apart by a return;
- `AtEntry`, `Passed`: a place is an entry of the table that the directory's chain leads to,
  and no entry before it was the end.

The last two refer to the table by index. A directory in a circle is a table that repeats
itself up to the index's wrap; the theorems hold there too.

Each part is preserved by each action, one proof step per action. Every safety invariant
and action property that a passing run checks is proved, and so are the refinements. Only
model-checked is liveness, which is outside the prover's reach: `PlayingDrains`,
`FileStarts`, `PacketsServed`, `CallsReturn` and `ScriptEnds`.

## 6. Plan

1. A property for the read error that leaves committed points in a prepared DAC
   (`playback.c`, the error path of `playback_refill`).
2. Subdirectories and FAT12 in `FatDir` and `FatVolume`; `Console`: cursor and scrolling.

## 7. Not modelled

- *FatFs*: everything that writes (no caller: `f_write`, `f_sync`, `f_unlink`, ...;
  `get_fattime` with it), directories other than the root, FAT12's packed entries, volumes
  other than 0, and the fields of the boot sector, which are constants.
- *OSC*: what is sent to the remote (`udp_sendto` is a stub's), blobs, and a string with a
  number: no handler takes them. Addresses are values, and no handler's has a wildcard.
- *Names*: one of 255 characters, which `cmp_lfn` and `pick_lfn` refuse although it fills
  the last part that `FatDir` has room for.
- *Script*: the `memmove` of `autoplay.c:215` takes one byte more than the buffer holds and
  may write it behind `autoplay_buf`; nothing in this build reads that byte. A number with a
  `%` sign.
- *Geometry*: `EdgeX` and `EdgeY` stand for the picture's edges, 2^15 on both sides; a point is an
  `int16_t` and on the positive side ends one unit before. The colour gains and offsets, which nothing reads. Coordinates beyond the
  DAC's twelve bits: a corner drawn one unit outside carries into the channel bits of
  the SPI word, which is data here.
- *Console* (`fb/src/console.c`): built with `ENABLE_FRAMEBUFFER` only.
- lwIP's headers, newlib glue, register access (`bcm2835.c`, `mcp49x2.c`), the Eagle
  files and the bring-up programs (`bob`, `bob-baremetal`): no state of the projector's
  own, or third-party.
- `dac_rate_queue`, `dac_pop_rate_change`, `dac_handle_abstract` and `le_estop` have no
  caller in this build.
- Analog conversion, timing in microseconds and the content of headers are data; with
  them the WAV header's sample rate, which goes unchecked to the assertions of `dac_set_rate`
  (`ild-player.c:234`). What the
  CPU does after control is lost is undefined and abstracted to nothing.

## 8. Running

    tlc -config DacRing.cfg MCDacRing
    tlc -config Playback.cfg MCPlayback
    tlc -config UartRx.cfg MCUartRx
    tlc -config SdCard.cfg MCSdCard
    tlc -config DiskCache.cfg MCDiskCache
    tlc -config FatFs.cfg MCFatFs
    tlc -config Commands.cfg MCCommands
    tlapm DacRingProofs.tla
    tlapm UartRxProofs.tla
    tlapm DiskCacheProofs.tla
    tlapm CommandsProofs.tla
    tlapm PlaybackProofs.tla
    tlapm SdCardProofs.tla
    tlapm FatFsProofs.tla
    tlapm FatDirProofs.tla

`DacUnderrun.cfg`, `PlayerPanic.cfg`, `UartLightEngine.cfg`, `SdUndelivered.cfg` (with
`MCSdCard`) and `DiskTornRead.cfg` end in the violations of section 4. Operators
whose comment begins with "Mutant" are deliberately wrong versions of the definition
that follows them; putting one in its place violates the property that
`PROJECT.json` names for it.

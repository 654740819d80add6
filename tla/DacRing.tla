-------------------------------- MODULE DacRing --------------------------------
(***************************************************************************)
(* The DAC driver of firmware/lib/dac.c and the FIQ handler of             *)
(* firmware/lib/fiq_handler.S.  The main loop produces points into a ring; *)
(* a timer interrupt (FIQ) consumes one point per tick.  They share the    *)
(* ring, its two indices, the driver state and irq_do without a lock.      *)
(*                                                                         *)
(* A main-loop call is split at each access the FIQ can come between; pc   *)
(* names the access that comes next.  The FIQ handler runs to completion,  *)
(* so it is one step, and a deliverable FIQ preempts the main loop.        *)
(* The main loop is the most general client: any call at any time, at most *)
(* as many points written as dac_request allowed.                          *)
(***************************************************************************)
EXTENDS Integers, Sequences

CONSTANTS
  N,              \* DAC_BUFFER_POINTS
  Points,         \* the points a producer writes
  Blank,          \* a zeroed point: the ring's initial contents, a dark laser
  SlowIrq,        \* may a UART interrupt inside fiq_init outlast a point period?
  UnderrunExits   \* where the handler's underflow branch ends: "main" when it
                  \* returns (c_fiq_handler), "lost" when it does not (see cpu)

ASSUME RingAssumption ==
  /\ N \in Nat /\ N > 1
  /\ Blank \notin Points
  /\ SlowIrq \in BOOLEAN
  /\ UnderrunExits # {} /\ UnderrunExits \subseteq {"main", "lost"}

VARIABLES
  produce, consume,   \* dac_control.produce and .consume
  state,              \* dac_control.state
  irqDo,              \* dac_control.irq_do
  pps,                \* is dac_current_pps set?
  buf,                \* dac_buffer
  laser,              \* the point on the analog outputs
  shutter,            \* the shutter's GPIO pin
  fiqOn,              \* FIQ_CONTROL routes the timer to the FIQ
  fMask,              \* the F bit of the CPSR
  armed, match,       \* C1 is ahead of the clock; CS holds a match
  cpu,                \* "main", or "lost": asm_fiq_handler branches to dac_stop
                      \* without a link, and dac_stop's return resumes the main
                      \* loop in FIQ mode, on the FIQ's registers and stack
  pc,                 \* the main loop's next access
  cont,               \* the caller fiq_init returns to
  seen,               \* dac_request's copy of consume
  addr, room,         \* what dac_request_addr and dac_request returned
  staged              \* the points written since then, in order

ring    == <<produce, consume, buf>>
control == <<state, irqDo>>
output  == <<laser, shutter>>
timer   == <<fiqOn, fMask, armed, match>>
grant   == <<seen, addr, room, staged>>
flow    == <<pc, cont>>
vars    == <<ring, control, pps, output, timer, cpu, flow, grant>>

Slots    == 0 .. N - 1
Fullness == IF produce >= consume THEN produce - consume
                                  ELSE produce - consume + N

Init ==
  /\ produce = 0 /\ consume = 0
  /\ buf = [s \in Slots |-> Blank]
  /\ state = "IDLE" /\ irqDo = "PANIC"
  /\ pps = FALSE
  /\ laser = Blank /\ shutter = FALSE
  /\ fiqOn = FALSE /\ fMask = TRUE
  /\ armed = FALSE /\ match = FALSE
  /\ cpu = "main" /\ pc = "idle" /\ cont = "rate"
  /\ seen = 0 /\ addr = 0 /\ room = 0 /\ staged = <<>>

--------------------------------------------------------------------------------
(* The main loop                                                           *)

FiqTakable == fiqOn /\ ~fMask

\* The main loop executes its access `at` and goes on to `next`; a FIQ that can
\* be delivered comes first.
Step(at, next) ==
  /\ cpu = "main" /\ ~(match /\ FiqTakable)
  /\ pc = at
  /\ pc' = next
  /\ cpu' = cpu

\* dac_request() copies consume before it looks at anything else.
RequestConsume ==
  /\ Step("idle", "request")
  /\ seen' = consume
  /\ addr' = 0 /\ room' = 0 /\ staged' = <<>>
  /\ UNCHANGED <<ring, control, pps, output, timer, cont>>

\* Mutant: the slot before consume = 0 is not left free.
RoomToTheEnd(c) ==
  IF produce >= c THEN N - produce ELSE c - produce - 1

\* ... and then computes how far the ring can be filled without wrapping.
RoomAfter(c) ==
  IF produce >= c
  THEN IF c = 0 THEN N - produce - 1 ELSE N - produce
  ELSE c - produce - 1

RequestRoom ==
  /\ Step("request", IF state = "IDLE" \/ RoomAfter(seen) = 0
                     THEN "idle" ELSE "write")
  /\ addr' = produce
  /\ room' = IF state = "IDLE" THEN 0 ELSE RoomAfter(seen)
  /\ UNCHANGED <<ring, control, pps, output, timer, cont, seen, staged>>

\* The caller stores one more point at the address it was given.
WritePoint(p) ==
  /\ Step("write", "write")
  /\ Len(staged) < room
  /\ buf' = [buf EXCEPT ![addr + Len(staged)] = p]
  /\ staged' = Append(staged, p)
  /\ UNCHANGED <<produce, consume, control, pps, output, timer, cont, seen,
                 addr, room>>

\* A caller whose read failed or ended writes nothing and does not advance.
Abandon ==
  /\ Step("write", "idle")
  /\ staged = <<>>
  /\ UNCHANGED <<ring, control, pps, output, timer, cont, grant>>

\* dac_advance(count): a test of the state, then a store to produce.
AdvanceCheck ==
  /\ staged # <<>>
  /\ Step("write", IF state = "IDLE" THEN "idle" ELSE "advance")
  /\ UNCHANGED <<ring, control, pps, output, timer, cont, grant>>

\* Mutant: produce does not wrap.
AdvanceNoWrap ==
  /\ Step("advance", "idle")
  /\ produce' = produce + Len(staged)
  /\ staged' = <<>>
  /\ UNCHANGED <<consume, buf, control, pps, output, timer, cont, seen, addr,
                 room>>

\* Mutant: the whole grant is committed, written or not.
AdvanceGrant ==
  /\ Step("advance", "idle")
  /\ produce' = (produce + room) % N
  /\ staged' = <<>>
  /\ UNCHANGED <<consume, buf, control, pps, output, timer, cont, seen, addr,
                 room>>

AdvanceStore ==
  /\ Step("advance", "idle")
  /\ produce' = (produce + Len(staged)) % N
  /\ staged' = <<>>
  /\ UNCHANGED <<consume, buf, control, pps, output, timer, cont, seen, addr,
                 room>>

\* dac_prepare(): only from IDLE; empties the ring, then publishes PREPARED.
PrepareEmpty ==
  /\ Step("idle", "prepare")
  /\ state = "IDLE"
  /\ produce' = 0 /\ consume' = 0
  /\ staged' = <<>>
  /\ UNCHANGED <<buf, control, pps, output, timer, cont, seen, addr, room>>

PreparePublish ==
  /\ Step("prepare", "idle")
  /\ state' = "PREPARED" /\ irqDo' = "PANIC"
  /\ UNCHANGED <<ring, pps, output, timer, cont, grant>>

\* dac_set_rate(points_per_second): fiq_init(), then the new rate is noted.
SetRate ==
  /\ Step("idle", "arm")
  /\ cont' = "rate"
  /\ UNCHANGED <<ring, control, pps, output, timer, grant>>

NoteRate ==
  /\ Step("rate", "idle")
  /\ pps' = TRUE
  /\ UNCHANGED <<ring, control, output, timer, cont, grant>>

\* dac_start(): PLAYING, then irq_do, then fiq_init(), then the shutter.
StartPlaying ==
  /\ Step("idle", "irqdo")
  /\ state = "PREPARED" /\ pps
  /\ state' = "PLAYING"
  /\ UNCHANGED <<ring, irqDo, pps, output, timer, cont, grant>>

StartIrqDo ==
  /\ Step("irqdo", "arm")
  /\ irqDo' = "BUFFER"
  /\ cont' = "mask"
  /\ UNCHANGED <<ring, state, pps, output, timer, grant>>

\* fiq_init(): C1 = CLO + ticks, CS = 2, FIQ_CONTROL = 0x81.
ArmTimer ==
  /\ Step("arm", "clear")
  /\ armed' = TRUE
  /\ UNCHANGED <<ring, control, pps, output, fiqOn, fMask, match, cont, grant>>

ClearMatch ==
  /\ Step("clear", "enable")
  /\ match' = FALSE
  /\ UNCHANGED <<ring, control, pps, output, fiqOn, fMask, armed, cont, grant>>

\* Mutant: the interrupt is not routed to the FIQ.
EnableNothing ==
  /\ Step("enable", cont)
  /\ UNCHANGED <<ring, control, pps, output, timer, cont, grant>>

EnableFiq ==
  /\ Step("enable", cont)
  /\ fiqOn' = TRUE
  /\ UNCHANGED <<ring, control, pps, output, fMask, armed, match, cont, grant>>

\* Mutant: shutter_set does not mask the FIQ.
ShutterNoMask ==
  /\ Step("mask", "shutter")
  /\ UNCHANGED <<ring, control, pps, output, timer, cont, grant>>

\* shutter_set(1): the state is tested with the FIQ masked.
ShutterMask ==
  /\ Step("mask", "shutter")
  /\ fMask' = TRUE
  /\ UNCHANGED <<ring, control, pps, output, fiqOn, armed, match, cont, grant>>

ShutterTest ==
  /\ Step("shutter", IF state = "PLAYING" THEN "open" ELSE "unmask")
  /\ UNCHANGED <<ring, control, pps, output, timer, cont, grant>>

ShutterOpen ==
  /\ Step("open", "unmask")
  /\ shutter' = TRUE
  /\ UNCHANGED <<ring, control, pps, laser, timer, cont, grant>>

ShutterUnmask ==
  /\ Step("unmask", "idle")
  /\ fMask' = FALSE
  /\ UNCHANGED <<ring, control, pps, output, fiqOn, armed, match, cont, grant>>

\* dac_stop(flags): the interrupt off, the shutter, the outputs, the state.
StopFiq ==
  /\ Step("idle", "close")
  /\ fiqOn' = FALSE
  /\ UNCHANGED <<ring, control, pps, output, fMask, armed, match, cont, grant>>

StopShutter ==
  /\ Step("close", "zero")
  /\ shutter' = FALSE
  /\ UNCHANGED <<ring, control, pps, laser, timer, cont, grant>>

StopOutputs ==
  /\ Step("zero", "halt")
  /\ laser' = Blank
  /\ state' = "IDLE"
  /\ UNCHANGED <<ring, irqDo, pps, shutter, timer, cont, grant>>

StopIrqDo ==
  /\ Step("halt", "idle")
  /\ irqDo' = "PANIC"
  /\ UNCHANGED <<ring, state, pps, output, timer, cont, grant>>

MainStep ==
  \/ RequestConsume \/ RequestRoom
  \/ \E p \in Points : WritePoint(p)
  \/ Abandon \/ AdvanceCheck \/ AdvanceStore
  \/ PrepareEmpty \/ PreparePublish
  \/ SetRate \/ NoteRate
  \/ StartPlaying \/ StartIrqDo
  \/ ArmTimer \/ ClearMatch \/ EnableFiq
  \/ ShutterMask \/ ShutterTest \/ ShutterOpen \/ ShutterUnmask
  \/ StopFiq \/ StopShutter \/ StopOutputs \/ StopIrqDo

--------------------------------------------------------------------------------
(* The timer and the FIQ handler                                           *)

\* The system timer reaches C1.  The two adjacent stores of fiq_init are a point
\* period apart only if another interrupt handler runs between them, which
\* cannot hold up a FIQ that is takable.
Tick ==
  /\ armed
  /\ pc = "clear" /\ ~FiqTakable => SlowIrq
  /\ armed' = FALSE /\ match' = TRUE
  /\ UNCHANGED <<ring, control, pps, output, fiqOn, fMask, cpu, flow, grant>>

\* Mutant: the handler does not schedule the next FIQ.
FiqOnce ==
  /\ cpu = "main" /\ match /\ FiqTakable
  /\ match' = FALSE /\ armed' = armed
  /\ UNCHANGED <<produce, buf, pps, fMask, flow, grant>>

\* Every FIQ acknowledges the match and then schedules the next one.
Fiq ==
  /\ cpu = "main" /\ match /\ FiqTakable
  /\ match' = FALSE /\ armed' = TRUE
  /\ UNCHANGED <<produce, buf, pps, fMask, flow, grant>>

FiqIgnored ==
  /\ irqDo # "BUFFER"
  /\ Fiq
  /\ UNCHANGED <<consume, control, output, fiqOn, cpu>>

FiqPlay ==
  /\ irqDo = "BUFFER" /\ consume # produce
  /\ Fiq
  /\ laser' = buf[consume]
  /\ consume' = IF consume + 1 = N THEN 0 ELSE consume + 1
  /\ UNCHANGED <<control, shutter, fiqOn, cpu>>

\* Nothing to play: dac_stop_underflow() runs dac_stop() inside the handler.
FiqUnderrun ==
  /\ irqDo = "BUFFER" /\ consume = produce
  /\ Fiq
  /\ fiqOn' = FALSE
  /\ laser' = Blank /\ shutter' = FALSE
  /\ state' = "IDLE" /\ irqDo' = "PANIC"
  /\ cpu' \in UnderrunExits
  /\ UNCHANGED consume

\* What runs in FIQ mode on the wrong registers is undefined; the model has it do
\* nothing until the watchdog, which is no longer fed, restarts the machine.
WatchdogReset ==
  /\ cpu = "lost"
  /\ produce' = 0 /\ consume' = 0
  /\ buf' = [s \in Slots |-> Blank]
  /\ state' = "IDLE" /\ irqDo' = "PANIC"
  /\ pps' = FALSE
  /\ laser' = Blank /\ shutter' = FALSE
  /\ fiqOn' = FALSE /\ fMask' = TRUE
  /\ armed' = FALSE /\ match' = FALSE
  /\ cpu' = "main" /\ pc' = "idle" /\ cont' = "rate"
  /\ seen' = 0 /\ addr' = 0 /\ room' = 0 /\ staged' = <<>>

Next ==
  \/ MainStep
  \/ Tick \/ FiqIgnored \/ FiqPlay \/ FiqUnderrun \/ WatchdogReset

Spec == Init /\ [][Next]_vars

\* The timer runs and a FIQ that can be taken is taken.  Strong fairness of the
\* main loop says that FIQs leave it time: the handler is shorter than a point
\* period, so the CPU comes back to the main loop between two of them.
Handler  == FiqIgnored \/ FiqPlay \/ FiqUnderrun
FairSpec == Spec /\ WF_vars(Tick) /\ WF_vars(Handler) /\ SF_vars(MainStep)

--------------------------------------------------------------------------------
(* What must hold                                                          *)

\* Every variable keeps its range; a grant never outgrows the ring.
TypeOK ==
  /\ produce \in Slots /\ consume \in Slots
  /\ buf \in [Slots -> Points \cup {Blank}]
  /\ state \in {"IDLE", "PREPARED", "PLAYING"}
  /\ irqDo \in {"PANIC", "BUFFER"}
  /\ pps \in BOOLEAN
  /\ laser \in Points \cup {Blank} /\ shutter \in BOOLEAN
  /\ fiqOn \in BOOLEAN /\ fMask \in BOOLEAN
  /\ armed \in BOOLEAN /\ match \in BOOLEAN
  /\ cpu \in {"main", "lost"}
  /\ pc \in {"idle", "request", "write", "advance", "prepare", "arm", "clear",
             "enable", "rate", "irqdo", "mask", "shutter", "open", "unmask",
             "close", "zero", "halt"}
  /\ cont \in {"rate", "mask"}
  /\ seen \in Slots /\ addr \in Slots /\ room \in 0 .. N
  /\ staged \in Seq(Points) /\ Len(staged) <= room

\* Does slot s hold a committed point the FIQ has not played?
Unread(s) ==
  IF consume <= produce THEN consume <= s /\ s < produce
                        ELSE consume <= s \/ s < produce

\* The slots granted to the producer lie inside the buffer and hold no unread
\* point, although the FIQ and its underrun stop move on under the copy of
\* consume the grant was computed from; and committing them cannot make the ring
\* look empty (dac_request, dac_advance).
WriterOwnsGrant ==
  pc \in {"write", "advance"} =>
    /\ addr + room <= N
    /\ \A s \in addr .. addr + room - 1 : ~Unread(s)
    /\ Fullness + room < N

\* The laser is dark and the shutter shut unless the driver is PLAYING, whatever
\* FIQ lands inside dac_start, dac_stop or shutter_set (dac_stop, shutter_set).
LaserSafe == state # "PLAYING" => laser = Blank /\ ~shutter

\* Once dac_start has run fiq_init and unmasked the FIQ, a playing DAC always has
\* its next FIQ coming: a match is due or pending, it is routed and not masked
\* (fiq_init, dac_set_rate, shutter_set, the handler).
PlayingHasTick ==
  (state = "PLAYING" /\ pc \notin {"irqdo", "arm", "clear", "enable"}) =>
    /\ armed \/ match
    /\ fiqOn \/ pc \in {"close", "zero"}
    /\ ~fMask \/ pc \in {"mask", "shutter", "open", "unmask"}

\* The committed points, oldest first; those of an idle driver are gone.
Queue == IF state = "IDLE" THEN <<>>
         ELSE [i \in 1 .. Fullness |-> buf[(consume + i - 1) % N]]

\* The stream of points the ring stands for: what dac_request's caller hands over
\* comes out once, in order, and only while PLAYING.
Stream == INSTANCE PointStream WITH
  Capacity <- N - 1,
  mode     <- state,
  queue    <- Queue

\* DacRing implements PointStream (the contract in the comments of dac.c).
ImplementsStream == Stream!Spec

\* What the producer counts on: how many points wait, and its grant.
Levels == INSTANCE DacLevel WITH
  Capacity <- N - 1,
  mode     <- state,
  level    <- IF state = "IDLE" THEN 0 ELSE Fullness,
  room     <- IF pc \in {"write", "advance"} THEN room ELSE 0

\* However the FIQ and its underrun stop fall between dac_request's reads, the
\* caller's writes and dac_advance's test and store, the driver grants, takes and
\* drops points as its producer, playback_refill, counts on: all the room there is
\* while it is prepared, never more than there is (dac.c, playback.c).
KeepsLevels == Levels!Spec

\* A playing DAC either plays its next point or stops: dac_start leaves no state
\* in which the FIQ never comes again.
PlayingDrains ==
  \A c \in Slots : (state = "PLAYING" /\ consume = c)
                     ~> (state # "PLAYING" \/ consume # c)

\* After an underrun stop the main loop goes on and finds the DAC idle (dac.c:
\* "Stop the DAC ... and return to the idle state. This is triggered internally
\* when the DAC has a buffer underrun"; playback.c: "Have we underflowed?").
UnderrunKeepsControl == cpu = "main"
================================================================================

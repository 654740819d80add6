---------------------------- MODULE DacRingProofs ----------------------------
(***************************************************************************)
(* Proofs about DacRing for every ring size, every set of points and both  *)
(* handlers.  The invariants the runs check are not inductive: what the    *)
(* main loop copied from the shared state must be related to what the FIQ  *)
(* did to that state since.  Inv states those relations, access by access. *)
(*                                                                         *)
(* The second half shows that DacRing implements PointStream: the ring the *)
(* main loop fills and the FIQ drains without a lock is a first-in         *)
(* first-out stream of points.  The refinement mapping is DacRing's Queue. *)
(* The last part shows that it keeps to DacLevel, what its producer counts *)
(* on.                                                                     *)
(***************************************************************************)
EXTENDS DacRing, SequenceTheorems, TLAPS

\* dac_request's copy of consume is behind the index, never ahead of it, and the
\* points in between were played without passing produce.
SeenBehind ==
  IF seen <= produce THEN seen <= consume /\ consume <= produce
                     ELSE seen <= consume \/ consume <= produce

\* The grant as a count: it starts at produce, ends inside the buffer and leaves
\* at least one slot free.
GrantFits ==
  /\ addr = produce
  /\ addr + room <= N
  /\ Fullness + room < N

GrantInv ==
  /\ pc = "request" => SeenBehind /\ staged = <<>>
  /\ pc \in {"write", "advance"} => GrantFits

\* Who may change the output: the handler plays only in PLAYING, and dac_stop
\* has cut the FIQ off before the state and irq_do disagree.
OutputInv ==
  /\ state # "PLAYING" => laser = Blank /\ ~shutter
  /\ irqDo = "BUFFER" => state = "PLAYING" \/ pc = "halt"
  /\ pc \in {"close", "zero", "halt"} => ~fiqOn
  /\ pc = "zero" => ~shutter
  /\ pc \in {"halt", "prepare"} => state = "IDLE"
  /\ pc = "irqdo" => state = "PLAYING" /\ irqDo = "PANIC"
  /\ pc \in {"shutter", "open", "unmask"} => fMask
  /\ pc = "open" => state = "PLAYING"

\* No match is lost between C1 and CS unless an interrupt handler is that slow.
TickInv ==
  /\ pc = "clear" => armed \/ (match /\ FiqTakable)
  /\ pc = "enable" => armed \/ match
  /\ (state = "PLAYING" /\ fMask) =>
       \/ pc \in {"irqdo", "mask", "shutter", "open", "unmask"}
       \/ pc \in {"arm", "clear", "enable"} /\ cont = "mask"
  /\ PlayingHasTick

Inv == TypeOK /\ GrantInv /\ OutputInv

--------------------------------------------------------------------------------
(* Types                                                                   *)

\* dac_advance wraps produce to 0 exactly at the end of the buffer.
LEMMA WrapAdd ==
  ASSUME NEW p \in Slots, NEW n \in Nat, p + n <= N
  PROVE  /\ (p + n) % N \in Slots
         /\ (p + n) % N = IF p + n = N THEN 0 ELSE p + n
<1>1. N \in Nat /\ N > 1
  BY RingAssumption
<1>2. CASE p + n = N
  <2>1. N % N = 0
    BY <1>1
  <2>2. QED
    BY <1>1, <1>2, <2>1 DEF Slots
<1>3. CASE p + n < N
  <2>1. (p + n) % N = p + n
    BY <1>1, <1>3 DEF Slots
  <2>2. QED
    BY <1>1, <1>3, <2>1 DEF Slots
<1>4. QED
  BY <1>1, <1>2, <1>3 DEF Slots

\* After reset the driver's variables are in range.
LEMMA InitTypeOK == Init => TypeOK
BY RingAssumption DEF Init, TypeOK, Slots

\* The room dac_request computes is never more than the whole buffer.
LEMMA RoomType ==
  ASSUME TypeOK, NEW c \in Slots
  PROVE  RoomAfter(c) \in 0 .. N
BY RingAssumption DEF TypeOK, RoomAfter, Slots

\* One step keeps every variable in its range, whatever the FIQ does.
LEMMA NextTypeOK ==
  ASSUME TypeOK, GrantInv, [Next]_vars
  PROVE  TypeOK'
<1> USE RingAssumption DEF TypeOK, Slots, Step, ring, control, output, timer,
                           grant, flow
<1>1. CASE RequestConsume
  BY <1>1 DEF RequestConsume
<1>2. CASE RequestRoom
  <2>1. RoomAfter(seen) \in 0 .. N
    BY RoomType
  <2>2. seen' \in Slots /\ addr' \in Slots /\ room' \in 0 .. N
    BY <1>2, <2>1 DEF RequestRoom
  <2>3. Len(staged') <= room'
    BY <1>2, <2>1, <2>2 DEF RequestRoom, GrantInv
  <2>4. QED
    BY <1>2, <2>2, <2>3 DEF RequestRoom
<1>3. ASSUME NEW p \in Points, WritePoint(p)
      PROVE  TypeOK'
  <2>1. addr + Len(staged) \in Slots
    BY <1>3 DEF WritePoint, GrantInv, GrantFits
  <2>2. buf' \in [Slots -> Points \cup {Blank}]
    BY <1>3, <2>1 DEF WritePoint
  <2>3. staged' \in Seq(Points) /\ Len(staged') = Len(staged) + 1
    BY <1>3 DEF WritePoint
  <2>4. QED
    BY <1>3, <2>2, <2>3 DEF WritePoint
<1>4. CASE Abandon
  BY <1>4 DEF Abandon
<1>5. CASE AdvanceCheck
  BY <1>5 DEF AdvanceCheck
<1>6. CASE AdvanceStore
  <2>1. produce + Len(staged) <= N
    BY <1>6 DEF AdvanceStore, GrantInv, GrantFits
  <2>2. Len(staged) \in Nat
    OBVIOUS
  <2>3. (produce + Len(staged)) % N \in Slots
    BY ONLY TypeOK, <2>1, <2>2, WrapAdd DEF TypeOK
  <2>4. QED
    BY <1>6, <2>3 DEF AdvanceStore
<1>7. CASE PrepareEmpty
  BY <1>7 DEF PrepareEmpty
<1>8. CASE PreparePublish
  BY <1>8 DEF PreparePublish
<1>9. CASE SetRate
  BY <1>9 DEF SetRate
<1>10. CASE NoteRate
  BY <1>10 DEF NoteRate
<1>11. CASE StartPlaying
  BY <1>11 DEF StartPlaying
<1>12. CASE StartIrqDo
  BY <1>12 DEF StartIrqDo
<1>13. CASE ArmTimer
  BY <1>13 DEF ArmTimer
<1>14. CASE ClearMatch
  BY <1>14 DEF ClearMatch
<1>15. CASE EnableFiq
  BY <1>15 DEF EnableFiq
<1>16. CASE ShutterMask
  BY <1>16 DEF ShutterMask
<1>17. CASE ShutterTest
  BY <1>17 DEF ShutterTest
<1>18. CASE ShutterOpen
  BY <1>18 DEF ShutterOpen
<1>19. CASE ShutterUnmask
  BY <1>19 DEF ShutterUnmask
<1>20. CASE StopFiq
  BY <1>20 DEF StopFiq
<1>21. CASE StopShutter
  BY <1>21 DEF StopShutter
<1>22. CASE StopOutputs
  BY <1>22 DEF StopOutputs
<1>23. CASE StopIrqDo
  BY <1>23 DEF StopIrqDo
<1>24. CASE Tick
  BY <1>24 DEF Tick
<1>25. CASE FiqIgnored
  BY <1>25 DEF FiqIgnored, Fiq
<1>26. CASE FiqPlay
  <2>1. consume' \in Slots
    BY <1>26 DEF FiqPlay, Fiq
  <2>2. laser' \in Points \cup {Blank}
    BY <1>26 DEF FiqPlay
  <2>3. QED
    BY <1>26, <2>1, <2>2 DEF FiqPlay, Fiq
<1>27. CASE FiqUnderrun
  BY <1>27 DEF FiqUnderrun, Fiq
<1>28. CASE WatchdogReset
  <2>1. 0 \in Slots /\ <<>> \in Seq(Points) /\ Len(<<>>) = 0
    OBVIOUS
  <2>2. buf' \in [Slots -> Points \cup {Blank}]
    BY <1>28 DEF WatchdogReset
  <2>3. staged' \in Seq(Points) /\ Len(staged') <= room' /\ room' \in 0 .. N
    BY <1>28, <2>1 DEF WatchdogReset
  <2>4. produce' \in Slots /\ consume' \in Slots /\ seen' \in Slots
        /\ addr' \in Slots
    BY <1>28, <2>1 DEF WatchdogReset
  <2>5. QED
    BY <1>28, <2>2, <2>3, <2>4 DEF WatchdogReset
<1>29. CASE UNCHANGED vars
  BY <1>29 DEF vars
<1>30. QED
  BY <1>1, <1>2, <1>3, <1>4, <1>5, <1>6, <1>7, <1>8, <1>9, <1>10,
     <1>11, <1>12, <1>13, <1>14, <1>15, <1>16, <1>17, <1>18, <1>19,
     <1>20, <1>21, <1>22, <1>23, <1>24, <1>25, <1>26, <1>27, <1>28,
     <1>29
     DEF Next, MainStep

--------------------------------------------------------------------------------
(* The producer's grant                                                    *)

\* What dac_request computes from its old copy fits the ring as it is now.
LEMMA RoomFits ==
  ASSUME TypeOK, SeenBehind
  PROVE  /\ produce + RoomAfter(seen) <= N
         /\ Fullness + RoomAfter(seen) < N
<1> USE RingAssumption DEF TypeOK, Slots, SeenBehind, RoomAfter, Fullness
<1>1. CASE seen <= produce
  BY <1>1
<1>2. CASE produce < seen
  BY <1>2
<1>3. QED
  BY <1>1, <1>2

\* The handler plays one point: the ring holds one less, and the index stays
\* between the copy and produce.
LEMMA PlayMovesOn ==
  ASSUME TypeOK, FiqPlay
  PROVE  /\ Fullness' = Fullness - 1
         /\ SeenBehind => SeenBehind'
<1> USE RingAssumption DEF TypeOK, Slots, Fullness, SeenBehind, grant
<1>1. produce' = produce /\ seen' = seen /\ consume # produce
  BY DEF FiqPlay, Fiq
<1>2. CASE consume + 1 = N
  <2>1. consume' = 0
    BY <1>2 DEF FiqPlay
  <2>2. QED
    BY <1>1, <1>2, <2>1
<1>3. CASE consume + 1 # N
  <2>1. consume' = consume + 1
    BY <1>3 DEF FiqPlay
  <2>2. QED
    BY <1>1, <1>3, <2>1
<1>4. QED
  BY <1>2, <1>3

\* No step takes away what the producer was granted.
LEMMA NextGrantInv ==
  ASSUME TypeOK, GrantInv, [Next]_vars
  PROVE  GrantInv'
<1> USE DEF GrantInv, Step, ring, control, output, timer, grant, flow
<1>1. CASE RequestConsume
  <2>1. seen' = consume /\ consume' = consume /\ produce' = produce
        /\ staged' = <<>> /\ pc' = "request"
    BY <1>1 DEF RequestConsume
  <2>2. SeenBehind'
    BY <2>1, RingAssumption DEF SeenBehind, TypeOK, Slots
  <2>3. QED
    BY <2>1, <2>2
<1>2. CASE RequestRoom
  <2>1. CASE pc' = "write"
    <3>1. addr' = produce /\ room' = RoomAfter(seen) /\ produce' = produce
          /\ consume' = consume
      BY <1>2, <2>1 DEF RequestRoom
    <3>2. produce + RoomAfter(seen) <= N /\ Fullness + RoomAfter(seen) < N
      BY <1>2, RoomFits DEF RequestRoom
    <3>3. GrantFits'
      BY <3>1, <3>2 DEF GrantFits, Fullness
    <3>4. QED
      BY <2>1, <3>3
  <2>2. CASE pc' = "idle"
    BY <2>2
  <2>3. QED
    BY <1>2, <2>1, <2>2 DEF RequestRoom
<1>3. ASSUME NEW p \in Points, WritePoint(p)
      PROVE  GrantInv'
  BY <1>3 DEF WritePoint, GrantFits, Fullness, SeenBehind
<1>4. CASE Abandon
  BY <1>4 DEF Abandon
<1>5. CASE AdvanceCheck
  BY <1>5 DEF AdvanceCheck, GrantFits, Fullness, SeenBehind
<1>6. CASE AdvanceStore
  BY <1>6 DEF AdvanceStore
<1>7. CASE PrepareEmpty
  BY <1>7 DEF PrepareEmpty
<1>8. CASE PreparePublish
  BY <1>8 DEF PreparePublish
<1>9. CASE SetRate
  BY <1>9 DEF SetRate
<1>10. CASE NoteRate
  BY <1>10 DEF NoteRate
<1>11. CASE StartPlaying
  BY <1>11 DEF StartPlaying
<1>12. CASE StartIrqDo
  BY <1>12 DEF StartIrqDo
<1>13. CASE ArmTimer
  BY <1>13 DEF ArmTimer
<1>14. CASE ClearMatch
  BY <1>14 DEF ClearMatch
<1>15. CASE EnableFiq
  BY <1>15 DEF EnableFiq, TypeOK
<1>16. CASE ShutterMask
  BY <1>16 DEF ShutterMask
<1>17. CASE ShutterTest
  BY <1>17 DEF ShutterTest
<1>18. CASE ShutterOpen
  BY <1>18 DEF ShutterOpen
<1>19. CASE ShutterUnmask
  BY <1>19 DEF ShutterUnmask
<1>20. CASE StopFiq
  BY <1>20 DEF StopFiq
<1>21. CASE StopShutter
  BY <1>21 DEF StopShutter
<1>22. CASE StopOutputs
  BY <1>22 DEF StopOutputs
<1>23. CASE StopIrqDo
  BY <1>23 DEF StopIrqDo
<1>24. CASE Tick
  BY <1>24 DEF Tick, GrantFits, Fullness, SeenBehind
<1>25. CASE FiqIgnored
  BY <1>25 DEF FiqIgnored, Fiq, GrantFits, Fullness, SeenBehind
<1>26. CASE FiqPlay
  <2>1. Fullness' = Fullness - 1 /\ (SeenBehind => SeenBehind')
    BY <1>26, PlayMovesOn
  <2>2. UNCHANGED <<produce, pc, seen, addr, room, staged>>
    BY <1>26 DEF FiqPlay, Fiq
  <2>3. Fullness \in Int /\ room \in Int /\ N \in Int
    BY RingAssumption DEF TypeOK, Slots, Fullness
  <2>4. GrantFits => GrantFits'
    BY <2>1, <2>2, <2>3 DEF GrantFits
  <2>5. QED
    BY <2>1, <2>2, <2>4
<1>27. CASE FiqUnderrun
  BY <1>27 DEF FiqUnderrun, Fiq, GrantFits, Fullness, SeenBehind
<1>28. CASE WatchdogReset
  BY <1>28 DEF WatchdogReset
<1>29. CASE UNCHANGED vars
  BY <1>29 DEF vars, GrantFits, Fullness, SeenBehind
<1>30. QED
  BY <1>1, <1>2, <1>3, <1>4, <1>5, <1>6, <1>7, <1>8, <1>9, <1>10,
     <1>11, <1>12, <1>13, <1>14, <1>15, <1>16, <1>17, <1>18, <1>19,
     <1>20, <1>21, <1>22, <1>23, <1>24, <1>25, <1>26, <1>27, <1>28,
     <1>29
     DEF Next, MainStep

--------------------------------------------------------------------------------
(* The output                                                              *)

\* No step lights the laser or opens the shutter outside PLAYING.
LEMMA NextOutputInv ==
  ASSUME TypeOK, OutputInv, [Next]_vars
  PROVE  OutputInv'
<1> USE DEF OutputInv, Step, ring, control, output, timer, grant, flow
<1>1. CASE RequestConsume
  BY <1>1 DEF RequestConsume
<1>2. CASE RequestRoom
  BY <1>2 DEF RequestRoom
<1>3. ASSUME NEW p \in Points, WritePoint(p)
      PROVE  OutputInv'
  BY <1>3 DEF WritePoint
<1>4. CASE Abandon
  BY <1>4 DEF Abandon
<1>5. CASE AdvanceCheck
  BY <1>5 DEF AdvanceCheck
<1>6. CASE AdvanceStore
  BY <1>6 DEF AdvanceStore
<1>7. CASE PrepareEmpty
  BY <1>7 DEF PrepareEmpty
<1>8. CASE PreparePublish
  BY <1>8 DEF PreparePublish
<1>9. CASE SetRate
  BY <1>9 DEF SetRate
<1>10. CASE NoteRate
  BY <1>10 DEF NoteRate
<1>11. CASE StartPlaying
  BY <1>11 DEF StartPlaying, TypeOK
<1>12. CASE StartIrqDo
  BY <1>12 DEF StartIrqDo
<1>13. CASE ArmTimer
  BY <1>13 DEF ArmTimer
<1>14. CASE ClearMatch
  BY <1>14 DEF ClearMatch
<1>15. CASE EnableFiq
  BY <1>15 DEF EnableFiq, TypeOK
<1>16. CASE ShutterMask
  BY <1>16 DEF ShutterMask
<1>17. CASE ShutterTest
  BY <1>17 DEF ShutterTest, TypeOK
<1>18. CASE ShutterOpen
  BY <1>18 DEF ShutterOpen
<1>19. CASE ShutterUnmask
  BY <1>19 DEF ShutterUnmask
<1>20. CASE StopFiq
  BY <1>20 DEF StopFiq
<1>21. CASE StopShutter
  BY <1>21 DEF StopShutter
<1>22. CASE StopOutputs
  BY <1>22 DEF StopOutputs
<1>23. CASE StopIrqDo
  BY <1>23 DEF StopIrqDo
<1>24. CASE Tick
  BY <1>24 DEF Tick
<1>25. CASE FiqIgnored
  BY <1>25 DEF FiqIgnored, Fiq
<1>26. CASE FiqPlay
  BY <1>26 DEF FiqPlay, Fiq, FiqTakable, TypeOK
<1>27. CASE FiqUnderrun
  BY <1>27 DEF FiqUnderrun, Fiq, FiqTakable, TypeOK
<1>28. CASE WatchdogReset
  BY <1>28 DEF WatchdogReset
<1>29. CASE UNCHANGED vars
  BY <1>29 DEF vars
<1>30. QED
  BY <1>1, <1>2, <1>3, <1>4, <1>5, <1>6, <1>7, <1>8, <1>9, <1>10,
     <1>11, <1>12, <1>13, <1>14, <1>15, <1>16, <1>17, <1>18, <1>19,
     <1>20, <1>21, <1>22, <1>23, <1>24, <1>25, <1>26, <1>27, <1>28,
     <1>29
     DEF Next, MainStep

--------------------------------------------------------------------------------
(* The tick                                                                *)

\* If no interrupt handler outlasts a point period, no step leaves a playing DAC
\* without its next FIQ.
LEMMA NextTickInv ==
  ASSUME TypeOK, TickInv, ~SlowIrq, [Next]_vars
  PROVE  TickInv'
<1> USE DEF TypeOK, TickInv, PlayingHasTick, FiqTakable, Step, ring, control, output, timer, grant, flow
<1>1. CASE RequestConsume
  BY <1>1 DEF RequestConsume
<1>2. CASE RequestRoom
  BY <1>2 DEF RequestRoom
<1>3. ASSUME NEW p \in Points, WritePoint(p)
      PROVE  TickInv'
  BY <1>3 DEF WritePoint
<1>4. CASE Abandon
  BY <1>4 DEF Abandon
<1>5. CASE AdvanceCheck
  BY <1>5 DEF AdvanceCheck
<1>6. CASE AdvanceStore
  BY <1>6 DEF AdvanceStore
<1>7. CASE PrepareEmpty
  BY <1>7 DEF PrepareEmpty
<1>8. CASE PreparePublish
  BY <1>8 DEF PreparePublish
<1>9. CASE SetRate
  BY <1>9 DEF SetRate
<1>10. CASE NoteRate
  BY <1>10 DEF NoteRate
<1>11. CASE StartPlaying
  BY <1>11 DEF StartPlaying
<1>12. CASE StartIrqDo
  BY <1>12 DEF StartIrqDo
<1>13. CASE ArmTimer
  BY <1>13 DEF ArmTimer
<1>14. CASE ClearMatch
  BY <1>14 DEF ClearMatch
<1>15. CASE EnableFiq
  BY <1>15 DEF EnableFiq
<1>16. CASE ShutterMask
  BY <1>16 DEF ShutterMask
<1>17. CASE ShutterTest
  BY <1>17 DEF ShutterTest
<1>18. CASE ShutterOpen
  BY <1>18 DEF ShutterOpen
<1>19. CASE ShutterUnmask
  BY <1>19 DEF ShutterUnmask
<1>20. CASE StopFiq
  BY <1>20 DEF StopFiq
<1>21. CASE StopShutter
  BY <1>21 DEF StopShutter
<1>22. CASE StopOutputs
  BY <1>22 DEF StopOutputs
<1>23. CASE StopIrqDo
  BY <1>23 DEF StopIrqDo
<1>24. CASE Tick
  BY <1>24 DEF Tick
<1>25. CASE FiqIgnored
  BY <1>25 DEF FiqIgnored, Fiq
<1>26. CASE FiqPlay
  BY <1>26 DEF FiqPlay, Fiq
<1>27. CASE FiqUnderrun
  BY <1>27 DEF FiqUnderrun, Fiq
<1>28. CASE WatchdogReset
  BY <1>28 DEF WatchdogReset
<1>29. CASE UNCHANGED vars
  BY <1>29 DEF vars
<1>30. QED
  BY <1>1, <1>2, <1>3, <1>4, <1>5, <1>6, <1>7, <1>8, <1>9, <1>10,
     <1>11, <1>12, <1>13, <1>14, <1>15, <1>16, <1>17, <1>18, <1>19,
     <1>20, <1>21, <1>22, <1>23, <1>24, <1>25, <1>26, <1>27, <1>28,
     <1>29
     DEF Next, MainStep

--------------------------------------------------------------------------------
(* The theorems                                                            *)

\* The grant as a count says which slots are free.
LEMMA FitsIsFree ==
  ASSUME TypeOK, GrantFits, NEW s \in addr .. addr + room - 1
  PROVE  ~Unread(s)
BY RingAssumption DEF TypeOK, Slots, GrantFits, Fullness, Unread

\* A grant that fits the ring is one the producer owns, slot by slot.
LEMMA GrantImpliesOwns == TypeOK /\ GrantInv => WriterOwnsGrant
<1> SUFFICES ASSUME TypeOK, GrantInv, pc \in {"write", "advance"}
             PROVE  /\ addr + room <= N
                    /\ \A s \in addr .. addr + room - 1 : ~Unread(s)
                    /\ Fullness + room < N
  BY DEF WriterOwnsGrant
<1>1. GrantFits
  BY DEF GrantInv
<1>2. QED
  BY <1>1, FitsIsFree DEF GrantFits

\* After reset nothing is granted, the outputs are off and no FIQ is due.
LEMMA InitInv == Init => Inv /\ TickInv
<1> SUFFICES ASSUME Init
             PROVE  Inv /\ TickInv
  OBVIOUS
<1>1. TypeOK
  BY InitTypeOK
<1>2. GrantInv /\ OutputInv /\ TickInv
  BY DEF Init, GrantInv, OutputInv, TickInv, PlayingHasTick
<1>3. QED
  BY <1>1, <1>2 DEF Inv

\* Inv holds in every reachable state (its parts are preserved one by one).
THEOREM Invariance == Spec => []Inv
<1>1. Init => Inv
  BY InitInv
<1>2. Inv /\ [Next]_vars => Inv'
  BY NextTypeOK, NextGrantInv, NextOutputInv DEF Inv
<1>3. QED
  BY <1>1, <1>2, PTL DEF Spec

\* The driver's variables keep their ranges for every ring size.
THEOREM TypeCorrect == Spec => []TypeOK
<1>1. Inv => TypeOK
  BY DEF Inv
<1>2. QED
  BY <1>1, Invariance, PTL

\* dac_request and dac_advance: whatever the FIQ consumes between the copy of
\* consume and the store to produce, the producer never writes a slot the FIQ has
\* yet to read, never runs past the buffer and never makes a full ring look empty.
THEOREM ProducerOwnsItsGrant == Spec => []WriterOwnsGrant
<1>1. Inv => WriterOwnsGrant
  BY GrantImpliesOwns DEF Inv
<1>2. QED
  BY <1>1, Invariance, PTL

\* dac_start, dac_stop, shutter_set and the underrun stop: the output is dark and
\* the shutter shut whenever the driver is not PLAYING.
THEOREM OutputIsSafe == Spec => []LaserSafe
<1>1. Inv => LaserSafe
  BY DEF Inv, OutputInv, LaserSafe
<1>2. QED
  BY <1>1, Invariance, PTL

\* fiq_init: with interrupt handlers shorter than a point period, a playing DAC
\* always has its next tick coming.
THEOREM TickIsPending == ~SlowIrq /\ Spec => []PlayingHasTick
<1> SUFFICES ASSUME ~SlowIrq
             PROVE  Spec => []PlayingHasTick
  OBVIOUS
<1>1. Init => TypeOK /\ GrantInv /\ TickInv
  BY InitInv DEF Inv
<1>2. (TypeOK /\ GrantInv /\ TickInv) /\ [Next]_vars
        => (TypeOK /\ GrantInv /\ TickInv)'
  BY NextTypeOK, NextGrantInv, NextTickInv
<1>3. TickInv => PlayingHasTick
  BY DEF TickInv
<1>4. QED
  BY <1>1, <1>2, <1>3, PTL DEF Spec

--------------------------------------------------------------------------------
(* The ring as a stream                                                    *)

\* What the main loop has written but not committed lies where it was told to
\* write it, and dac_prepare publishes an empty ring.
StagedInv ==
  /\ pc \in {"write", "advance"} =>
       \A i \in 1 .. Len(staged) : buf[addr + i - 1] = staged[i]
  /\ pc = "advance" => staged # <<>>
  /\ pc = "prepare" => produce = consume

StreamInv == Inv /\ StagedInv

--------------------------------------------------------------------------------
(* Slots                                                                   *)

\* The slot k places behind consume, without the remainder.
SlotAt(c, k) == IF c + k < N THEN c + k ELSE c + k - N

\* The remainder of a sum of two indices takes the buffer's length off at most
\* once.
LEMMA SlotAtIsMod ==
  ASSUME NEW c \in Slots, NEW k \in Slots
  PROVE  /\ (c + k) % N = SlotAt(c, k)
         /\ SlotAt(c, k) \in Slots
<1>1. N \in Nat /\ N > 1 /\ c \in Nat /\ k \in Nat /\ c < N /\ k < N
  BY RingAssumption DEF Slots
<1>2. CASE c + k < N
  <2>1. (c + k) % N = c + k
    BY <1>1, <1>2
  <2>2. QED
    BY <1>1, <1>2, <2>1 DEF SlotAt, Slots
<1>3. CASE c + k >= N
  <2>1. PICK r \in Nat : r = c + k - N
    BY <1>1, <1>3
  <2>2. r < N /\ c + k = N + r
    BY <1>1, <2>1
  <2>3. (N + r) % N = r
    BY <1>1, <2>1, <2>2
  <2>4. QED
    BY <1>1, <1>3, <2>1, <2>2, <2>3 DEF SlotAt, Slots
<1>4. QED
  BY <1>1, <1>2, <1>3

\* The queue has Fullness elements; they lie in the slots from consume on.
QueueInRing ==
  /\ Fullness \in Slots
  /\ Queue \in Seq(Points \cup {Blank})
  /\ Len(Queue) = Fullness
  /\ \A i \in 1 .. Fullness : Queue[i] = buf[SlotAt(consume, i - 1)]

\* That is the queue of every driver that is not idle.
LEMMA QueueIs == TypeOK /\ state # "IDLE" => QueueInRing
<1> SUFFICES ASSUME TypeOK, state # "IDLE"
             PROVE  QueueInRing
  OBVIOUS
<1>1. Fullness \in Slots
  BY RingAssumption DEF TypeOK, Slots, Fullness
<1>2. \A i \in 1 .. Fullness :
        /\ i - 1 \in Slots
        /\ (consume + i) - 1 = consume + (i - 1)
  BY <1>1, RingAssumption DEF TypeOK, Slots
<1>3. \A i \in 1 .. Fullness :
        /\ (consume + i - 1) % N = SlotAt(consume, i - 1)
        /\ SlotAt(consume, i - 1) \in Slots
  BY <1>2, SlotAtIsMod DEF TypeOK
<1>4. Queue = [i \in 1 .. Fullness |-> buf[SlotAt(consume, i - 1)]]
  BY <1>3 DEF Queue
<1>5. \A i \in 1 .. Fullness :
        buf[SlotAt(consume, i - 1)] \in Points \cup {Blank}
  BY <1>3 DEF TypeOK
<1>6. Fullness \in Nat
  BY <1>1, RingAssumption DEF Slots
<1>7. QED
  BY <1>1, <1>4, <1>5, <1>6 DEF QueueInRing

--------------------------------------------------------------------------------
(* The written points and the empty ring                                   *)

\* One step keeps what is written but not committed in place; only the main loop
\* writes, and the FIQ does not play between dac_prepare's stores.
LEMMA NextStagedInv ==
  ASSUME StreamInv, [Next]_vars
  PROVE  StagedInv'
<1> USE DEF StreamInv, StagedInv, Inv, Step, ring, control, output, timer,
            grant, flow
<1>1. CASE RequestConsume
  BY <1>1 DEF RequestConsume
<1>2. CASE RequestRoom
  BY <1>2 DEF RequestRoom, GrantInv
<1>3. ASSUME NEW p \in Points, WritePoint(p)
      PROVE  StagedInv'
  <2>1. staged \in Seq(Points) /\ addr \in Nat /\ room \in Nat
    BY RingAssumption DEF TypeOK, Slots
  <2>2. /\ Len(staged') = Len(staged) + 1
        /\ staged'[Len(staged) + 1] = p
        /\ \A i \in 1 .. Len(staged) : staged'[i] = staged[i]
    BY <1>3, <2>1 DEF WritePoint
  <2>3. addr + Len(staged) \in Slots
    BY <1>3, RingAssumption DEF WritePoint, GrantInv, GrantFits, TypeOK, Slots
  <2>4. /\ buf'[addr + Len(staged)] = p
        /\ \A i \in 1 .. Len(staged) : buf'[addr + i - 1] = buf[addr + i - 1]
    BY <1>3, <2>1, <2>3 DEF WritePoint, TypeOK
  <2>5. ASSUME NEW i \in 1 .. Len(staged')
        PROVE  buf'[addr + i - 1] = staged'[i]
    <3>1. CASE i = Len(staged) + 1
      <4>1. addr + i - 1 = addr + Len(staged)
        BY <2>1, <3>1
      <4>2. QED
        BY <2>2, <2>4, <3>1, <4>1
    <3>2. CASE i \in 1 .. Len(staged)
      BY <1>3, <2>2, <2>4, <3>2 DEF WritePoint
    <3>3. QED
      BY <2>1, <2>2, <3>1, <3>2
  <2>6. addr' = addr /\ pc' = "write"
    BY <1>3 DEF WritePoint
  <2>7. QED
    BY <2>5, <2>6
<1>4. CASE Abandon
  BY <1>4 DEF Abandon
<1>5. CASE AdvanceCheck
  BY <1>5 DEF AdvanceCheck
<1>6. CASE AdvanceStore
  BY <1>6 DEF AdvanceStore
<1>7. CASE PrepareEmpty
  BY <1>7 DEF PrepareEmpty
<1>8. CASE PreparePublish
  BY <1>8 DEF PreparePublish
<1>9. CASE SetRate
  BY <1>9 DEF SetRate
<1>10. CASE NoteRate
  BY <1>10 DEF NoteRate
<1>11. CASE StartPlaying
  BY <1>11 DEF StartPlaying
<1>12. CASE StartIrqDo
  BY <1>12 DEF StartIrqDo
<1>13. CASE ArmTimer
  BY <1>13 DEF ArmTimer
<1>14. CASE ClearMatch
  BY <1>14 DEF ClearMatch
<1>15. CASE EnableFiq
  BY <1>15 DEF EnableFiq, TypeOK
<1>16. CASE ShutterMask
  BY <1>16 DEF ShutterMask
<1>17. CASE ShutterTest
  BY <1>17 DEF ShutterTest
<1>18. CASE ShutterOpen
  BY <1>18 DEF ShutterOpen
<1>19. CASE ShutterUnmask
  BY <1>19 DEF ShutterUnmask
<1>20. CASE StopFiq
  BY <1>20 DEF StopFiq
<1>21. CASE StopShutter
  BY <1>21 DEF StopShutter
<1>22. CASE StopOutputs
  BY <1>22 DEF StopOutputs
<1>23. CASE StopIrqDo
  BY <1>23 DEF StopIrqDo
<1>24. CASE Tick
  BY <1>24 DEF Tick
<1>25. CASE FiqIgnored
  BY <1>25 DEF FiqIgnored, Fiq
<1>26. CASE FiqPlay
  BY <1>26 DEF FiqPlay, Fiq, OutputInv
<1>27. CASE FiqUnderrun
  BY <1>27 DEF FiqUnderrun, Fiq
<1>28. CASE WatchdogReset
  BY <1>28 DEF WatchdogReset
<1>29. CASE UNCHANGED vars
  BY <1>29 DEF vars
<1>30. QED
  BY <1>1, <1>2, <1>3, <1>4, <1>5, <1>6, <1>7, <1>8, <1>9, <1>10,
     <1>11, <1>12, <1>13, <1>14, <1>15, <1>16, <1>17, <1>18, <1>19, <1>20,
     <1>21, <1>22, <1>23, <1>24, <1>25, <1>26, <1>27, <1>28, <1>29
     DEF Next, MainStep

--------------------------------------------------------------------------------
(* The steps                                                               *)

\* A step that changes neither the ring nor the state changes no queue.
LEMMA QueueKept ==
  ASSUME UNCHANGED <<produce, consume, buf, state>>
  PROVE  Queue' = Queue
BY DEF Queue, Fullness

\* Storing a point in the grant touches no slot of the queue.
LEMMA WriteKeepsQueue ==
  ASSUME StreamInv, NEW p \in Points, WritePoint(p)
  PROVE  Queue' = Queue
<1>1. TypeOK /\ GrantFits /\ Len(staged) < room /\ Len(staged) \in Nat
  BY DEF StreamInv, Inv, GrantInv, WritePoint, Step, TypeOK
<1>2. /\ UNCHANGED <<produce, consume, state>>
      /\ buf' = [buf EXCEPT ![addr + Len(staged)] = p]
  BY DEF WritePoint, control
<1>3. CASE state = "IDLE"
  BY <1>2, <1>3 DEF Queue
<1>4. CASE state # "IDLE"
  <2>1. Fullness' = Fullness /\ Fullness \in Slots
    BY <1>1, <1>2, <1>4, QueueIs DEF Fullness, QueueInRing
  <2>2. ASSUME NEW i \in 1 .. Fullness
        PROVE  buf'[(consume + i - 1) % N] = buf[(consume + i - 1) % N]
    <3>1. i - 1 \in Slots /\ consume \in Slots /\ i - 1 < Fullness
          /\ (consume + i) - 1 = consume + (i - 1)
      BY <1>1, <2>1, RingAssumption DEF TypeOK, Slots
    <3>2. (consume + i - 1) % N = SlotAt(consume, i - 1)
          /\ SlotAt(consume, i - 1) \in Slots
      BY <3>1, SlotAtIsMod
    <3>3. SlotAt(consume, i - 1) # addr + Len(staged)
      BY <1>1, <3>1, RingAssumption
         DEF SlotAt, GrantFits, Fullness, TypeOK, Slots
    <3>4. QED
      BY <1>1, <1>2, <3>2, <3>3 DEF TypeOK
  <2>3. QED
    BY <1>2, <1>4, <2>1, <2>2 DEF Queue
<1>5. QED
  BY <1>3, <1>4

\* The store to produce appends the staged points to the queue.
LEMMA AdvanceAppends ==
  ASSUME StreamInv, AdvanceStore, state # "IDLE"
  PROVE  /\ Len(Queue) + Len(staged) <= N - 1
         /\ Queue' = Queue \o SubSeq(staged, 1, Len(staged))
<1>1. /\ TypeOK /\ GrantFits /\ Len(staged) <= room /\ Len(staged) \in Nat
      /\ staged \in Seq(Points)
      /\ \A i \in 1 .. Len(staged) : buf[addr + i - 1] = staged[i]
  BY DEF StreamInv, StagedInv, Inv, GrantInv, AdvanceStore, Step, TypeOK
<1>2. /\ UNCHANGED <<consume, buf, state>>
      /\ produce' = (produce + Len(staged)) % N
  BY DEF AdvanceStore, control
<1>3. TypeOK' /\ state' # "IDLE"
  <2>1. [Next]_vars
    BY DEF Next, MainStep
  <2>2. QED
    BY <1>2, <2>1, NextTypeOK DEF StreamInv, Inv
<1>4. /\ Fullness \in Slots /\ Queue \in Seq(Points \cup {Blank})
      /\ Len(Queue) = Fullness
      /\ \A i \in 1 .. Fullness : Queue[i] = buf[SlotAt(consume, i - 1)]
  BY <1>1, QueueIs DEF QueueInRing
<1>5. /\ Fullness' \in Slots /\ Queue' \in Seq(Points \cup {Blank})
      /\ Len(Queue') = Fullness'
      /\ \A i \in 1 .. Fullness' : Queue'[i] = buf'[SlotAt(consume', i - 1)]
  <2>1. (TypeOK /\ state # "IDLE" => QueueInRing)'
    BY QueueIs, PTL
  <2>2. QED
    BY <1>3, <2>1 DEF QueueInRing, SlotAt
<1>6. produce' = IF produce + Len(staged) = N THEN 0 ELSE produce + Len(staged)
  <2>1. produce \in Slots /\ produce + Len(staged) <= N
    BY <1>1, RingAssumption DEF GrantFits, TypeOK, Slots
  <2>2. QED
    BY <1>1, <1>2, <2>1, WrapAdd
<1>7. Fullness' = Fullness + Len(staged)
  <2>1. /\ N \in Nat /\ produce \in Nat /\ consume \in Nat /\ room \in Nat
        /\ produce < N /\ consume < N /\ consume' = consume
        /\ produce + Len(staged) <= N /\ Fullness + Len(staged) < N
    <3>1. /\ N \in Nat /\ produce \in Nat /\ consume \in Nat /\ room \in Nat
          /\ produce < N /\ consume < N /\ consume' = consume
      BY <1>1, <1>2, RingAssumption DEF TypeOK, Slots
    <3>2. addr = produce /\ addr + room <= N /\ Fullness + room < N
      BY <1>1 DEF GrantFits
    <3>3. Len(staged) \in Nat /\ Len(staged) <= room /\ Fullness \in Int
      BY <1>1, <1>4 DEF Slots
    <3>4. QED
      BY <3>1, <3>2, <3>3
  <2>2. CASE produce + Len(staged) = N
    BY <1>1, <1>6, <2>1, <2>2 DEF Fullness
  <2>3. CASE produce + Len(staged) # N
    BY <1>1, <1>6, <2>1, <2>3 DEF Fullness
  <2>4. QED
    BY <2>2, <2>3
<1>8. SubSeq(staged, 1, Len(staged)) = staged
  BY <1>1
<1>9. ASSUME NEW i \in 1 .. Fullness'
      PROVE  Queue'[i] = (Queue \o staged)[i]
  <2>1. CASE i \in 1 .. Fullness
    BY <1>1, <1>2, <1>4, <1>5, <1>9, <2>1
  <2>2. CASE i \in Fullness + 1 .. Fullness + Len(staged)
    <3>1. SlotAt(consume, i - 1) = addr + (i - Fullness) - 1
      BY <1>1, <1>4, <2>2, RingAssumption
         DEF SlotAt, Fullness, GrantFits, TypeOK, Slots
    <3>2. i - Fullness \in 1 .. Len(staged)
      BY <1>1, <1>4, <2>2, RingAssumption DEF Slots
    <3>3. buf[SlotAt(consume, i - 1)] = staged[i - Fullness]
      BY <1>1, <3>1, <3>2
    <3>4. (Queue \o staged)[i] = staged[i - Fullness]
      BY <1>1, <1>4, <2>2, RingAssumption DEF Slots
    <3>5. QED
      BY <1>2, <1>5, <1>9, <3>3, <3>4
  <2>3. QED
    BY <1>1, <1>4, <1>7, <2>1, <2>2, RingAssumption DEF Slots
<1>10. Queue \o staged \in Seq(Points \cup {Blank})
       /\ Len(Queue \o staged) = Fullness + Len(staged)
  <2>1. staged \in Seq(Points \cup {Blank})
    BY <1>1
  <2>2. QED
    BY <1>4, <2>1, ConcatProperties
<1>11. Queue' = Queue \o staged
  BY <1>5, <1>7, <1>9, <1>10, SeqEqual
<1>12. Len(Queue) + Len(staged) <= N - 1
  BY <1>1, <1>4, RingAssumption DEF GrantFits, TypeOK, Slots
<1>13. QED
  BY <1>8, <1>11, <1>12

\* The handler takes the oldest point off the queue.
LEMMA PlayTakesHead ==
  ASSUME StreamInv, FiqPlay
  PROVE  /\ state = "PLAYING" /\ state' = state
         /\ Queue # <<>>
         /\ laser' = Head(Queue)
         /\ Queue' = Tail(Queue)
<1>1. TypeOK /\ state = "PLAYING"
  BY DEF StreamInv, Inv, OutputInv, FiqPlay, Fiq, FiqTakable
<1>2. /\ UNCHANGED <<produce, buf, state>>
      /\ consume # produce
      /\ laser' = buf[consume]
      /\ consume' = IF consume + 1 = N THEN 0 ELSE consume + 1
  BY DEF FiqPlay, Fiq, control
<1>3. TypeOK'
  <2>1. [Next]_vars
    BY DEF Next
  <2>2. QED
    BY <2>1, NextTypeOK DEF StreamInv, Inv
<1>4. /\ Fullness \in Slots /\ Queue \in Seq(Points \cup {Blank})
      /\ Len(Queue) = Fullness
      /\ \A i \in 1 .. Fullness : Queue[i] = buf[SlotAt(consume, i - 1)]
  BY <1>1, QueueIs DEF QueueInRing
<1>5. /\ Fullness' \in Slots /\ Queue' \in Seq(Points \cup {Blank})
      /\ Len(Queue') = Fullness'
      /\ \A i \in 1 .. Fullness' : Queue'[i] = buf'[SlotAt(consume', i - 1)]
  <2>1. (TypeOK /\ state # "IDLE" => QueueInRing)'
    BY QueueIs, PTL
  <2>2. QED
    BY <1>1, <1>2, <1>3, <2>1 DEF QueueInRing, SlotAt
<1>6. Fullness' = Fullness - 1
  BY <1>1, PlayMovesOn
<1>7. Fullness \in Nat /\ Fullness >= 1
  BY <1>4, <1>5, <1>6, RingAssumption DEF Slots
<1>8. /\ Queue # <<>> /\ Head(Queue) = Queue[1]
      /\ Tail(Queue) \in Seq(Points \cup {Blank})
      /\ Len(Tail(Queue)) = Fullness - 1
      /\ \A i \in 1 .. Fullness - 1 : Tail(Queue)[i] = Queue[i + 1]
  BY <1>4, <1>7
<1>9. SlotAt(consume, 0) = consume
  BY <1>1, RingAssumption DEF SlotAt, TypeOK, Slots
<1>10. ASSUME NEW i \in 1 .. Fullness - 1
       PROVE  Queue'[i] = Tail(Queue)[i]
  <2>1. i \in 1 .. Fullness' /\ i + 1 \in 1 .. Fullness /\ (i + 1) - 1 = i
    BY <1>6, <1>7
  <2>2. SlotAt(consume', i - 1) = SlotAt(consume, i)
    BY <1>1, <1>2, <1>4, <2>1, RingAssumption DEF SlotAt, TypeOK, Slots
  <2>3. QED
    BY <1>2, <1>4, <1>5, <1>8, <2>1, <2>2
<1>11. Queue' = Tail(Queue)
  BY <1>5, <1>6, <1>8, <1>10, SeqEqual
<1>12. QED
  BY <1>1, <1>2, <1>4, <1>7, <1>8, <1>9, <1>11

--------------------------------------------------------------------------------
(* The refinement                                                          *)

\* The reset state is the empty stream.
LEMMA InitStream == Init => StreamInv /\ Stream!Init
<1> SUFFICES ASSUME Init
             PROVE  StreamInv /\ Stream!Init
  OBVIOUS
<1>1. Inv
  BY InitInv
<1>2. StagedInv
  BY DEF Init, StagedInv
<1>3. Stream!Init
  BY DEF Init, Stream!Init, Queue
<1>4. QED
  BY <1>1, <1>2, <1>3 DEF StreamInv

\* Every step of the driver, of its caller and of the FIQ is a step of the stream
\* or leaves it alone.
LEMMA NextStream ==
  ASSUME StreamInv, [Next]_vars
  PROVE  [Stream!Next]_Stream!streamVars
<1> USE DEF Stream!streamVars, Step, ring, control, output, grant
<1>1. CASE RequestConsume
  <2>1. UNCHANGED <<state, laser, shutter>> /\ staged' = <<>>
    BY <1>1 DEF RequestConsume
  <2>2. Queue' = Queue
    BY <1>1, QueueKept DEF RequestConsume
  <2>3. CASE staged = <<>>
    BY <2>1, <2>2, <2>3
  <2>4. CASE staged # <<>>
    <3>1. Stream!Forget
      BY <2>1, <2>2, <2>4 DEF Stream!Forget
    <3>2. QED
      BY <3>1 DEF Stream!Next
  <2>5. QED
    BY <2>3, <2>4
<1>2. CASE RequestRoom
  BY <1>2, QueueKept DEF RequestRoom
<1>3. ASSUME NEW p \in Points, WritePoint(p)
      PROVE  Stream!Next
  <2>1. Queue' = Queue
    BY <1>3, WriteKeepsQueue
  <2>2. Stream!Stage
    BY <1>3, <2>1 DEF WritePoint, Stream!Stage
  <2>3. QED
    BY <2>2 DEF Stream!Next
<1>4. CASE Abandon
  BY <1>4, QueueKept DEF Abandon
<1>5. CASE AdvanceCheck
  BY <1>5, QueueKept DEF AdvanceCheck
<1>6. CASE AdvanceStore
  <2>1. /\ UNCHANGED <<state, laser, shutter>> /\ staged' = <<>>
        /\ Len(staged) \in 1 .. Len(staged)
    BY <1>6 DEF AdvanceStore, StreamInv, StagedInv, Inv, TypeOK
  <2>2. CASE state = "IDLE"
    <3>1. Queue' = Queue
      BY <2>1, <2>2 DEF Queue
    <3>2. QED
      BY <2>1, <2>2, <3>1 DEF Stream!Commit, Stream!Next
  <2>3. CASE state # "IDLE"
    <3>1. /\ Len(Queue) + Len(staged) <= N - 1
          /\ Queue' = Queue \o SubSeq(staged, 1, Len(staged))
      BY <1>6, <2>3, AdvanceAppends
    <3>2. QED
      BY <2>1, <2>3, <3>1 DEF Stream!Commit, Stream!Next
  <2>4. QED
    BY <2>2, <2>3
<1>7. CASE PrepareEmpty
  <2>1. UNCHANGED <<state, laser, shutter>> /\ staged' = <<>>
    BY <1>7 DEF PrepareEmpty
  <2>2. Queue' = Queue
    BY <1>7 DEF PrepareEmpty, Queue
  <2>3. CASE staged = <<>>
    BY <2>1, <2>2, <2>3
  <2>4. CASE staged # <<>>
    <3>1. Stream!Forget
      BY <2>1, <2>2, <2>4 DEF Stream!Forget
    <3>2. QED
      BY <3>1 DEF Stream!Next
  <2>5. QED
    BY <2>3, <2>4
<1>8. CASE PreparePublish
  <2>1. /\ state = "IDLE" /\ state' = "PREPARED"
        /\ produce = consume /\ consume \in Slots
        /\ UNCHANGED <<produce, consume, buf, laser, shutter, staged>>
    BY <1>8 DEF PreparePublish, StreamInv, StagedInv, Inv, OutputInv, TypeOK
  <2>2. Fullness' = 0
    BY <2>1, RingAssumption DEF Fullness, Slots
  <2>3. Queue = <<>> /\ Queue' = <<>>
    BY <2>1, <2>2 DEF Queue
  <2>4. Stream!Prepare
    BY <2>1, <2>3 DEF Stream!Prepare
  <2>5. QED
    BY <2>4 DEF Stream!Next
<1>9. CASE SetRate
  BY <1>9, QueueKept DEF SetRate
<1>10. CASE NoteRate
  BY <1>10, QueueKept DEF NoteRate
<1>11. CASE StartPlaying
  <2>1. Queue' = Queue
    BY <1>11 DEF StartPlaying, Queue, Fullness
  <2>2. Stream!Start
    BY <1>11, <2>1 DEF StartPlaying, Stream!Start
  <2>3. QED
    BY <2>2 DEF Stream!Next
<1>12. CASE StartIrqDo
  BY <1>12, QueueKept DEF StartIrqDo
<1>13. CASE ArmTimer
  BY <1>13, QueueKept DEF ArmTimer
<1>14. CASE ClearMatch
  BY <1>14, QueueKept DEF ClearMatch
<1>15. CASE EnableFiq
  BY <1>15, QueueKept DEF EnableFiq
<1>16. CASE ShutterMask
  BY <1>16, QueueKept DEF ShutterMask
<1>17. CASE ShutterTest
  BY <1>17, QueueKept DEF ShutterTest
<1>18. CASE ShutterOpen
  <2>1. Queue' = Queue /\ state = "PLAYING"
    BY <1>18, QueueKept DEF ShutterOpen, StreamInv, Inv, OutputInv
  <2>2. Stream!OpenShutter
    BY <1>18, <2>1 DEF ShutterOpen, Stream!OpenShutter
  <2>3. QED
    BY <2>2 DEF Stream!Next
<1>19. CASE ShutterUnmask
  BY <1>19, QueueKept DEF ShutterUnmask
<1>20. CASE StopFiq
  BY <1>20, QueueKept DEF StopFiq
<1>21. CASE StopShutter
  <2>1. Queue' = Queue
    BY <1>21, QueueKept DEF StopShutter
  <2>2. Stream!CloseShutter
    BY <1>21, <2>1 DEF StopShutter, Stream!CloseShutter
  <2>3. QED
    BY <2>2 DEF Stream!Next
<1>22. CASE StopOutputs
  <2>1. Queue' = <<>> /\ shutter' = FALSE
    BY <1>22 DEF StopOutputs, Queue, StreamInv, Inv, OutputInv, TypeOK
  <2>2. Stream!Stop
    BY <1>22, <2>1 DEF StopOutputs, Stream!Stop
  <2>3. QED
    BY <2>2 DEF Stream!Next
<1>23. CASE StopIrqDo
  BY <1>23, QueueKept DEF StopIrqDo
<1>24. CASE Tick
  BY <1>24, QueueKept DEF Tick
<1>25. CASE FiqIgnored
  BY <1>25, QueueKept DEF FiqIgnored, Fiq
<1>26. CASE FiqPlay
  <2>1. /\ state = "PLAYING" /\ state' = state /\ Queue # <<>>
        /\ laser' = Head(Queue) /\ Queue' = Tail(Queue)
    BY <1>26, PlayTakesHead
  <2>2. Stream!Play
    BY <1>26, <2>1 DEF FiqPlay, Fiq, Stream!Play
  <2>3. QED
    BY <2>2 DEF Stream!Next
<1>27. CASE FiqUnderrun
  <2>1. Queue' = <<>>
    BY <1>27 DEF FiqUnderrun, Queue
  <2>2. Stream!Stop
    BY <1>27, <2>1 DEF FiqUnderrun, Fiq, Stream!Stop
  <2>3. QED
    BY <2>2 DEF Stream!Next
<1>28. CASE WatchdogReset
  <2>1. Queue' = <<>>
    BY <1>28 DEF WatchdogReset, Queue
  <2>2. Stream!Restart
    BY <1>28, <2>1 DEF WatchdogReset, Stream!Restart
  <2>3. QED
    BY <2>2 DEF Stream!Next
<1>29. CASE UNCHANGED vars
  BY <1>29, QueueKept DEF vars
<1>30. QED
  BY <1>1, <1>2, <1>3, <1>4, <1>5, <1>6, <1>7, <1>8, <1>9, <1>10,
     <1>11, <1>12, <1>13, <1>14, <1>15, <1>16, <1>17, <1>18, <1>19, <1>20,
     <1>21, <1>22, <1>23, <1>24, <1>25, <1>26, <1>27, <1>28, <1>29
     DEF Next, MainStep

\* dac_request, dac_advance, dac_prepare, dac_start, dac_stop, the handler and
\* the underrun stop: for every ring size, what the caller hands over comes out
\* once, in order, only while PLAYING, and no more is queued than the ring holds.
THEOREM RingIsAStream == Spec => ImplementsStream
<1>1. Init => StreamInv /\ Stream!Init
  BY InitStream
<1>2. StreamInv /\ [Next]_vars => StreamInv'
  BY NextTypeOK, NextGrantInv, NextOutputInv, NextStagedInv DEF StreamInv, Inv
<1>3. StreamInv /\ [Next]_vars => [Stream!Next]_Stream!streamVars
  BY NextStream
<1>4. QED
  BY <1>1, <1>2, <1>3, PTL DEF Spec, ImplementsStream, Stream!Spec

--------------------------------------------------------------------------------
(* The driver and its producer                                             *)

\* Nothing was played before dac_start, so a prepared ring, and the copy of
\* consume that dac_request made of it, start at 0.
UnplayedInv ==
  /\ state = "PREPARED" \/ pc = "prepare" => consume = 0
  /\ state = "PREPARED" /\ pc = "request" => seen = 0

\* Only the handler moves consume, and it plays only in PLAYING.
LEMMA NextUnplayedInv ==
  ASSUME Inv, UnplayedInv, [Next]_vars
  PROVE  UnplayedInv'
<1> USE DEF Inv, UnplayedInv, Step, ring, control, output, timer, grant, flow
<1>1. CASE RequestConsume
  BY <1>1 DEF RequestConsume
<1>2. CASE RequestRoom
  BY <1>2 DEF RequestRoom
<1>3. ASSUME NEW p \in Points, WritePoint(p)
      PROVE  UnplayedInv'
  BY <1>3 DEF WritePoint
<1>4. CASE Abandon
  BY <1>4 DEF Abandon
<1>5. CASE AdvanceCheck
  BY <1>5 DEF AdvanceCheck
<1>6. CASE AdvanceStore
  BY <1>6 DEF AdvanceStore
<1>7. CASE PrepareEmpty
  BY <1>7 DEF PrepareEmpty
<1>8. CASE PreparePublish
  BY <1>8 DEF PreparePublish
<1>9. CASE SetRate
  BY <1>9 DEF SetRate
<1>10. CASE NoteRate
  BY <1>10 DEF NoteRate
<1>11. CASE StartPlaying
  BY <1>11 DEF StartPlaying
<1>12. CASE StartIrqDo
  BY <1>12 DEF StartIrqDo
<1>13. CASE ArmTimer
  BY <1>13 DEF ArmTimer
<1>14. CASE ClearMatch
  BY <1>14 DEF ClearMatch
<1>15. CASE EnableFiq
  BY <1>15 DEF EnableFiq, TypeOK
<1>16. CASE ShutterMask
  BY <1>16 DEF ShutterMask
<1>17. CASE ShutterTest
  BY <1>17 DEF ShutterTest
<1>18. CASE ShutterOpen
  BY <1>18 DEF ShutterOpen
<1>19. CASE ShutterUnmask
  BY <1>19 DEF ShutterUnmask
<1>20. CASE StopFiq
  BY <1>20 DEF StopFiq
<1>21. CASE StopShutter
  BY <1>21 DEF StopShutter
<1>22. CASE StopOutputs
  BY <1>22 DEF StopOutputs
<1>23. CASE StopIrqDo
  BY <1>23 DEF StopIrqDo
<1>24. CASE Tick
  BY <1>24 DEF Tick
<1>25. CASE FiqIgnored
  BY <1>25 DEF FiqIgnored, Fiq
<1>26. CASE FiqPlay
  BY <1>26 DEF FiqPlay, Fiq, FiqTakable, OutputInv
<1>27. CASE FiqUnderrun
  BY <1>27 DEF FiqUnderrun, Fiq
<1>28. CASE WatchdogReset
  BY <1>28 DEF WatchdogReset
<1>29. CASE UNCHANGED vars
  BY <1>29 DEF vars
<1>30. QED
  BY <1>1, <1>2, <1>3, <1>4, <1>5, <1>6, <1>7, <1>8, <1>9, <1>10,
     <1>11, <1>12, <1>13, <1>14, <1>15, <1>16, <1>17, <1>18, <1>19, <1>20,
     <1>21, <1>22, <1>23, <1>24, <1>25, <1>26, <1>27, <1>28, <1>29
     DEF Next, MainStep

\* What the levels of a driver that is not idle are.
LEMMA LevelIsFullness ==
  ASSUME TypeOK
  PROVE  /\ Fullness \in 0 .. N - 1
         /\ (Fullness = 0) <=> (produce = consume)
BY RingAssumption DEF TypeOK, Slots, Fullness

\* The grant of a prepared ring is all the room there is.
LEMMA PreparedRoom ==
  ASSUME TypeOK, consume = 0, seen = 0
  PROVE  RoomAfter(seen) = N - 1 - Fullness
BY RingAssumption DEF TypeOK, Slots, Fullness, RoomAfter

\* The store to produce raises the level by what was written.
LEMMA AdvanceFills ==
  ASSUME StreamInv, AdvanceStore, state # "IDLE"
  PROVE  Fullness' = Fullness + Len(staged)
<1>1. /\ TypeOK /\ state' # "IDLE" /\ [Next]_vars
      /\ staged \in Seq(Points) /\ Len(staged) \in Nat
  BY DEF StreamInv, Inv, TypeOK, AdvanceStore, control, Next, MainStep
<1>2. TypeOK'
  BY <1>1, NextTypeOK DEF StreamInv, Inv
<1>3. Len(Queue) = Fullness /\ Queue \in Seq(Points \cup {Blank})
  BY <1>1, QueueIs DEF QueueInRing
<1>4. Len(Queue') = Fullness'
  <2>1. (TypeOK /\ state # "IDLE" => QueueInRing)'
    BY QueueIs, PTL
  <2>2. QED
    BY <1>1, <1>2, <2>1 DEF QueueInRing
<1>5. Queue' = Queue \o staged
  BY <1>1, AdvanceAppends
<1>6. Len(Queue \o staged) = Len(Queue) + Len(staged)
  <2>1. staged \in Seq(Points \cup {Blank})
    BY <1>1
  <2>2. QED
    BY <1>3, <2>1, ConcatProperties
<1>7. QED
  BY <1>3, <1>4, <1>5, <1>6

LevelStep == [Levels!Next]_Levels!levelVars

\* Every step of the driver, of its caller and of the FIQ is one the producer
\* counts on, or one it does not see.
LEMMA NextLevels ==
  ASSUME StreamInv, UnplayedInv, [Next]_vars
  PROVE  LevelStep
<1> USE DEF LevelStep, Levels!levelVars, Step, ring, control, grant
<1>0. /\ TypeOK /\ GrantInv /\ OutputInv /\ StagedInv
      /\ N \in Nat /\ room \in Nat /\ Fullness \in 0 .. N - 1
  BY LevelIsFullness, RingAssumption DEF StreamInv, Inv, TypeOK
<1>1. CASE RequestConsume
  BY <1>1 DEF RequestConsume, Fullness
<1>2. CASE RequestRoom
  <2>1. CASE pc' = "write"
    <3>1. /\ state # "IDLE" /\ room' = RoomAfter(seen) /\ pc = "request"
          /\ RoomAfter(seen) # 0 /\ RoomAfter(seen) \in 0 .. N
          /\ UNCHANGED <<produce, consume, state>>
      BY <1>0, <1>2, <2>1, RoomType DEF RequestRoom, TypeOK
    <3>2. Fullness + RoomAfter(seen) < N
      BY <1>0, <3>1, RoomFits DEF GrantInv
    <3>3. state = "PREPARED" => RoomAfter(seen) = N - 1 - Fullness
      BY <1>0, <3>1, PreparedRoom DEF UnplayedInv
    <3>4. RoomAfter(seen) \in 1 .. N - 1 - Fullness
      BY <1>0, <3>1, <3>2
    <3>5. Levels!Request
      BY <2>1, <3>1, <3>3, <3>4
         DEF Levels!Request, Levels!Grants, Fullness
    <3>6. QED
      BY <3>5 DEF Levels!Next
  <2>2. CASE pc' = "idle"
    BY <1>2, <2>2 DEF RequestRoom, Fullness
  <2>3. QED
    BY <1>2, <2>1, <2>2 DEF RequestRoom
<1>3. ASSUME NEW p \in Points, WritePoint(p)
      PROVE  LevelStep
  BY <1>3 DEF WritePoint, Fullness
<1>4. CASE Abandon
  <2>1. CASE room = 0
    BY <1>4, <2>1 DEF Abandon, Fullness
  <2>2. CASE room # 0
    BY <1>4, <2>2 DEF Abandon, Fullness, Levels!GiveUp, Levels!Next
  <2>3. QED
    BY <2>1, <2>2
<1>5. CASE AdvanceCheck
  <2>1. CASE room = 0
    BY <1>5, <2>1 DEF AdvanceCheck, Fullness
  <2>2. CASE room # 0
    BY <1>5, <2>2 DEF AdvanceCheck, Fullness, Levels!GiveUp, Levels!Next
  <2>3. QED
    BY <2>1, <2>2
<1>6. CASE AdvanceStore
  <2>1. /\ UNCHANGED state /\ pc = "advance" /\ pc' = "idle"
        /\ Len(staged) \in 1 .. room
    BY <1>0, <1>6 DEF AdvanceStore, StagedInv, TypeOK
  <2>2. state # "IDLE" => Fullness' = Fullness + Len(staged)
    BY <1>6, AdvanceFills
  <2>3. Levels!Commit
    BY <2>1, <2>2 DEF Levels!Commit
  <2>4. QED
    BY <2>3 DEF Levels!Next
<1>7. CASE PrepareEmpty
  BY <1>7 DEF PrepareEmpty
<1>8. CASE PreparePublish
  <2>1. /\ state = "IDLE" /\ state' = "PREPARED" /\ pc' = "idle"
        /\ pc = "prepare" /\ produce = consume
        /\ UNCHANGED <<produce, consume>>
    BY <1>0, <1>8 DEF PreparePublish, StagedInv, OutputInv
  <2>2. Fullness' = 0
    BY <1>0, <2>1 DEF Fullness, TypeOK, Slots
  <2>3. Levels!Prepare
    BY <2>1, <2>2 DEF Levels!Prepare
  <2>4. QED
    BY <2>3 DEF Levels!Next
<1>9. CASE SetRate
  BY <1>9 DEF SetRate, Fullness
<1>10. CASE NoteRate
  BY <1>10 DEF NoteRate, Fullness
<1>11. CASE StartPlaying
  BY <1>11 DEF StartPlaying, Fullness, Levels!Start, Levels!Next
<1>12. CASE StartIrqDo
  BY <1>12 DEF StartIrqDo, Fullness
<1>13. CASE ArmTimer
  BY <1>13 DEF ArmTimer, Fullness
<1>14. CASE ClearMatch
  BY <1>14 DEF ClearMatch, Fullness
<1>15. CASE EnableFiq
  BY <1>0, <1>15 DEF EnableFiq, TypeOK, Fullness
<1>16. CASE ShutterMask
  BY <1>16 DEF ShutterMask, Fullness
<1>17. CASE ShutterTest
  BY <1>17 DEF ShutterTest, Fullness
<1>18. CASE ShutterOpen
  BY <1>18 DEF ShutterOpen, Fullness
<1>19. CASE ShutterUnmask
  BY <1>19 DEF ShutterUnmask, Fullness
<1>20. CASE StopFiq
  BY <1>20 DEF StopFiq, Fullness
<1>21. CASE StopShutter
  BY <1>21 DEF StopShutter, Fullness
<1>22. CASE StopOutputs
  BY <1>22 DEF StopOutputs, Levels!Stop, Levels!Next
<1>23. CASE StopIrqDo
  BY <1>23 DEF StopIrqDo, Fullness
<1>24. CASE Tick
  BY <1>24 DEF Tick, flow, Fullness
<1>25. CASE FiqIgnored
  BY <1>25 DEF FiqIgnored, Fiq, Fullness, flow
<1>26. CASE FiqPlay
  <2>1. state = "PLAYING" /\ state' = state /\ Fullness' = Fullness - 1
    BY <1>0, <1>26, PlayMovesOn, PlayTakesHead
  <2>2. Fullness > 0
    BY <1>0, <1>26, LevelIsFullness DEF FiqPlay
  <2>3. UNCHANGED <<pc, room>>
    BY <1>26 DEF FiqPlay, Fiq, flow
  <2>4. Levels!Play
    BY <2>1, <2>2, <2>3 DEF Levels!Play
  <2>5. QED
    BY <2>4 DEF Levels!Next
<1>27. CASE FiqUnderrun
  <2>1. state = "PLAYING" /\ Fullness = 0
    BY <1>0, <1>27, LevelIsFullness
       DEF FiqUnderrun, Fiq, FiqTakable, OutputInv, TypeOK
  <2>2. state' = "IDLE" /\ UNCHANGED <<pc, room>>
    BY <1>27 DEF FiqUnderrun, Fiq, flow
  <2>3. Levels!Stop
    BY <2>1, <2>2 DEF Levels!Stop
  <2>4. QED
    BY <2>3 DEF Levels!Next
<1>28. CASE WatchdogReset
  BY <1>28 DEF WatchdogReset, Levels!Restart, Levels!Next
<1>29. CASE UNCHANGED vars
  BY <1>29 DEF vars, flow, Fullness
<1>30. QED
  BY <1>1, <1>2, <1>3, <1>4, <1>5, <1>6, <1>7, <1>8, <1>9, <1>10,
     <1>11, <1>12, <1>13, <1>14, <1>15, <1>16, <1>17, <1>18, <1>19, <1>20,
     <1>21, <1>22, <1>23, <1>24, <1>25, <1>26, <1>27, <1>28, <1>29
     DEF Next, MainStep

\* dac_request, dac_advance, dac_prepare, dac_start, dac_stop and the handler:
\* for every ring size, whatever falls between their accesses, the driver grants,
\* takes and drops points as its producer supposes, and in a prepared ring it
\* grants all the room there is.
THEOREM DriverKeepsLevels == Spec => KeepsLevels
<1>1. Init => StreamInv /\ UnplayedInv /\ Levels!Init
  BY InitStream DEF Init, UnplayedInv, Levels!Init
<1>2. StreamInv /\ UnplayedInv /\ [Next]_vars => StreamInv' /\ UnplayedInv'
  BY NextTypeOK, NextGrantInv, NextOutputInv, NextStagedInv, NextUnplayedInv
     DEF StreamInv, Inv
<1>3. StreamInv /\ UnplayedInv /\ [Next]_vars
        => [Levels!Next]_Levels!levelVars
  BY NextLevels DEF LevelStep
<1>4. QED
  BY <1>1, <1>2, <1>3, PTL DEF Spec, KeepsLevels, Levels!Spec
================================================================================

------------------------------- MODULE DacLevel -------------------------------
(***************************************************************************)
(* What the DAC driver and the code that feeds it agree on (the comments   *)
(* above dac_request, dac_advance, dac_prepare, dac_start and dac_stop in  *)
(* firmware/lib/dac.c): how many points wait, how many more the producer   *)
(* was granted, and who may do what in which mode.  DacRing is the driver  *)
(* with the most general producer, Playback the producer with the most     *)
(* general driver; both keep to it.                                        *)
(***************************************************************************)
EXTENDS Naturals

CONSTANT Capacity   \* how many points may wait

VARIABLES
  mode,      \* "IDLE", "PREPARED" or "PLAYING"
  level,     \* the points waiting
  room       \* the grant that is neither committed nor given up; 0 is none

levelVars == <<mode, level, room>>

Init == mode = "IDLE" /\ level = 0 /\ room = 0

Prepare ==
  /\ mode = "IDLE" /\ room = 0
  /\ mode' = "PREPARED"
  /\ UNCHANGED <<level, room>>

\* What dac_request may grant: a ring that is not playing has all its room in one
\* piece, one that plays has some.
Grants == IF mode = "PREPARED" THEN {Capacity - level} \ {0}
                               ELSE 1 .. Capacity - level

Request ==
  /\ mode # "IDLE" /\ room = 0
  /\ room' \in Grants
  /\ UNCHANGED <<mode, level>>

\* No more than was granted; a stream that was stopped meanwhile takes nothing.
Commit ==
  /\ \E n \in 1 .. room : level' = IF mode = "IDLE" THEN level ELSE level + n
  /\ room' = 0
  /\ UNCHANGED mode

GiveUp ==
  /\ room # 0 /\ room' = 0
  /\ UNCHANGED <<mode, level>>

Start ==
  /\ mode = "PREPARED" /\ room = 0
  /\ mode' = "PLAYING"
  /\ UNCHANGED <<level, room>>

Play ==
  /\ mode = "PLAYING" /\ level > 0
  /\ level' = level - 1
  /\ UNCHANGED <<mode, room>>

\* The producer stops between its grants, the driver when the points run out.
Stop ==
  /\ room = 0 \/ (mode = "PLAYING" /\ level = 0)
  /\ mode' = "IDLE" /\ level' = 0
  /\ UNCHANGED room

\* A restart of the machine.
Restart == mode' = "IDLE" /\ level' = 0 /\ room' = 0

Next ==
  \/ Prepare \/ Request \/ Commit \/ GiveUp \/ Start \/ Play \/ Stop \/ Restart

Spec == Init /\ [][Next]_levelVars
================================================================================

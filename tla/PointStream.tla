------------------------------ MODULE PointStream ------------------------------
(***************************************************************************)
(* What the DAC driver promises the code that feeds it (the comments above *)
(* dac_request, dac_advance, dac_start, dac_prepare and dac_stop in        *)
(* firmware/lib/dac.c): a bounded first-in first-out stream of points that *)
(* is filled while the DAC is prepared or playing, drained one point at a  *)
(* time while it plays, and emptied when it stops.  No index, no timer and *)
(* no interrupt appears here; module DacRing implements it with a ring.    *)
(***************************************************************************)
EXTENDS Naturals, Sequences

CONSTANTS
  Points,    \* the points a producer may hand over
  Blank,     \* what the laser shows when no point is driven
  Capacity   \* how many points may be waiting

VARIABLES
  mode,      \* "IDLE", "PREPARED" or "PLAYING"
  staged,    \* points handed over since the last request, not yet committed
  queue,     \* committed points, oldest first
  laser,     \* the point being displayed
  shutter    \* is the shutter open?

streamVars == <<mode, staged, queue, laser, shutter>>

Init ==
  /\ mode = "IDLE"
  /\ staged = <<>>
  /\ queue = <<>>
  /\ laser = Blank
  /\ shutter = FALSE

Prepare ==
  /\ mode = "IDLE"
  /\ mode' = "PREPARED"
  /\ UNCHANGED <<staged, queue, laser, shutter>>

\* The producer hands over a point; it is not part of the stream until Commit.
Stage ==
  /\ \E p \in Points : staged' = Append(staged, p)
  /\ UNCHANGED <<mode, queue, laser, shutter>>

\* The producer asks again, or gives up what it staged.
Forget ==
  /\ staged # <<>>
  /\ staged' = <<>>
  /\ UNCHANGED <<mode, queue, laser, shutter>>

\* The first points staged join the queue, in the order they were handed over.
\* A stream that was stopped meanwhile swallows them.
Commit ==
  /\ \E n \in 1 .. Len(staged) :
       IF mode = "IDLE"
       THEN queue' = queue
       ELSE /\ Len(queue) + n <= Capacity
            /\ queue' = queue \o SubSeq(staged, 1, n)
  /\ staged' = <<>>
  /\ UNCHANGED <<mode, laser, shutter>>

Start ==
  /\ mode = "PREPARED"
  /\ mode' = "PLAYING"
  /\ UNCHANGED <<staged, queue, laser, shutter>>

OpenShutter ==
  /\ mode = "PLAYING"
  /\ shutter' = TRUE
  /\ UNCHANGED <<mode, staged, queue, laser>>

\* The oldest committed point is displayed.
Play ==
  /\ mode = "PLAYING"
  /\ queue # <<>>
  /\ laser' = Head(queue)
  /\ queue' = Tail(queue)
  /\ UNCHANGED <<mode, staged, shutter>>

CloseShutter ==
  /\ shutter' = FALSE
  /\ UNCHANGED <<mode, staged, queue, laser>>

\* Stopping leaves nothing behind: no queued point, no output, no open shutter.
Stop ==
  /\ mode' = "IDLE"
  /\ queue' = <<>>
  /\ laser' = Blank
  /\ shutter' = FALSE
  /\ UNCHANGED staged

\* A restart of the machine.
Restart ==
  /\ mode' = "IDLE"
  /\ staged' = <<>>
  /\ queue' = <<>>
  /\ laser' = Blank
  /\ shutter' = FALSE

Next ==
  \/ Prepare \/ Stage \/ Forget \/ Commit \/ Start
  \/ OpenShutter \/ Play \/ CloseShutter \/ Stop \/ Restart

Spec == Init /\ [][Next]_streamVars
================================================================================

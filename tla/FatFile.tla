------------------------------ MODULE FatFile ------------------------------
(***************************************************************************)
(* The file objects of common/lib/ff.c on a FAT volume: f_open once the    *)
(* file is found, f_read with one step per turn of its loop, f_lseek, and  *)
(* what ild-player.c does behind their back, which notes a file object's   *)
(* position and puts it back to repeat a frame.                            *)
(***************************************************************************)
EXTENDS FatVolume, FiniteSetsExt

CONSTANTS
    Handles,        \* the FIL objects
    SClust,         \* the first cluster of each file, from its directory entry,
    FSize,          \* its size,
    Reads           \* and the lengths that each object is read by

Files == DOMAIN FSize

\* An empty file has no cluster, one with bytes has a first one.
ASSUME FileAssumption ==
    /\ FSize \in [Files -> Nat]
    /\ SClust \in [Files -> Nat]
    /\ \A f \in Files : FSize[f] = 0 \/ SClust[f] \in Clusters
    /\ Reads \in [Handles -> SUBSET Nat]

VARIABLES
    fil,            \* the FIL objects
    frame_start,    \* fplay_frame_start: fptr, curr_clust and dsect of each
    answer          \* history: the last read, as its caller sees it

fileVars == <<fil, frame_start, answer>>

NoFile == "no file"
Closed == [file |-> NoFile, error |-> FALSE, fptr |-> 0, clust |-> 0, dsect |-> 0]
Valid(h) == fil[h].file # NoFile            \* validate: fp->fs is set
NoPlace == [fptr |-> 0, clust |-> 0, dsect |-> 0]
Quiet == <<>>

FileInit ==
    /\ fil = [h \in Handles |-> Closed]
    /\ frame_start = [h \in Handles |-> NoPlace]
    /\ answer = Quiet

\* A call returns with nothing for its caller but the result.
Return == call' = NoCall /\ answer' = Quiet
-----------------------------------------------------------------------------
(* f_open.  Its first assignment invalidates the object (what else is in   *)
(* it has no meaning from then on), its last ones follow a successful      *)
(* search of the directory.  clust is not assigned.  The player is reset   *)
(* too (ilda_reset_file), so that a noted place is not used again.         *)

FOpenStart(h) ==
    /\ fil' = [fil EXCEPT ![h] = [Closed EXCEPT !.clust = fil[h].clust]]
    /\ frame_start' = [frame_start EXCEPT ![h] = NoPlace]

FOpened(h, f) ==
    fil' = [fil EXCEPT ![h] = [@ EXCEPT !.file = f, !.error = FALSE, !.fptr = 0, !.dsect = 0]]
-----------------------------------------------------------------------------
(* f_read                                                                  *)

Ready(h) == Valid(h) /\ ~fil[h].error

\* A call on an object that is not open, or aborted before.
FRefused(h) ==
    /\ call = NoCall
    /\ ~Ready(h)
    /\ answer' = Quiet
    /\ UNCHANGED <<volVars, fil, frame_start>>

\* Mutant of ToRead: the size of the file is not looked at.
AuxToRead(h, n) == n
\* btr, truncated at the end of the file.
ToRead(h, n) == Min({n, FSize[fil[h].file] - fil[h].fptr})

FReadStart(h, n) ==
    /\ call = NoCall
    /\ Ready(h)
    /\ call' = [op |-> "read", h |-> h, at |-> "loop", n |-> n, start |-> fil[h].fptr,
                btr |-> ToRead(h, n), buf |-> <<>>]
    /\ answer' = Quiet
    /\ UNCHANGED <<vol, winsect, fil, frame_start>>

Reading(at) == call.op = "read" /\ call.at = at
OnSector(h) == fil[h].fptr % SS = 0
OnCluster(h) == fil[h].fptr % ClusterBytes = 0
CSect(h) == (fil[h].fptr \div SS) % CSize

ReadAnswer(res) == <<"read", call.h, call.n, res, call.buf>>

\* ABORT: the object is of no use any more, whatever else is in it.
Abort(h) == [Closed EXCEPT !.file = fil[h].file, !.error = TRUE]
ReadAbort(object) ==
    /\ fil' = [fil EXCEPT ![call.h] = object]
    /\ answer' = ReadAnswer("failed")
    /\ call' = NoCall
    /\ UNCHANGED <<vol, frame_start>>

FReadDone ==
    /\ Reading("loop")
    /\ call.btr = 0
    /\ answer' = ReadAnswer("OK")
    /\ call' = NoCall
    /\ UNCHANGED <<vol, winsect, fil, frame_start>>

\* At a cluster boundary: the cluster that the next byte is in.
NextCluster(h, c) ==
    IF fil[h].fptr = 0 THEN c = SClust[fil[h].file] /\ UNCHANGED winsect
                       ELSE GetFat(fil[h].clust, c)

FReadCluster ==
    LET h == call.h
    IN /\ Reading("loop")
       /\ call.btr > 0
       /\ OnCluster(h)
       /\ \E c \in Links \cup {DiskErr} :
             /\ NextCluster(h, c)
             /\ IF c < 2 THEN ReadAbort(Abort(h))
                ELSE /\ fil' = [fil EXCEPT ![h].clust = c]
                     /\ call' = [call EXCEPT !.at = "transfer"]
                     /\ UNCHANGED <<vol, frame_start, answer>>

Transfer(h) == Reading("transfer") \/ (Reading("loop") /\ call.btr > 0 /\ ~OnCluster(h))

\* A part of the data has come, of n bytes from offset ofs of sector s on.
Take(object, s, ofs, n) ==
    /\ fil' = [fil EXCEPT ![call.h] = [object EXCEPT !.fptr = @ + n]]
    /\ call' = [call EXCEPT !.at = "loop", !.btr = @ - n,
            !.buf = @ \o [i \in 1 .. n |-> <<s + (ofs + i - 1) \div SS, (ofs + i - 1) % SS>>]]
    /\ UNCHANGED <<vol, frame_start, answer>>

\* cc: the whole sectors that can be read at once.
Sectors(h) == Min({call.btr \div SS, CSize - CSect(h)})

\* Whole sectors go to the caller's buffer directly.
FReadDirect ==
    LET h == call.h
        first == Clust2Sect(fil[h].clust)
        sect == first + CSect(h)
    IN /\ Transfer(h) /\ OnSector(h)
       /\ first # 0
       /\ Sectors(h) > 0
       /\ \/ Take(fil[h], sect, 0, Sectors(h) * SS)
          \/ DiskFails /\ ReadAbort(Abort(h))
       /\ UNCHANGED winsect

\* The chain ended, or a link was bad.
FReadNoSector ==
    /\ Transfer(call.h) /\ OnSector(call.h)
    /\ Clust2Sect(fil[call.h].clust) = 0
    /\ ReadAbort(Abort(call.h))
    /\ UNCHANGED winsect

\* Part of a sector goes through the window.
Partial(object) ==
    LET ofs == object.fptr % SS
    IN \/ MoveWindow(object.dsect) /\ Take(object, winsect', ofs, Min({SS - ofs, call.btr}))
       \/ MoveFails(object.dsect) /\ ReadAbort(Abort(call.h))

FReadPartial ==
    LET h == call.h
        first == Clust2Sect(fil[h].clust)
    IN /\ Transfer(h)
       /\ IF OnSector(h)
          THEN /\ first # 0
               /\ Sectors(h) = 0
               /\ Partial([fil[h] EXCEPT !.dsect = first + CSect(h)])
          ELSE Partial(fil[h])

FRead == FReadDone \/ FReadCluster \/ FReadDirect \/ FReadNoSector \/ FReadPartial
-----------------------------------------------------------------------------
(* f_lseek is called with 0 only, which needs no cluster: clust and dsect   *)
(* stay what they are.                                                     *)

Rewind(h) ==
    /\ call = NoCall
    /\ Ready(h)
    /\ fil' = [fil EXCEPT ![h].fptr = 0]
    /\ Return
    /\ UNCHANGED <<vol, winsect, frame_start>>
-----------------------------------------------------------------------------
(* ild-player.c                                                            *)

\* ilda_read_points behind a frame's header.
NoteFrame(h) ==
    /\ call = NoCall
    /\ Ready(h)
    /\ frame_start' = [frame_start EXCEPT ![h] =
            [fptr |-> fil[h].fptr, clust |-> fil[h].clust, dsect |-> fil[h].dsect]]
    /\ answer' = Quiet
    /\ UNCHANGED <<volVars, fil>>

\* Mutant of PutBack: the cluster is forgotten.
AuxPutBack(h) ==
    fil' = [fil EXCEPT ![h].fptr = frame_start[h].fptr, ![h].dsect = frame_start[h].dsect]
PutBack(h) ==
    fil' = [fil EXCEPT ![h] = [@ EXCEPT !.fptr = frame_start[h].fptr,
                !.clust = frame_start[h].clust, !.dsect = frame_start[h].dsect]]

\* ilda_read_points at the end of a frame that is repeated.
RepeatFrame(h) ==
    /\ call = NoCall
    /\ Ready(h)
    /\ frame_start[h] # NoPlace
    /\ PutBack(h)
    /\ answer' = Quiet
    /\ UNCHANGED <<volVars, frame_start>>
=============================================================================

----------------------------- MODULE FileStream -----------------------------
(***************************************************************************)
(* What the file functions promise their callers: a file object is a       *)
(* position in a sequence of bytes.  A read delivers the bytes from there  *)
(* on, as many as there are; a call may fail, a read then with the first   *)
(* of the bytes, and after a failure the object is useless until it is     *)
(* opened again.  A caller may note a position and return to it.           *)
(***************************************************************************)
EXTENDS Integers, Sequences

CONSTANTS
    Handles,        \* the file objects
    Size,           \* of each file,
    Content,        \* and its bytes, from 0 on
    Reads           \* the lengths that each asks for

VARIABLES
    file,           \* what a handle has open, or NoFile
    pos,            \* its position
    noted,          \* the position its caller has noted
    answer          \* of the last call: what was asked, the result and the data

streamVars == <<file, pos, noted, answer>>

Files == DOMAIN Size
NoFile == "no file"
Quiet == <<>>       \* a call that delivers nothing

StreamInit ==
    /\ file = [h \in Handles |-> NoFile]
    /\ pos = [h \in Handles |-> 0]
    /\ noted = [h \in Handles |-> 0]
    /\ answer = Quiet

OpenFile(h, f) ==
    /\ file' = [file EXCEPT ![h] = f]
    /\ pos' = [pos EXCEPT ![h] = 0]
    /\ noted' = [noted EXCEPT ![h] = 0]
    /\ answer' = Quiet

\* A handle is lost when it is opened in vain or a call fails.
Lose(h) ==
    /\ file' = [file EXCEPT ![h] = NoFile]
    /\ pos' = [pos EXCEPT ![h] = 0]
    /\ noted' = [noted EXCEPT ![h] = 0]

Least(a, b) == IF a < b THEN a ELSE b
Bytes(h, n) == [i \in 1 .. n |-> Content[file[h]][pos[h] + i - 1]]

\* A read of n bytes, and one of which only k came.
ReadAll(h, n) ==
    LET k == Least(n, Size[file[h]] - pos[h])
    IN /\ answer' = <<"read", h, n, "OK", Bytes(h, k)>>
       /\ pos' = [pos EXCEPT ![h] = @ + k]
       /\ UNCHANGED <<file, noted>>

ReadFails(h, n, k) ==
    /\ pos[h] + k <= Size[file[h]]
    /\ answer' = <<"read", h, n, "failed", Bytes(h, k)>>
    /\ Lose(h)

GoBack(h) ==
    /\ pos' = [pos EXCEPT ![h] = 0]
    /\ answer' = Quiet
    /\ UNCHANGED <<file, noted>>

\* A call that fails without data: an open, a seek, any call of a lost handle.
Fail(h) == Lose(h) /\ answer' = Quiet

\* The caller has taken what a call delivered.
Taken == answer' = Quiet /\ UNCHANGED <<file, pos, noted>>

Note(h) ==
    /\ noted' = [noted EXCEPT ![h] = pos[h]]
    /\ answer' = Quiet
    /\ UNCHANGED <<file, pos>>
Return(h) ==
    /\ pos' = [pos EXCEPT ![h] = noted[h]]
    /\ answer' = Quiet
    /\ UNCHANGED <<file, noted>>
StreamNext ==
    \E h \in Handles :
        \/ \E f \in Files : OpenFile(h, f)
        \/ Fail(h)
        \/ Taken
        \/ /\ file[h] # NoFile
           /\ \/ \E n \in Reads[h] : ReadAll(h, n)
              \/ \E n \in Reads[h] : \E k \in 0 .. n : ReadFails(h, n, k)
              \/ GoBack(h)
              \/ Note(h)
              \/ Return(h)

Stream == StreamInit /\ [][StreamNext]_streamVars
=============================================================================

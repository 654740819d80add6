---------------------------- MODULE BlockDevice ----------------------------
(***************************************************************************)
(* What diskio.h promises of a disk: after an initialisation, a transfer   *)
(* that answers RES_OK was done between the buffer and the medium; any     *)
(* other answer says that it may not have been.  A medium that was         *)
(* exchanged must be initialised again before the promise holds for it.    *)
(***************************************************************************)
EXTENDS Integers, Sequences

CONSTANTS NumSectors, Values, MaxCount

VARIABLES
    medium,     \* what each sector holds
    ready,      \* STA_NOINIT is clear
    changed,    \* the medium was exchanged after the last initialisation
    answer      \* the last transfer: [op, res, sector, data]

diskVars == <<medium, ready, changed, answer>>

Sectors == 0 .. NumSectors - 1
Span(s, n) == s .. s + n - 1
Contents(m, s, n) == [i \in 1 .. n |-> m[s + i - 1]]
\* The medium after data is stored from sector s on.
Stored(m, s, data) == [x \in Sectors |-> IF x \in Span(s, Len(data)) THEN data[x - s + 1] ELSE m[x]]
Requests == {r \in Sectors \X (0 .. MaxCount) : r[1] + r[2] <= NumSectors}
Buffers(n) == [1 .. n -> Values]
None == [op |-> "none", res |-> "OK", sector |-> 0, data |-> <<>>]
Answered(op, res, s, data) == answer' = [op |-> op, res |-> res, sector |-> s, data |-> data]

DevInit ==
    /\ medium \in [Sectors -> Values]
    /\ ready = FALSE
    /\ changed = FALSE
    /\ answer = None

DevInitialize ==
    /\ \/ ready' = TRUE /\ changed' = FALSE
       \/ UNCHANGED <<ready, changed>>
    /\ answer' = None
    /\ UNCHANGED medium

DevRead(s, n) ==
    /\ \/ \E res \in {"ERROR", "NOTRDY", "PARERR"} : Answered("read", res, s, <<>>)
       \/ /\ ready
          /\ \E data \in Buffers(n) :
                /\ changed \/ data = Contents(medium, s, n)
                /\ Answered("read", "OK", s, data)
    /\ UNCHANGED <<medium, ready, changed>>

DevWrite(s, data) ==
    /\ \/ /\ \E res \in {"ERROR", "NOTRDY", "PARERR"} : Answered("write", res, s, data)
          /\ \/ UNCHANGED medium
             \/ medium' = Stored(medium, s, data)
       \/ /\ ready
          /\ medium' = Stored(medium, s, data)
          /\ Answered("write", "OK", s, data)
    /\ UNCHANGED <<ready, changed>>

DevExchange ==
    /\ medium' \in [Sectors -> Values]
    /\ changed' = TRUE
    /\ UNCHANGED <<ready, answer>>

DevNext ==
    \/ DevInitialize
    \/ \E r \in Requests :
          \/ DevRead(r[1], r[2])
          \/ \E data \in Buffers(r[2]) : DevWrite(r[1], data)
    \/ DevExchange

DevSpec == DevInit /\ [][DevNext]_diskVars
=============================================================================

----------------------------- MODULE DiskCache -----------------------------
(***************************************************************************)
(* The disk layer emmc/firmware/diskio.c: a direct-mapped cache of sectors *)
(* between FatFs and the SD card driver.  sd_card_init, sd_read and        *)
(* sd_write are their results (module SdCard is about them): they succeed, *)
(* or fail; a failing read may have stored part of its data, and a failing *)
(* write may have reached the card.                                        *)
(***************************************************************************)
EXTENDS BlockDevice

CONSTANTS
    Entries,        \* CACHE_ENTRIES
    Faults,         \* "read": a failing sd_read may have changed the buffer;
                    \* "write": sd_write may fail
    Writes          \* the client writes (f_write has no caller in the firmware)

ASSUME CacheAssumption ==
    /\ NumSectors \in Nat \ {0}
    /\ Entries \in Nat \ {0}
    /\ MaxCount \in 0 .. Entries
    /\ Faults \subseteq {"read", "write"}
    /\ Writes \in BOOLEAN

VARIABLES
    cached_blocks,  \* the tag of each line
    cache_buffer,   \* the data of each line
    spoilt          \* history: the lines whose data was replaced under their tag

vars == <<medium, ready, changed, answer, cached_blocks, cache_buffer, spoilt>>

Lines == 0 .. Entries - 1
NoBlock == -1       \* the tag 0xFFFFFFFF
LineOf(s) == s % Entries
-----------------------------------------------------------------------------
\* Mutant of Initialize: the tags of the old medium stay.
AuxInitialize ==
    /\ \/ /\ ready' = TRUE
          /\ changed' = FALSE
          /\ UNCHANGED <<cached_blocks, spoilt>>
       \/ UNCHANGED <<ready, changed, cached_blocks, spoilt>>
    /\ answer' = None
    /\ UNCHANGED <<medium, cache_buffer>>
\* disk_initialize with sdcard_init.
Initialize ==
    /\ \/ /\ ready' = TRUE
          /\ changed' = FALSE
          /\ cached_blocks' = [i \in Lines |-> NoBlock]
          /\ spoilt' = {}
       \/ UNCHANGED <<ready, changed, cached_blocks, spoilt>>
    /\ answer' = None
    /\ UNCHANGED <<medium, cache_buffer>>

\* disk_read and disk_write before they look at the sector.
Refusal(n) == IF n = 0 THEN "PARERR" ELSE "NOTRDY"
Refuse(op, s, n, data) ==
    /\ n = 0 \/ ~ready
    /\ Answered(op, Refusal(n), s, data)
    /\ UNCHANGED <<medium, ready, changed, cached_blocks, cache_buffer, spoilt>>

\* sdcard_read of one sector that is in the cache.
ReadHit(s) ==
    /\ ready
    /\ cached_blocks[LineOf(s)] = s
    /\ Answered("read", "OK", s, <<cache_buffer[LineOf(s)]>>)
    /\ UNCHANGED <<medium, ready, changed, cached_blocks, cache_buffer, spoilt>>

\* Mutant of ReadMiss: the sector number is counted on before it becomes the tag.
AuxReadMiss(s) ==
    /\ ready
    /\ cached_blocks[LineOf(s)] # s
    /\ cache_buffer' = [cache_buffer EXCEPT ![LineOf(s)] = medium[s]]
    /\ cached_blocks' = [cached_blocks EXCEPT ![LineOf(s)] = s + 1]
    /\ spoilt' = spoilt \ {LineOf(s)}
    /\ Answered("read", "OK", s, <<medium[s]>>)
    /\ UNCHANGED <<medium, ready, changed>>
\* ... and of one that is not: the card delivers it into the line.
ReadMiss(s) ==
    /\ ready
    /\ cached_blocks[LineOf(s)] # s
    /\ cache_buffer' = [cache_buffer EXCEPT ![LineOf(s)] = medium[s]]
    /\ cached_blocks' = [cached_blocks EXCEPT ![LineOf(s)] = s]
    /\ spoilt' = spoilt \ {LineOf(s)}
    /\ Answered("read", "OK", s, <<medium[s]>>)
    /\ UNCHANGED <<medium, ready, changed>>

\* Mutant of ReadMissFails: the tag is set before the result is looked at.
AuxReadMissFails(s) ==
    /\ ready
    /\ cached_blocks[LineOf(s)] # s
    /\ cached_blocks' = [cached_blocks EXCEPT ![LineOf(s)] = s]
    /\ Answered("read", "ERROR", s, <<>>)
    /\ UNCHANGED <<medium, ready, changed, cache_buffer, spoilt>>
\* When sd_read fails the tag stays, whatever the line holds by then.
ReadMissFails(s) ==
    /\ ready
    /\ cached_blocks[LineOf(s)] # s
    /\ \/ UNCHANGED <<cache_buffer, spoilt>>
       \/ /\ "read" \in Faults
          /\ spoilt' = spoilt \cup {LineOf(s)}
          /\ \E v \in Values : cache_buffer' = [cache_buffer EXCEPT ![LineOf(s)] = v]
    /\ Answered("read", "ERROR", s, <<>>)
    /\ UNCHANGED <<medium, ready, changed, cached_blocks>>

\* Several sectors come straight from the card.
ReadMany(s, n) ==
    /\ ready /\ n > 1
    /\ \/ Answered("read", "OK", s, Contents(medium, s, n))
       \/ Answered("read", "ERROR", s, <<>>)
    /\ UNCHANGED <<medium, ready, changed, cached_blocks, cache_buffer, spoilt>>

\* sdcard_write.  The result -1 of sd_write is compared as a size_t, so a failure
\* is not seen; the lines get the data, the tags are left as they are.
Touched(s, n) == {LineOf(k) : k \in Span(s, n)}
SectorIn(i, s, n) == CHOOSE k \in Span(s, n) : LineOf(k) = i
Write(s, data) ==
    LET n == Len(data)
        Right == {i \in Touched(s, n) : cached_blocks[i] = SectorIn(i, s, n)}
    IN  /\ Writes /\ ready /\ n > 0
        /\ \/ /\ medium' = Stored(medium, s, data)
              /\ spoilt' = (spoilt \cup Touched(s, n)) \ Right
           \/ /\ "write" \in Faults
              /\ UNCHANGED medium
              /\ spoilt' = spoilt \cup Touched(s, n)
        /\ cache_buffer' = [i \in Lines |->
              IF i \in Touched(s, n) THEN data[SectorIn(i, s, n) - s + 1] ELSE cache_buffer[i]]
        /\ Answered("write", "OK", s, data)
        /\ UNCHANGED <<ready, changed, cached_blocks>>

\* Another medium: the cache is not told, not even by the driver's own
\* initialisation in sd_ensure_data_mode.
Exchange ==
    /\ medium' \in [Sectors -> Values]
    /\ changed' = TRUE
    /\ UNCHANGED <<ready, answer, cached_blocks, cache_buffer, spoilt>>

\* Static data is zero, so every tag is that of sector 0 until sdcard_init.
Init ==
    /\ DevInit
    /\ cached_blocks = [i \in Lines |-> 0]
    /\ cache_buffer \in [Lines -> Values]
    /\ spoilt = {}

Read(s, n) ==
    \/ Refuse("read", s, n, <<>>)
    \/ n = 1 /\ (ReadHit(s) \/ ReadMiss(s) \/ ReadMissFails(s))
    \/ ReadMany(s, n)

Next ==
    \/ Initialize
    \/ \E r \in Requests :
          \/ Read(r[1], r[2])
          \/ Writes /\ \E data \in Buffers(r[2]) :
                Refuse("write", r[1], r[2], data) \/ Write(r[1], data)
    \/ Exchange

Spec == Init /\ [][Next]_vars
-----------------------------------------------------------------------------
TypeOK ==
    /\ medium \in [Sectors -> Values]
    /\ ready \in BOOLEAN
    /\ changed \in BOOLEAN
    /\ answer \in [op : {"none", "read", "write"}, res : {"OK", "ERROR", "NOTRDY", "PARERR"},
                   sector : Sectors, data : UNION {Buffers(n) : n \in 0 .. MaxCount}]
    /\ cached_blocks \in [Lines -> {NoBlock} \cup Sectors]
    /\ cache_buffer \in [Lines -> Values]
    /\ spoilt \subseteq Lines

\* Whatever order reads hit, miss, fail, go past the cache and sectors are written in:
\* a line that has a tag holds that sector as it is on the medium, unless a failed
\* read or a write of another sector, or one that failed, has gone through the line
\* since; and then the next miss of the line sets it right.
LinesMatchTags ==
    ready /\ ~changed =>
        \A i \in Lines \ spoilt : cached_blocks[i] # NoBlock =>
            LineOf(cached_blocks[i]) = i /\ cache_buffer[i] = medium[cached_blocks[i]]

\* As long as no line is spoilt, each step of the cached disk, reads, writes,
\* initialisations and their failures, is one of the disk that diskio.h promises.
ImplementsDisk == DevInit /\ [][spoilt = {} /\ spoilt' = {} => DevNext]_diskVars

\* diskio.h:22 says RES_OK is "Successful", diskio.c:111 "take sector from cache": a
\* read that answers RES_OK delivers what the medium holds.
ReadsTheMedium ==
    answer.op = "read" /\ answer.res = "OK" /\ ~changed =>
        answer.data = Contents(medium, answer.sector, Len(answer.data))
=============================================================================

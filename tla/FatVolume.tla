----------------------------- MODULE FatVolume -----------------------------
(***************************************************************************)
(* A FAT16 or FAT32 volume as common/lib/ff.c sees it, read only: where    *)
(* clusters lie, how chains are followed, and the one sector window of a   *)
(* mounted volume (_FS_TINY), which files and directories share.  A byte   *)
(* is named by its sector and its place there.  The medium may be damaged: *)
(* the FAT is any function.                                                *)
(***************************************************************************)
EXTENDS Integers, Sequences

CONSTANTS
    SS,             \* bytes of a sector
    CSize,          \* sectors of a cluster
    NFatEnt,        \* n_fatent: clusters are 2 .. NFatEnt - 1
    Fat,            \* the file allocation table
    FatPer,         \* FAT entries in a sector
    FatBase,        \* the first sector of the FAT,
    Database,       \* and of the data
    DiskFails       \* disk_read may fail

Clusters == 2 .. NFatEnt - 1
EndOfChain == NFatEnt               \* any link from n_fatent up
Links == {0, 1} \cup Clusters \cup {EndOfChain}

ASSUME VolumeAssumption ==
    /\ SS \in Nat \ {0}
    /\ CSize \in Nat \ {0}
    /\ NFatEnt \in Nat /\ NFatEnt > 2
    /\ Fat \in [Clusters -> Links]
    /\ FatPer \in Nat \ {0}
    /\ FatBase \in Nat \ {0}
    /\ Database \in Nat /\ Database > FatBase + NFatEnt \div FatPer
    /\ DiskFails \in BOOLEAN

ClusterBytes == SS * CSize          \* bcs

DiskErr == -1                       \* 0xFFFFFFFF

\* clust2sect; 0 when there is no such cluster.
Clust2Sect(c) == IF c \in Clusters THEN Database + (c - 2) * CSize ELSE 0
-----------------------------------------------------------------------------
(* The volume.  Calls do not overlap (_FS_REENTRANT is 0).                 *)

VARIABLES
    vol,            \* "absent": FatFs[0] is 0; "registered": fs_type is 0; "mounted"
    winsect,        \* the sector in fs->win; 0 is none
    call            \* the call in progress, or NoCall

volVars == <<vol, winsect, call>>
NoCall == [op |-> "none"]

\* move_window: a sector in the window costs no access, and a failed access
\* leaves the window as it was.
MoveWindow(s) == winsect' = s
MoveFails(s) == DiskFails /\ s # winsect /\ winsect' = winsect

\* get_fat: the link of cluster c, with the window it leaves.
FatSector(c) == FatBase + c \div FatPer
Linked(link, win) == [link |-> link, win |-> win]
FatOutcomes(c) ==
    IF c \notin Clusters THEN {Linked(1, winsect)}
    ELSE {Linked(Fat[c], FatSector(c))}
         \cup {Linked(DiskErr, w) : w \in IF DiskFails THEN {winsect} \ {FatSector(c)} ELSE {}}
GetFat(c, link) == \E o \in FatOutcomes(c) : link = o.link /\ winsect' = o.win

\* chk_mounted, with check_fs, on a card that holds a FAT volume: mounts it if
\* need be.  The disk stays initialised once it is (disk_status).
ChkMounted(res) ==
    \/ vol = "absent" /\ res = "NOT_ENABLED" /\ UNCHANGED <<vol, winsect>>
    \/ vol = "mounted" /\ res = "OK" /\ UNCHANGED <<vol, winsect>>
    \/ vol = "registered" /\ res = "OK" /\ vol' = "mounted" /\ winsect' = 0
    \/ /\ vol = "registered" /\ DiskFails
       /\ res \in {"NOT_READY", "DISK_ERR"}
       /\ UNCHANGED <<vol, winsect>>
-----------------------------------------------------------------------------
(* What a chain of clusters holds.                                         *)

\* The k-th cluster of the chain that begins at c.
ChainFrom(c) ==
    LET at[k \in Nat] == IF k = 0 THEN c
                         ELSE IF at[k - 1] \in Clusters THEN Fat[at[k - 1]] ELSE 1
    IN at

\* Byte number p of a file whose chain begins at c.
ByteAt(c, p) ==
    <<Clust2Sect(ChainFrom(c)[p \div ClusterBytes]) + (p % ClusterBytes) \div SS, p % SS>>

\* The bytes from p on, n of them.
BytesFrom(c, p, n) == [i \in 1 .. n |-> ByteAt(c, p + i - 1)]

\* The chain has clusters up to byte number p.
HasByte(c, p) == ChainFrom(c)[p \div ClusterBytes] \in Clusters
=============================================================================

------------------------------- MODULE FatFs -------------------------------
(***************************************************************************)
(* Files and directory of one mounted volume with its one window, and the  *)
(* programs that use them: the autoplay script, the player, and walk_fs in *)
(* ilda-osc.c, which lists the shows and plays one by its number.          *)
(***************************************************************************)
EXTENDS FatFile, FatDir

CONSTANTS
    Shows,          \* the names that end in .ild, .ilda or .wav
    Player,         \* the handle that plays
    Opens           \* the names that each handle is opened with

ASSUME FsAssumption ==
    /\ Shows \subseteq Names
    /\ Player \in Handles
    /\ Opens \in [Handles -> SUBSET Names]
    /\ \A s \in DOMAIN DirData : \A i \in 1 .. DirPer :
          LET e == DirData[s][i]
          IN e.kind = "sfn" /\ e.attr # "dir" => e.file \in Files

VARIABLES
    walk,           \* walk_fs: its index and i, or NoWalk
    listed          \* history: the names of the current or last walk, with their entries

walkVars == <<walk, listed>>
vars == <<volVars, fileVars, dirVars, walkVars>>
NoWalk == [index |-> -1, i |-> 0]

Init ==
    /\ vol \in {"absent", "registered"}
    /\ winsect = 0
    /\ call = NoCall
    /\ FileInit
    /\ DirInit
    /\ walk = NoWalk
    /\ listed = <<>>

\* walk_fs returns; its DIR is a local variable.
EndOfWalk ==
    /\ walk' = NoWalk
    /\ listed' = <<>>
    /\ dir' = NoDir
-----------------------------------------------------------------------------
(* f_open                                                                  *)

\* The search begins, or the volume is not there.
Search(h, p, res) ==
    /\ ChkMounted(res)
    /\ FOpenStart(h)
    /\ IF res = "OK" THEN call' = FindCall(h, p) /\ CreateName(p)
                     ELSE call' = NoCall /\ UNCHANGED lfn
    /\ answer' = Quiet
    /\ UNCHANGED <<root, dir>>

Open(h, p) ==
    /\ call = NoCall
    /\ walk = NoWalk
    /\ \E res \in {"OK", "NOT_ENABLED", "NOT_READY", "DISK_ERR"} : Search(h, p, res)
    /\ UNCHANGED walkVars

OpenFails ==
    /\ FindFails
    /\ Return
    /\ EndOfWalk
    /\ UNCHANGED <<vol, fil, frame_start, root, lfn>>

\* The entry is found; a directory is no file.
OpenEnds(e) ==
    /\ Found(e)
    /\ IF e.attr = "dir" THEN UNCHANGED fil ELSE FOpened(call.h, e.file)
    /\ Return
    /\ EndOfWalk
    /\ UNCHANGED <<vol, frame_start, root, lfn>>

FindStep ==
    \/ /\ At("find", "look")
       /\ MoveWindow(call.d.sect)
       /\ \E e \in {EntryOf(call.d)} :
             \/ FindPass(e) /\ UNCHANGED <<fileVars, walkVars>>
             \/ OpenEnds(e)
    \/ FindNext /\ UNCHANGED <<fileVars, walkVars>>
    \/ OpenFails
-----------------------------------------------------------------------------
(* walk_fs: with index 0 it lists the shows, else it plays the index'th.   *)

WalkStart(index) ==
    /\ call = NoCall
    /\ walk = NoWalk
    /\ \E res \in {"OK", "NOT_ENABLED", "NOT_READY", "DISK_ERR"} :
          /\ ChkMounted(res)
          /\ IF res = "OK"
             THEN dir' = DirTop /\ walk' = [index |-> index, i |-> 1] /\ listed' = <<>>
             ELSE UNCHANGED <<dir, walkVars>>
    /\ answer' = Quiet
    /\ UNCHANGED <<call, fil, frame_start, root, lfn>>

WalkRead ==
    /\ call = NoCall
    /\ walk # NoWalk
    /\ call' = ReadDirCall
    /\ UNCHANGED <<vol, winsect, fileVars, dirVars, walkVars>>

WalkEnds ==
    /\ ListEnds
    /\ EndOfWalk
    /\ call' = NoCall
    /\ UNCHANGED <<vol, root, fileVars, lfn>>

\* The last entry is lost when the object cannot move on behind it.
WalkLoses ==
    /\ ListLoses
    /\ EndOfWalk
    /\ call' = NoCall
    /\ UNCHANGED <<vol, root, fileVars, lfn>>

Counts == call.entry.attr = "file" /\ call.name \in Shows

WalkPasses ==
    /\ ListReturns
    /\ ~Counts
    /\ call' = NoCall
    /\ UNCHANGED <<fileVars, walkVars>>

WalkCounts ==
    /\ ListReturns
    /\ Counts
    /\ walk.i # walk.index
    /\ walk' = [walk EXCEPT !.i = @ + 1]
    /\ listed' = Append(listed, <<call.name, call.entry>>)
    /\ call' = NoCall
    /\ UNCHANGED fileVars

\* The show with the wanted number goes to fplay_open by the name listed.
WalkPlays ==
    /\ ListReturns
    /\ Counts
    /\ walk.i = walk.index
    /\ listed' = Append(listed, <<call.name, call.entry>>)
    /\ call' = [op |-> "open", name |-> call.name]
    /\ UNCHANGED <<fileVars, walk>>

WalkOpens ==
    /\ call.op = "open"
    /\ FOpenStart(Player)
    /\ call' = FindCall(Player, call.name)
    /\ CreateName(call.name)
    /\ UNCHANGED <<vol, winsect, answer, root, dir, walkVars>>

WalkStep ==
    WalkRead \/ WalkEnds \/ WalkLoses \/ WalkPasses \/ WalkCounts \/ WalkPlays \/ WalkOpens

ListStep ==
    /\ \/ /\ At("readdir", "look")
          /\ call.d.sect # 0
          /\ MoveWindow(call.d.sect)
          /\ \E e \in {EntryOf(call.d)} : ListPass(e) \/ ListHit(e)
       \/ ListNext
    /\ UNCHANGED <<fileVars, walkVars>>
-----------------------------------------------------------------------------
\* A file is used while no walk goes on.
Use(h) ==
    /\ walk = NoWalk
    /\ \/ FRefused(h)
       \/ \E n \in Reads[h] : FReadStart(h, n)
       \/ Rewind(h)
       \/ h = Player /\ (NoteFrame(h) \/ RepeatFrame(h))
    /\ UNCHANGED <<dirVars, walkVars>>

\* The call in progress goes on.
Proceed ==
    \/ FindStep
    \/ ListStep
    \/ WalkStep
    \/ FRead /\ UNCHANGED <<dirVars, walkVars>>

Next ==
    \/ Proceed
    \/ \E h \in Handles : Use(h) \/ \E p \in Opens[h] : Open(h, p)
    \/ \E index \in 0 .. Cardinality(Shows) : WalkStart(index)

Spec == Init /\ [][Next]_vars

\* Every call returns to its caller in time (it is a loop over the disk).
FairSpec == Spec /\ WF_vars(Proceed)
-----------------------------------------------------------------------------
(* The directory as its format defines it: entries in the order of the     *)
(* table, up to the first free one behind which nothing was ever stored.   *)

TableAt(i) ==
    LET s == i \div DirPer
        sector == IF ~root.fat32 THEN root.dirbase + s
                  ELSE Clust2Sect(ChainFrom(root.dirbase)[s \div CSize]) + (s % CSize)
    IN DirData[sector][(i % DirPer) + 1]

\* The pieces of entry i's long name, first first; none if there is none.
LongPiece(i, n, k) ==
    LET e == TableAt(i - k)
    IN /\ e.kind = "lfn" /\ e.ord = k /\ e.sum = SumOf[TableAt(i).name]
       /\ e.last <=> k = n
       /\ Fits(e)
LongName(i) ==
    LET lengths == {n \in 1 .. Min({i, MaxParts}) : \A k \in 1 .. n : LongPiece(i, n, k)}
    IN IF lengths = {} THEN <<>>
       ELSE [k \in 1 .. Max(lengths) |-> TableAt(i - k).part]

\* A path names entry i.
IsNamed(i, p) ==
    /\ TableAt(i).kind = "sfn"
    /\ LongName(i) = Parts[p] \/ (Short[p] # Loss /\ Short[p] = TableAt(i).name)

\* What walk_fs shows of entry i: the long name if its buffer holds it.
IsShown(i, p) ==
    /\ TableAt(i).kind \in {"sfn", "labelarc"}
    /\ IF LongName(i) # <<>> /\ Len(LongName(i)) <= NameParts
       THEN LongName(i) = Parts[p] ELSE Short[p] = TableAt(i).name

\* Entry i is a show.  A label that has the archive bit passes for a file.
IsShow(i) == (\E p \in Shows : IsShown(i, p)) /\ TableAt(i).attr = "file"

\* The shows among the first n entries.
ShowsBefore(n) == {i \in 0 .. n - 1 : IsShow(i)}

\* The table has entry i: it is in the static table, or its cluster in the chain.
InTable(i) ==
    IF root.fat32 THEN ChainFrom(root.dirbase)[(i \div DirPer) \div CSize] \in Clusters
    ELSE i < root.n_rootdir
Stored == {i \in 0 .. IndexMod - 1 : \A j \in 0 .. i : InTable(j) /\ TableAt(j).kind # "end"}

\* No path names another entry than the one that is shown by it.
UniqueNames ==
    \A i, j \in Stored : \A p \in Shows :
        IsShown(i, p) /\ IsNamed(j, p) => TableAt(i) = TableAt(j)
-----------------------------------------------------------------------------
TypeOK ==
    /\ vol \in {"absent", "registered", "mounted"}
    /\ winsect \in Nat
    /\ call.op \in {"none", "read", "find", "readdir", "open"}
    /\ \A h \in Handles :
          /\ fil[h].file \in Files \cup {NoFile}
          /\ fil[h].error \in BOOLEAN
          /\ Ready(h) => fil[h].fptr \in 0 .. FSize[fil[h].file]
          /\ fil[h].clust \in Nat /\ fil[h].dsect \in Nat
    /\ DOMAIN lfn = 1 .. MaxParts + 1
    /\ walk.i \in Nat

\* A search passes no entry that the path names and ends at none that it does
\* not, whatever is left of other names in LfnBuf.
FindIsExact ==
    At("find", "look") =>
        /\ \A i \in 0 .. call.d.index - 1 : ~IsNamed(i, call.path)
        /\ LET e == EntryOf(call.d)
           IN e.kind # "end" => (Found(e) <=> IsNamed(call.d.index, call.path))

\* walk_fs counts exactly the shows, in the directory's order and each under
\* its own name, as the /ilda/N/name messages number them.
ListIsExact ==
    At("readdir", "look") /\ call.d.sect # 0 =>
        /\ Len(listed) = Cardinality(ShowsBefore(call.d.index))
        /\ \A i \in ShowsBefore(call.d.index) :
              LET n == Cardinality(ShowsBefore(i)) + 1
              IN listed[n][2] = TableAt(i) /\ IsShown(i, listed[n][1])

\* A play by number opens the very entry that the listing shows with the
\* number (a label is not found), unless the directory has its name twice.
PlaysTheListed ==
    walk # NoWalk /\ At("find", "look") =>
        LET e == EntryOf(call.d)
        IN /\ Len(listed) = walk.index
           /\ e.kind # "end" /\ Found(e) /\ UniqueNames => e = listed[walk.index][2]

\* Every call and every walk ends, on a damaged volume too, whose directory may
\* run in a circle.
CallsReturn == call # NoCall \/ walk # NoWalk ~> call = NoCall /\ walk = NoWalk
-----------------------------------------------------------------------------
\* To its caller a file object is a position in the bytes of its chain: from
\* the boundaries of sectors and clusters, the shared window, seeks from the
\* current cluster and the player's returns nothing can be seen.
InCall(h) == call.op = "read" /\ call.h = h
AsStream == INSTANCE FileStream WITH
    Size <- FSize,
    Content <- [f \in Files |-> [p \in 0 .. FSize[f] - 1 |-> ByteAt(SClust[f], p)]],
    file <- [h \in Handles |-> IF Ready(h) THEN fil[h].file ELSE NoFile],
    pos <- [h \in Handles |-> IF ~Ready(h) THEN 0
                               ELSE IF InCall(h) THEN call.start ELSE fil[h].fptr],
    noted <- [h \in Handles |-> IF Ready(h) THEN frame_start[h].fptr ELSE 0]
ImplementsStream == AsStream!Stream
=============================================================================

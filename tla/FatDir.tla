------------------------------ MODULE FatDir ------------------------------
(***************************************************************************)
(* The root directory of a FAT volume in common/lib/ff.c: f_opendir,       *)
(* f_readdir and the search of f_open, one step per access to the disk.    *)
(* A long name lies in entries in front of its short one, in reverse, and  *)
(* passes through one static buffer, LfnBuf, in listings and in searches.  *)
(* A name is a string of the client; Parts cuts it into pieces as long as  *)
(* an entry holds, Short is its 8.3 form, or "loss" when it has none.      *)
(***************************************************************************)
EXTENDS FatVolume, FiniteSetsExt

CONSTANTS
    Roots,          \* the root directories a card may have
    DirPer,         \* entries in a sector
    DirData,        \* the entries of each sector
    Parts, Short,   \* of each name
    FullParts,      \* the pieces without the name's end in them
    SumOf,          \* sum_sfn of each 8.3 name
    MaxParts,       \* pieces that LfnBuf holds, the last one not quite
    NameParts,      \* pieces that the caller's buffer holds (lfsize)
    IndexMod        \* an index is a WORD

Names == DOMAIN Parts

\* The clusters whose sectors hold entries.
DirClusters ==
    {c \in Clusters : \A i \in 0 .. CSize - 1 : Clust2Sect(c) + i \in DOMAIN DirData}
Loss == "loss"
Cut == "cut"        \* what begins with the end of the name
Torn == "torn"      \* a piece that only began to fit
NoName == "?"       \* what no client asks for
NoSeq == -1         \* no sequence of entries is being followed
FullPart(part) == part \in FullParts

ASSUME DirAssumption ==
    /\ DirPer \in Nat \ {0} /\ IndexMod \in Nat \ {0}
    /\ Roots \subseteq [fat32 : BOOLEAN, dirbase : Nat, n_rootdir : Nat]
    /\ \A r \in Roots :
          IF r.fat32 THEN r.dirbase \in DirClusters
          ELSE /\ r.n_rootdir > 0 /\ r.n_rootdir % DirPer = 0
               /\ \A k \in 0 .. r.n_rootdir \div DirPer - 1 : r.dirbase + k \in DOMAIN DirData
    /\ \A c \in DirClusters : Fat[c] \in Clusters => Fat[c] \in DirClusters
    /\ MaxParts \in Nat \ {0} /\ NameParts \in 1 .. MaxParts
    /\ \A p \in Names : Len(Parts[p]) \in 1 .. MaxParts
    /\ \A s \in DOMAIN DirData : Len(DirData[s]) = DirPer

\* How names are cut into pieces, each full but the last, which may be; none but
\* the last has the name's end in it.  A name is known by its pieces, and by
\* its 8.3 form if it has one; such a name is no full piece.
ASSUME NamesAssumption ==
    /\ Parts \in [Names -> Seq(STRING)] /\ DOMAIN Short = Names /\ NoName \notin Names
    /\ \A p \in Names :
          /\ \A k \in 1 .. Len(Parts[p]) :
                Parts[p][k] # Cut /\ (k < Len(Parts[p]) => FullPart(Parts[p][k]))
          /\ Short[p] # Loss => Len(Parts[p]) = 1 /\ ~FullPart(Parts[p][1])
    /\ \A p, q \in Names :
          Parts[p] = Parts[q] \/ (Short[p] = Short[q] /\ Short[p] # Loss) => p = q
    /\ \A s \in DOMAIN DirData : \A i \in 1 .. DirPer :
          LET e == DirData[s][i]
          IN /\ e.kind = "lfn" => /\ e.ord \in Nat \ {0} /\ e.last \in BOOLEAN
                                  /\ e.part # Cut /\ (~e.last => FullPart(e.part))
             /\ e.kind \in {"sfn", "labelarc"} => e.name # Loss

VARIABLES
    root,           \* the card's root directory: a chain on FAT32, else a static table
    lfn,            \* LfnBuf
    dir             \* the DIR object of walk_fs or sd_init

dirVars == <<root, lfn, dir>>

NoDir == [index |-> 0, sect |-> 0, clust |-> 0]

DirInit ==
    /\ root \in Roots
    /\ lfn = [i \in 1 .. MaxParts + 1 |-> Cut]
    /\ dir = NoDir

\* dir_sdi to the first entry.
DirTop == [index |-> 0, clust |-> IF root.fat32 THEN root.dirbase ELSE 0,
           sect |-> IF root.fat32 THEN Clust2Sect(root.dirbase) ELSE root.dirbase]

EntryOf(d) == DirData[d.sect][(d.index % DirPer) + 1]
-----------------------------------------------------------------------------
(* dir_next                                                                *)

NewCluster(i) == (i \div DirPer) % CSize = 0

Moved(res, d, win) == [res |-> res, d |-> d, win |-> win]

\* Into the next cluster, if there is one.
ClusterOutcomes(d, i) ==
    {IF o.link \in Clusters
     THEN Moved("OK", [index |-> i, clust |-> o.link, sect |-> Clust2Sect(o.link)], o.win)
     ELSE Moved(IF o.link = EndOfChain THEN "NO_FILE" ELSE "ERROR",
                [d EXCEPT !.sect = @ + 1], o.win) : o \in FatOutcomes(d.clust)}

\* Mutant of LastIndex: the index may run round.
AuxLastIndex(d) == d.sect = 0
\* An index that is back at 0, or a directory that was read to its end.
LastIndex(d) == (d.index + 1) % IndexMod = 0 \/ d.sect = 0

\* The results, with the place and the window they leave.
NextOutcomes(d) ==
    LET i == (d.index + 1) % IndexMod
        onward == [d EXCEPT !.sect = @ + 1]
    IN IF LastIndex(d) THEN {Moved("NO_FILE", d, winsect)}
       ELSE IF i % DirPer # 0 THEN {Moved("OK", [d EXCEPT !.index = i], winsect)}
       ELSE IF d.clust = 0 /\ i >= root.n_rootdir THEN {Moved("NO_FILE", onward, winsect)}
       ELSE IF d.clust = 0 \/ ~NewCluster(i) THEN {Moved("OK", [onward EXCEPT !.index = i], winsect)}
       ELSE ClusterOutcomes(d, i)
-----------------------------------------------------------------------------
(* Long names.  A sequence of entries is being followed while ord is the   *)
(* number of the one before the last seen; NoSeq when it is broken.        *)

Fits(e) == e.ord < MaxParts \/ (e.ord = MaxParts /\ ~FullPart(e.part))

\* pick_lfn into the buffer.
PickLfn(e) ==
    [i \in DOMAIN lfn |->
        IF i = e.ord /\ i <= MaxParts THEN IF Fits(e) THEN e.part ELSE Torn
        ELSE IF i = e.ord + 1 /\ Fits(e) /\ e.last /\ FullPart(e.part) THEN Cut
        ELSE lfn[i]]

\* cmp_lfn with the buffer, which holds the name that is searched and, behind
\* its end, what was there before.
CmpLfn(e) ==
    /\ Fits(e)
    /\ lfn[e.ord] = e.part
    /\ e.last /\ FullPart(e.part) => lfn[e.ord + 1] = Cut

\* Mutant of Expected: the checksum is not compared.
AuxExpected(ord, sum, e) == e.last \/ e.ord = ord
\* The entry begins a sequence, or is the next one of the sequence.
Expected(ord, sum, e) == e.last \/ (e.ord = ord /\ e.sum = sum)

\* create_name: a name goes into the buffer.
CreateName(p) ==
    LET n == Len(Parts[p])
    IN lfn' = [i \in DOMAIN lfn |->
                  IF i <= n THEN Parts[p][i]
                  ELSE IF i = n + 1 /\ FullPart(Parts[p][n]) THEN Cut ELSE lfn[i]]

\* The name in the buffer, up to its end.
LfnName ==
    LET n == Min({i \in 1 .. MaxParts : lfn[i + 1] = Cut \/ ~FullPart(lfn[i])})
    IN [i \in 1 .. n |-> lfn[i]]
-----------------------------------------------------------------------------
(* dir_find, for follow_path of a name in the root directory.  The call    *)
(* knows the 8.3 form of the name (dj->fn).                                *)

FindCall(h, p) ==
    [op |-> "find", at |-> "look", h |-> h, path |-> p, d |-> DirTop, ord |-> NoSeq, sum |-> NoSeq]

\* Mutant of LfnFound: any sequence that has ended belongs to the entry.
AuxLfnFound(e) == call.ord = 0
LfnFound(e) == call.ord = 0 /\ call.sum = SumOf[e.name]
SfnFound(e) == Short[call.path] # Loss /\ Short[call.path] = e.name

At(op, at) == call.op = op /\ call.at = at

\* An entry that is not the one: how the search goes on.
FindSkip(e) ==
    LET follows == Expected(call.ord, call.sum, e) /\ CmpLfn(e)
    IN IF e.kind = "lfn"
       THEN [call EXCEPT !.at = "next", !.ord = IF follows THEN e.ord - 1 ELSE NoSeq,
                         !.sum = IF e.last THEN e.sum ELSE @]
       ELSE [call EXCEPT !.at = "next", !.ord = NoSeq]

Found(e) == e.kind = "sfn" /\ (LfnFound(e) \/ SfnFound(e))

\* An entry, which is in the window now.
FindPass(e) ==
    /\ e.kind # "end" /\ ~Found(e)
    /\ call' = FindSkip(e)
    /\ UNCHANGED <<vol, dirVars>>

FindNext ==
    /\ At("find", "next")
    /\ \E o \in NextOutcomes(call.d) :
          /\ o.res = "OK"
          /\ call' = [call EXCEPT !.at = "look", !.d = o.d]
          /\ winsect' = o.win
    /\ UNCHANGED <<vol, dirVars>>

\* The search ends without the name.
FindFails ==
    \/ /\ At("find", "look")
       /\ \/ MoveFails(call.d.sect)
          \/ MoveWindow(call.d.sect) /\ EntryOf(call.d).kind = "end"
    \/ /\ At("find", "next")
       /\ \E o \in NextOutcomes(call.d) : o.res # "OK" /\ winsect' = o.win
-----------------------------------------------------------------------------
(* f_readdir with dir_read and get_fileinfo.                               *)

ReadDirCall == [op |-> "readdir", at |-> "look", d |-> dir, ord |-> NoSeq, sum |-> NoSeq]

\* Mutant of HasLong: any sequence that has ended belongs to the entry.
AuxHasLong(e) == call.ord = 0
\* The entry has the long name in the buffer.
HasLong(e) == call.ord = 0 /\ call.sum = SumOf[e.name]

\* The name the caller uses: the long one if there is one and it fits.
ShownName(e) ==
    LET shown == IF HasLong(e) /\ Len(LfnName) <= NameParts
                 THEN {p \in Names : Parts[p] = LfnName}
                 ELSE {p \in Names : Short[p] = e.name}
    IN IF shown = {} THEN NoName ELSE CHOOSE p \in shown : TRUE

\* An entry that is not listed.  A label with the archive bit is.
ListSkip(e) ==
    LET follows == Expected(call.ord, call.sum, e) /\ Fits(e)
    IN IF e.kind = "lfn"
       THEN [call EXCEPT !.at = "next", !.ord = IF follows THEN e.ord - 1 ELSE NoSeq,
                         !.sum = IF e.last THEN e.sum ELSE @]
       ELSE [call EXCEPT !.at = "next", !.ord = NoSeq]
Listable(e) == e.kind \in {"sfn", "labelarc"}

ListPass(e) ==
    /\ e.kind # "end" /\ ~Listable(e)
    /\ call' = ListSkip(e)
    /\ lfn' = IF e.kind = "lfn" /\ Expected(call.ord, call.sum, e) THEN PickLfn(e) ELSE lfn
    /\ UNCHANGED <<vol, root, dir>>

ListHit(e) ==
    /\ Listable(e)
    /\ call' = [op |-> "readdir", at |-> "hit", d |-> call.d, entry |-> e, name |-> ShownName(e)]
    /\ UNCHANGED <<vol, dirVars>>

ListNext ==
    /\ At("readdir", "next")
    /\ \E o \in NextOutcomes(call.d) :
          /\ o.res = "OK"
          /\ call' = [call EXCEPT !.at = "look", !.d = o.d]
          /\ winsect' = o.win
    /\ UNCHANGED <<vol, dirVars>>
\* The end of the directory, and an access that fails: nothing is listed.
ListEnds ==
    \/ /\ At("readdir", "look")
       /\ call.d.sect # 0
       /\ \/ MoveFails(call.d.sect)
          \/ MoveWindow(call.d.sect) /\ EntryOf(call.d).kind = "end"
    \/ /\ At("readdir", "next")
       /\ \E o \in NextOutcomes(call.d) : o.res # "OK" /\ winsect' = o.win
    \/ /\ call.op = "readdir" /\ call.d.sect = 0
       /\ UNCHANGED winsect

\* An entry is found; the object moves on behind it, which may fail.
ListReturns ==
    /\ At("readdir", "hit")
    /\ \E o \in NextOutcomes(call.d) :
          /\ o.res # "ERROR"
          /\ dir' = IF o.res = "NO_FILE" THEN [o.d EXCEPT !.sect = 0] ELSE o.d
          /\ winsect' = o.win
    /\ UNCHANGED <<vol, root, lfn>>

ListLoses ==
    /\ At("readdir", "hit")
    /\ \E o \in NextOutcomes(call.d) : o.res = "ERROR" /\ winsect' = o.win
=============================================================================

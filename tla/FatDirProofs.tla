---------------------------- MODULE FatDirProofs ----------------------------
(***************************************************************************)
(* Proofs about the root directory in FatFs, for every table of entries    *)
(* and every damage of its chain: a place in it is an entry of the table,  *)
(* a search ends at the entry that the path names, and walk_fs counts and  *)
(* plays what the directory has.                                           *)
(***************************************************************************)
EXTENDS FatFsProofs, FiniteSetTheorems

--------------------------------------------------------------------------------
(* The table                                                               *)

\* What is in a sector of the directory.
Records == UNION {{DirData[s][i] : i \in 1 .. DirPer} : s \in DOMAIN DirData}
Table == [i \in Nat |-> TableAt(i)]

\* A place in the directory, reached along the directory's chain.
AtEntry(d) ==
  /\ DirPlace(d)
  /\ root.fat32 => d.clust = ChainFrom(root.dirbase)[(d.index \div DirPer) \div CSize]

\* The entries before the j-th are there and in use.
Passed(j) == \A i \in 0 .. j - 1 : InTable(i) /\ TableAt(i).kind # "end"

\* What the format says of an entry.
LEMMA RecordFacts ==
  ASSUME NEW e \in Records
  PROVE  /\ e.kind = "lfn" => /\ e.ord \in Nat \ {0} /\ e.last \in BOOLEAN
                              /\ e.part # Cut /\ (~e.last => FullPart(e.part))
         /\ e.kind \in {"sfn", "labelarc"} => e.name # Loss
<1>1. PICK s \in DOMAIN DirData, i \in 1 .. DirPer : e = DirData[s][i]
  BY DEF Records
<1> QED
  BY <1>1, NamesAssumption

\* What is assumed of the directory's root.
LEMMA RootFacts ==
  ASSUME root \in Roots
  PROVE  /\ root \in [fat32 : BOOLEAN, dirbase : Nat, n_rootdir : Nat]
         /\ IndexMod \in Nat \ {0} /\ DirPer \in Nat \ {0} /\ CSize \in Nat \ {0}
         /\ root.fat32 => root.dirbase \in DirClusters
         /\ ~root.fat32 => /\ root.n_rootdir > 0 /\ root.n_rootdir % DirPer = 0
                           /\ \A k \in 0 .. root.n_rootdir \div DirPer - 1 :
                                 root.dirbase + k \in DOMAIN DirData
BY DirAssumption, VolumeAssumption

\* The chain of the directory stays in the directory.
LEMMA ChainInDir ==
  ASSUME NEW c \in DirClusters
  PROVE  \A k \in Nat : ChainFrom(c)[k] \in Clusters => ChainFrom(c)[k] \in DirClusters
<1> DEFINE T == {k \in Nat : ChainFrom(c)[k] \in Clusters => ChainFrom(c)[k] \in DirClusters}
<1>1. 0 \in T
  BY ChainSteps
<1>2. ASSUME NEW k \in Nat, k \in T PROVE k + 1 \in T
  <2>1. ChainFrom(c)[k + 1] = Behind(ChainFrom(c)[k])
    BY ChainSteps
  <2>2. 1 \notin Clusters
    BY LinkFacts
  <2> QED
    BY <1>2, <2>1, <2>2, DirAssumption DEF Behind
<1> HIDE DEF T
<1>3. \A k \in Nat : k \in T
  BY <1>1, <1>2, Induction
<1> QED
  BY <1>3 DEF T

\* Below a whole number of blocks, the block is one of them.
LEMMA BlockIn ==
  ASSUME NEW b \in Nat \ {0}, NEW m \in Nat, m % b = 0, NEW i \in Nat, i < m
  PROVE  i \div b \in 0 .. m \div b - 1
<1> DEFINE q == m \div b
           k == i \div b
           r == i % b
<1>1. q \in Nat /\ m = b * q + (m % b)
  BY DivisionExists
<1>2. k \in Nat /\ r \in 0 .. b - 1 /\ i = b * k + r
  BY DivisionExists
<1> HIDE DEF q, k, r
<1>3. m = b * q
  BY <1>1
<1>4. k < q
  <2> SUFFICES ASSUME q <= k PROVE FALSE
    BY <1>1, <1>2
  <2>1. b * q <= b * k
    BY <1>1, <1>2
  <2> QED
    BY <1>1, <1>2, <1>3, <2>1
<1> QED
  BY <1>1, <1>2, <1>4 DEF q, k

\* An entry of the table is one of a sector of the directory.
LEMMA TableHas ==
  ASSUME root \in Roots, NEW i \in Nat, InTable(i)
  PROVE  TableAt(i) \in Records
<1> DEFINE s == i \div DirPer
           sector == IF ~root.fat32 THEN root.dirbase + s
                     ELSE Clust2Sect(ChainFrom(root.dirbase)[s \div CSize]) + (s % CSize)
<1>1. s \in Nat /\ i % DirPer \in 0 .. DirPer - 1 /\ s \div CSize \in Nat /\ s % CSize \in 0 .. CSize - 1
  BY RootFacts, DivisionExists
<1>2. sector \in DOMAIN DirData
  <2>1. CASE root.fat32
    <3>1. ChainFrom(root.dirbase)[s \div CSize] \in DirClusters
      BY <1>1, <2>1, RootFacts, ChainInDir DEF InTable
    <3> HIDE DEF s
    <3> QED
      BY <1>1, <2>1, <3>1 DEF DirClusters
  <2>2. CASE ~root.fat32
    <3>1. s \in 0 .. root.n_rootdir \div DirPer - 1
      BY <2>2, RootFacts, BlockIn DEF InTable
    <3> HIDE DEF s
    <3> QED
      BY <2>2, <3>1, RootFacts
  <2> QED
    BY <2>1, <2>2
<1>3. TableAt(i) = DirData[sector][(i % DirPer) + 1]
  BY DEF TableAt
<1>4. (i % DirPer) + 1 \in 1 .. DirPer
  BY <1>1, RootFacts
<1> HIDE DEF sector
<1> QED
  BY <1>2, <1>3, <1>4 DEF Records

\* The entry at a place is the table's.
LEMMA EntryIs ==
  ASSUME root \in Roots, NEW d, AtEntry(d)
  PROVE  /\ d.index \in 0 .. IndexMod - 1 /\ d.index \in Nat /\ InTable(d.index)
         /\ EntryOf(d) = TableAt(d.index) /\ TableAt(d.index) \in Records
<1>1. d.index \in 0 .. IndexMod - 1 /\ d.index \in Nat
  BY RootFacts DEF AtEntry, DirPlace
<1>2. InTable(d.index)
  BY DEF AtEntry, DirPlace, InTable, DirClusters
<1>3. EntryOf(d) = TableAt(d.index)
  <2>1. CASE root.fat32
    BY <2>1 DEF AtEntry, DirPlace, EntryOf, TableAt
  <2>2. CASE ~root.fat32
    BY <2>2 DEF AtEntry, DirPlace, EntryOf, TableAt
  <2> QED
    BY <2>1, <2>2
<1> QED
  BY <1>1, <1>2, <1>3, TableHas

\* dir_sdi leads to the first entry.
LEMMA TopAtEntry == CallInv => AtEntry(DirTop) /\ DirTop.index = 0
<1> SUFFICES ASSUME CallInv PROVE AtEntry(DirTop) /\ DirTop.index = 0
  OBVIOUS
<1>1. root \in Roots
  BY DEF CallInv
<1>2. 0 \div DirPer = 0 /\ 0 \div CSize = 0
  BY <1>1, RootFacts
<1>3. DirTop.index = 0 /\ (root.fat32 => DirTop.clust = root.dirbase)
  BY DEF DirTop
<1> QED
  BY <1>2, <1>3, TopInDir, ChainSteps DEF AtEntry

\* dir_next leads to the next one.
LEMMA NextAtEntry ==
  ASSUME CallInv, NEW d, AtEntry(d), NEW o \in NextOutcomes(d), o.res = "OK"
  PROVE  AtEntry(o.d) /\ o.d.index = d.index + 1
<1> DEFINE i == (d.index + 1) % IndexMod
           onward == [d EXCEPT !.sect = @ + 1]
<1>0. root \in Roots /\ DirPlace(d) /\ DirPlace(o.d)
  BY NextInDir DEF CallInv, AtEntry
<1>1. /\ IndexMod \in Nat \ {0} /\ DirPer \in Nat \ {0} /\ CSize \in Nat \ {0}
      /\ d \in [index : 0 .. IndexMod - 1, sect : Nat, clust : Nat] /\ d.index \in Nat
  BY <1>0, RootFacts DEF DirPlace
<1>2. ~LastIndex(d)
  BY DEF NextOutcomes, Moved
<1>3. i = d.index + 1
  <2>1. CASE d.index + 1 < IndexMod
    BY <1>1, <2>1
  <2>2. CASE d.index + 1 = IndexMod
    <3>1. IndexMod % IndexMod = 0
      BY <1>1
    <3> QED
      BY <1>2, <2>2, <3>1 DEF LastIndex
  <2> QED
    BY <1>1, <2>1, <2>2
<1> HIDE DEF i
<1>4. \/ i % DirPer # 0 /\ o = Moved("OK", [d EXCEPT !.index = i], winsect)
      \/ /\ i % DirPer = 0
         /\ d.clust = 0 \/ ~NewCluster(i)
         /\ o = Moved("OK", [onward EXCEPT !.index = i], winsect)
      \/ /\ i % DirPer = 0 /\ d.clust # 0 /\ NewCluster(i)
         /\ o \in ClusterOutcomes(d, i)
  BY <1>2 DEF NextOutcomes, Moved, i
<1>5. /\ i % DirPer # 0 => i \div DirPer = d.index \div DirPer
      /\ i % DirPer = 0 => i \div DirPer = d.index \div DirPer + 1
  BY <1>1, <1>3, CountOn
<1>6. d.index \div DirPer \in Nat /\ (d.index \div DirPer) \div CSize \in Nat
  BY <1>1, DivisionExists
<1>7. CASE i % DirPer # 0 /\ o = Moved("OK", [d EXCEPT !.index = i], winsect)
  <2>1. o.d.index = i /\ o.d.clust = d.clust
    BY <1>1, <1>7 DEF Moved
  <2> QED
    BY <1>0, <1>3, <1>5, <1>7, <2>1 DEF AtEntry
<1>8. CASE /\ i % DirPer = 0
           /\ d.clust = 0 \/ ~NewCluster(i)
           /\ o = Moved("OK", [onward EXCEPT !.index = i], winsect)
  <2>1. o.d.index = i /\ o.d.clust = d.clust
    BY <1>1, <1>8 DEF Moved
  <2>2. ASSUME root.fat32
        PROVE  (i \div DirPer) \div CSize = (d.index \div DirPer) \div CSize
    <3>1. d.clust # 0
      BY <1>0, <2>2, LinkFacts DEF DirPlace, DirClusters
    <3> QED
      BY <1>1, <1>5, <1>6, <1>8, <3>1, CountOn DEF NewCluster
  <2> QED
    BY <1>0, <1>3, <2>1, <2>2 DEF AtEntry
<1>9. CASE /\ i % DirPer = 0 /\ d.clust # 0 /\ NewCluster(i)
           /\ o \in ClusterOutcomes(d, i)
  <2>1. root.fat32 /\ d.clust \in Clusters
    BY <1>0, <1>9, RootFacts DEF DirPlace, DirClusters
  <2>2. PICK l \in FatOutcomes(d.clust) :
          /\ l.link \in Clusters
          /\ o.d = [index |-> i, clust |-> l.link, sect |-> Clust2Sect(l.link)]
    BY <1>9 DEF ClusterOutcomes, Moved
  <2>3. l.link = Behind(d.clust)
    <3>1. DiskErr \notin Clusters
      BY LinkFacts DEF DiskErr
    <3> QED
      BY <2>1, <2>2, <3>1 DEF FatOutcomes, Linked, Behind
  <2>4. (i \div DirPer) \div CSize = (d.index \div DirPer) \div CSize + 1
    BY <1>1, <1>5, <1>6, <1>9, CountOn DEF NewCluster
  <2>5. l.link = ChainFrom(root.dirbase)[(i \div DirPer) \div CSize]
    BY <1>6, <2>1, <2>3, <2>4, ChainSteps DEF AtEntry
  <2>6. o.d.index = i /\ o.d.clust = l.link
    BY <2>2
  <2> QED
    BY <1>0, <1>3, <2>5, <2>6 DEF AtEntry
<1> QED
  BY <1>4, <1>7, <1>8, <1>9

--------------------------------------------------------------------------------
(* Long names                                                              *)

\* In table T the entries before the j-th, all of them in M, are the last of a
\* sequence of n with checksum s; o of it are still to come.
Run(T, M, j, o, n, s) ==
  /\ o \in Nat /\ n \in Nat /\ o < n /\ n <= j + o
  /\ \A k \in o + 1 .. n :
        LET e == T[j + o - k]
        IN /\ e \in M /\ e.kind = "lfn" /\ e.ord = k /\ e.sum = s
           /\ e.last <=> k = n

\* Before the j-th entry ord and sum tell of the one sequence there is, if any.
Tracks(T, M, j, o, s) ==
  /\ o # NoSeq => \E n : Run(T, M, j, o, n, s)
  /\ \A p, n, t : Run(T, M, j, p, n, t) => o = p /\ s = t

\* Behind an entry of another kind there is none.
LEMMA NoRun ==
  ASSUME NEW T, NEW M, NEW j \in Nat, j = 0 \/ T[j - 1].kind # "lfn", NEW s
  PROVE  Tracks(T, M, j, NoSeq, s)
<1>1. ASSUME NEW p, NEW n, NEW t, Run(T, M, j, p, n, t) PROVE FALSE
  <2>1. p \in Nat /\ p + 1 \in p + 1 .. n /\ j # 0 /\ j + p - (p + 1) = j - 1
    BY <1>1 DEF Run
  <2>2. T[j - 1].kind = "lfn"
    BY <1>1, <2>1 DEF Run
  <2> QED
    BY <2>1, <2>2
<1> QED
  BY <1>1 DEF Tracks

\* Every entry of a long name goes on with its sequence, begins one or ends it.
LEMMA RunStep ==
  ASSUME NEW T, NEW M, M \subseteq Records, NEW j \in Nat, NEW o, NEW s, Tracks(T, M, j, o, s),
         NEW e, e = T[j], e \in Records, e.kind = "lfn",
         NEW ord, NEW sum, e.last => sum = e.sum, ~e.last => sum = s,
         Expected(o, s, e) /\ e \in M => ord = e.ord - 1,
         ~(Expected(o, s, e) /\ e \in M) => ord = NoSeq
  PROVE  Tracks(T, M, j + 1, ord, sum)
<1>0. e.ord \in Nat \ {0} /\ e.last \in BOOLEAN
  BY RecordFacts
<1>1. ASSUME ord # NoSeq PROVE \E n : Run(T, M, j + 1, ord, n, sum)
  <2>1. Expected(o, s, e) /\ e \in M /\ ord = e.ord - 1
    BY <1>1
  <2>2. CASE e.last
    <3>1. Run(T, M, j + 1, ord, e.ord, sum)
      <4>1. /\ ord \in Nat /\ ord < e.ord /\ e.ord <= j + 1 + ord
        BY <1>0, <2>1
      <4>2. ASSUME NEW k \in ord + 1 .. e.ord PROVE k = e.ord /\ j + 1 + ord - k = j
        BY <1>0, <2>1
      <4>3. ASSUME NEW k \in ord + 1 .. e.ord
            PROVE  LET x == T[j + 1 + ord - k]
                   IN /\ x \in M /\ x.kind = "lfn" /\ x.ord = k /\ x.sum = sum
                      /\ x.last <=> k = e.ord
        <5>1. T[j + 1 + ord - k] = e /\ k = e.ord
          BY <4>2
        <5> QED
          BY <2>1, <2>2, <5>1
      <4>4. ord \in Nat /\ e.ord \in Nat
        BY <1>0, <4>1
      <4> QED
        BY <4>1, <4>3, <4>4 DEF Run
    <3> QED
      BY <3>1
  <2>3. CASE ~e.last
    <3>1. e.ord = o /\ e.sum = s /\ sum = s
      BY <2>1, <2>3 DEF Expected
    <3>2. o # NoSeq
      BY <1>0, <3>1 DEF NoSeq
    <3>3. PICK n : Run(T, M, j, o, n, s)
      BY <3>2 DEF Tracks
    <3>4. o \in Nat \ {0} /\ n \in Nat /\ o < n /\ n <= j + o /\ ord = o - 1
      BY <1>0, <2>1, <3>1, <3>3 DEF Run
    <3>5. ASSUME NEW k \in ord + 1 .. n
          PROVE  LET x == T[j + 1 + ord - k]
                 IN /\ x \in M /\ x.kind = "lfn" /\ x.ord = k /\ x.sum = s
                    /\ x.last <=> k = n
      <4>1. j + 1 + ord - k = j + o - k
        BY <3>4
      <4>2. CASE k = o
        <5>1. j + o - k = j /\ k # n
          BY <3>4, <4>2
        <5> QED
          BY <2>1, <2>3, <3>1, <4>1, <4>2, <5>1
      <4>3. CASE k # o
        <5>1. k \in o + 1 .. n
          BY <3>4, <4>3
        <5> QED
          BY <3>3, <4>1, <5>1 DEF Run
      <4> QED
        BY <4>2, <4>3
    <3>6. ord \in Nat /\ n \in Nat /\ ord < n /\ n <= j + 1 + ord
      BY <3>4
    <3>7. Run(T, M, j + 1, ord, n, sum)
      BY <3>1, <3>5, <3>6 DEF Run
    <3> QED
      BY <3>7
  <2> QED
    BY <1>0, <2>2, <2>3
<1>2. ASSUME NEW p, NEW n, NEW t, Run(T, M, j + 1, p, n, t) PROVE ord = p /\ sum = t
  <2>1. p \in Nat /\ n \in Nat /\ p < n /\ n <= j + 1 + p
    BY <1>2 DEF Run
  <2>2. e \in M /\ e.ord = p + 1 /\ e.sum = t /\ (e.last <=> p + 1 = n)
    <3>1. p + 1 \in p + 1 .. n /\ j + 1 + p - (p + 1) = j
      BY <2>1
    <3> QED
      BY <1>2, <3>1 DEF Run
  <2>3. CASE e.last
    BY <2>1, <2>2, <2>3 DEF Expected
  <2>4. CASE ~e.last
    <3>1. Run(T, M, j, p + 1, n, t)
      <4>1. /\ p + 1 \in Nat /\ n \in Nat /\ p + 1 < n /\ n <= j + (p + 1)
        BY <2>1, <2>2, <2>4
      <4>2. ASSUME NEW k \in (p + 1) + 1 .. n
            PROVE  k \in p + 1 .. n /\ j + (p + 1) - k = j + 1 + p - k
        BY <2>1
      <4> QED
        BY <1>2, <4>1, <4>2 DEF Run
    <3>2. o = p + 1 /\ s = t
      BY <3>1 DEF Tracks
    <3> QED
      BY <2>1, <2>2, <2>4, <3>2 DEF Expected
  <2> QED
    BY <1>0, <2>3, <2>4
<1> QED
  BY <1>1, <1>2 DEF Tracks

\* The entries that LfnBuf can hold.
Fitting == {e \in Records : e.kind = "lfn" /\ Fits(e)}

\* The greatest of one.
LEMMA MaxIs ==
  ASSUME NEW n \in Nat
  PROVE  Max({n}) = n
<1>1. n \in {n} /\ \A y \in {n} : n >= y
  OBVIOUS
<1>2. \A x \in {n} : x = n
  OBVIOUS
<1> QED
  BY <1>1, <1>2 DEF Max

\* A whole sequence before an entry is its long name, if it has the entry's checksum.
LEMMA LongIs ==
  ASSUME root \in Roots, NEW i \in Nat, Passed(i),
         NEW n, Run(Table, Fitting, i, 0, n, SumOf[TableAt(i).name])
  PROVE  /\ n \in 1 .. MaxParts /\ n <= i
         /\ LongName(i) = [k \in 1 .. n |-> TableAt(i - k).part]
<1> DEFINE lengths == {m \in 1 .. Min({i, MaxParts}) : \A k \in 1 .. m : LongPiece(i, m, k)}
<1>1. n \in Nat /\ 0 < n /\ n <= i /\ MaxParts \in Nat \ {0}
  BY DirAssumption DEF Run
<1>2. ASSUME NEW k \in 1 .. n PROVE LongPiece(i, n, k) /\ TableAt(i - k).ord = k
  <2>1. k \in 0 + 1 .. n /\ i + 0 - k = i - k /\ i - k \in Nat
    BY <1>1
  <2>2. Table[i - k] = TableAt(i - k)
    BY <2>1 DEF Table
  <2> QED
    BY <2>1, <2>2 DEF Run, LongPiece, Fitting
<1>3. n <= MaxParts
  <2>1. Fits(TableAt(i - n)) /\ TableAt(i - n).ord = n
    BY <1>1, <1>2 DEF LongPiece
  <2> QED
    BY <1>1, <2>1 DEF Fits
<1>4. Min({i, MaxParts}) = IF i < MaxParts THEN i ELSE MaxParts
  BY <1>1, MinIs
<1>5. n \in lengths
  BY <1>1, <1>2, <1>3, <1>4
<1>6. ASSUME NEW m \in lengths PROVE m = n
  <2>1. m \in Nat /\ 1 <= m /\ LongPiece(i, m, m) /\ \A k \in 1 .. m : LongPiece(i, m, k)
    BY <1>1, <1>4
  <2> HIDE DEF lengths
  <2>2. CASE m < n
    BY <1>1, <1>2, <2>1, <2>2 DEF LongPiece
  <2>3. CASE n < m
    BY <1>1, <1>2, <2>1, <2>3 DEF LongPiece
  <2> QED
    BY <1>1, <2>1, <2>2, <2>3
<1>7. lengths = {n}
  BY <1>5, <1>6
<1>8. LongName(i) = IF lengths = {} THEN <<>>
                    ELSE [k \in 1 .. Max(lengths) |-> TableAt(i - k).part]
  BY DEF LongName
<1> HIDE DEF lengths
<1>9. Max(lengths) = n
  BY <1>1, <1>7, MaxIs
<1>10. lengths # {}
  BY <1>7
<1>11. LongName(i) = [k \in 1 .. n |-> TableAt(i - k).part]
  BY <1>8, <1>9, <1>10, Zenon
<1> QED
  BY <1>1, <1>3, <1>11

\* And a long name is a whole sequence.
LEMMA LongHasRun ==
  ASSUME root \in Roots, NEW i \in Nat, Passed(i), LongName(i) # <<>>
  PROVE  \E n : Run(Table, Fitting, i, 0, n, SumOf[TableAt(i).name])
<1> DEFINE lengths == {m \in 1 .. Min({i, MaxParts}) : \A k \in 1 .. m : LongPiece(i, m, k)}
<1>1. PICK n : n \in lengths
  BY DEF LongName
<1>2. Min({i, MaxParts}) = IF i < MaxParts THEN i ELSE MaxParts
  BY DirAssumption, MinIs
<1>3. n \in Nat /\ 0 < n /\ n <= i /\ \A k \in 1 .. n : LongPiece(i, n, k)
  BY <1>1, <1>2, DirAssumption
<1> HIDE DEF lengths
<1>4. ASSUME NEW k \in 0 + 1 .. n
      PROVE  LET e == Table[i + 0 - k]
             IN /\ e \in Fitting /\ e.kind = "lfn" /\ e.ord = k
                /\ e.sum = SumOf[TableAt(i).name] /\ (e.last <=> k = n)
  <2>1. i + 0 - k = i - k /\ i - k \in Nat /\ i - k \in 0 .. i - 1 /\ k \in 1 .. n
    BY <1>3
  <2>2. Table[i - k] = TableAt(i - k)
    BY <2>1 DEF Table
  <2>3. TableAt(i - k) \in Records
    BY <2>1, TableHas DEF Passed
  <2>4. LongPiece(i, n, k)
    BY <1>3, <2>1
  <2> QED
    BY <2>1, <2>2, <2>3, <2>4 DEF LongPiece, Fitting
<1>5. Run(Table, Fitting, i, 0, n, SumOf[TableAt(i).name])
  BY <1>3, <1>4 DEF Run
<1> QED
  BY <1>5
\* The least of a set.
LEMMA LeastIs ==
  ASSUME NEW S, S \subseteq Nat, NEW n \in S, \A y \in S : n <= y
  PROVE  Min(S) = n
<1>1. \A x \in S : (\A y \in S : x <= y) => x = n
  OBVIOUS
<1> QED
  BY <1>1 DEF Min

\* A name's pieces.
LEMMA NameFacts ==
  ASSUME NEW p \in Names
  PROVE  /\ Len(Parts[p]) \in 1 .. MaxParts /\ MaxParts \in Nat \ {0}
         /\ Parts[p] \in [1 .. Len(Parts[p]) -> STRING]
         /\ \A k \in 1 .. Len(Parts[p]) :
               Parts[p][k] # Cut /\ (k < Len(Parts[p]) => FullPart(Parts[p][k]))
<1>1. Parts[p] \in Seq(STRING) /\ Len(Parts[p]) \in 1 .. MaxParts /\ MaxParts \in Nat \ {0}
  BY NamesAssumption, DirAssumption
<1>2. Parts[p] \in [1 .. Len(Parts[p]) -> STRING]
  BY <1>1, LenProperties
<1> QED
  BY <1>1, <1>2, NamesAssumption

\* LfnBuf has the name that is searched, and its end if nothing of the last piece shows it.
Holds(p) ==
  /\ \A k \in 1 .. Len(Parts[p]) : lfn[k] = Parts[p][k]
  /\ FullPart(Parts[p][Len(Parts[p])]) => lfn[Len(Parts[p]) + 1] = Cut

BufferType == DOMAIN lfn = 1 .. MaxParts + 1

\* The entries that compare equal with it.
Matching == {e \in Fitting : CmpLfn(e)}

\* create_name.
LEMMA CreatedHolds ==
  ASSUME NEW p \in Names, BufferType, CreateName(p)
  PROVE  Holds(p)' /\ BufferType'
<1> DEFINE n == Len(Parts[p])
<1>1. n \in 1 .. MaxParts /\ n \in Nat /\ MaxParts \in Nat
  BY NameFacts
<1>2. lfn' = [i \in 1 .. MaxParts + 1 |->
                IF i <= n THEN Parts[p][i]
                ELSE IF i = n + 1 /\ FullPart(Parts[p][n]) THEN Cut ELSE lfn[i]]
  BY DEF CreateName, BufferType
<1> HIDE DEF n
<1>3. \A k \in 1 .. n : lfn'[k] = Parts[p][k]
  BY <1>1, <1>2
<1>4. FullPart(Parts[p][n]) => lfn'[n + 1] = Cut
  BY <1>1, <1>2
<1>5. DOMAIN lfn' = 1 .. MaxParts + 1
  BY <1>2
<1> QED
  BY <1>3, <1>4, <1>5 DEF Holds, BufferType, n

\* All entries of a whole sequence compare equal with the buffer just if they are the pieces
\* of the name in it: no fewer, since what is behind the end of a shorter one is compared,
\* and no more, since a longer one does not end there.
LEMMA MatchIsName ==
  ASSUME root \in Roots, NEW p \in Names, Holds(p), NEW i \in Nat, Passed(i),
         NEW sum, sum = SumOf[TableAt(i).name]
  PROVE  (\E n : Run(Table, Matching, i, 0, n, sum)) <=> LongName(i) = Parts[p]
<1> DEFINE size == Len(Parts[p])
<1>1. /\ size \in 1 .. MaxParts /\ size \in Nat /\ MaxParts \in Nat
      /\ Parts[p] \in [1 .. size -> STRING]
      /\ \A k \in 1 .. size : lfn[k] = Parts[p][k] /\ Parts[p][k] # Cut
      /\ \A k \in 1 .. size : k < size => FullPart(Parts[p][k])
      /\ FullPart(Parts[p][size]) => lfn[size + 1] = Cut
  BY NameFacts DEF Holds
<1> HIDE DEF size
<1>2. \A k \in 1 .. i : Table[i + 0 - k] = TableAt(i - k)
  BY DEF Table
<1>3. ASSUME NEW n, Run(Table, Matching, i, 0, n, sum) PROVE LongName(i) = Parts[p]
  <2>1. Run(Table, Fitting, i, 0, n, sum)
    BY <1>3 DEF Run, Matching
  <2>2. /\ n \in 1 .. MaxParts /\ n \in Nat /\ n <= i
        /\ LongName(i) = [k \in 1 .. n |-> TableAt(i - k).part]
    <3>1. Run(Table, Fitting, i, 0, n, SumOf[TableAt(i).name])
      BY <2>1
    <3>2. /\ n \in 1 .. MaxParts /\ n <= i
          /\ LongName(i) = [k \in 1 .. n |-> TableAt(i - k).part]
      BY <3>1, LongIs
    <3> QED
      BY <1>1, <3>2
  <2>3. ASSUME NEW k \in 1 .. n
        PROVE  LET e == TableAt(i - k)
               IN /\ e \in Records /\ Fits(e) /\ e.kind = "lfn" /\ e.ord = k
                  /\ (e.last <=> k = n) /\ lfn[k] = e.part
                  /\ e.last /\ FullPart(e.part) => lfn[k + 1] = Cut
    <3>1. k \in 0 + 1 .. n /\ k \in 1 .. i
      BY <2>2
    <3>2. Table[i + 0 - k] = TableAt(i - k)
      BY <1>2, <3>1
    <3> QED
      BY <1>3, <3>1, <3>2 DEF Run, Matching, Fitting, CmpLfn
  <2>4. ~(n < size)
    <3> SUFFICES ASSUME n < size PROVE FALSE
      OBVIOUS
    <3>1. n \in 1 .. size /\ n + 1 \in 1 .. size /\ n \in 1 .. n
      BY <1>1, <2>2
    <3>2. TableAt(i - n).part = Parts[p][n] /\ FullPart(Parts[p][n])
      BY <1>1, <2>3, <3>1
    <3>3. lfn[n + 1] = Cut
      BY <2>3, <3>1, <3>2
    <3> QED
      BY <1>1, <3>1, <3>3
  <2>5. ~(size < n)
    <3> SUFFICES ASSUME size < n PROVE FALSE
      OBVIOUS
    <3>1. size \in 1 .. n /\ size + 1 \in 1 .. n /\ size \in 1 .. size
      BY <1>1, <2>2
    <3>2. FullPart(TableAt(i - size).part) /\ TableAt(i - size).part = Parts[p][size]
      <4>1. ~TableAt(i - size).last
        BY <2>3, <3>1
      <4> QED
        BY <1>1, <2>3, <3>1, <4>1, RecordFacts
    <3>3. TableAt(i - (size + 1)).part = Cut
      BY <1>1, <2>3, <3>1, <3>2
    <3> QED
      BY <2>3, <3>1, <3>3, RecordFacts
  <2>6. n = size
    BY <1>1, <2>2, <2>4, <2>5
  <2>7. \A k \in 1 .. size : TableAt(i - k).part = Parts[p][k]
    BY <1>1, <2>3, <2>6
  <2>8. Parts[p] = [k \in 1 .. size |-> Parts[p][k]]
    BY <1>1
  <2> QED
    BY <2>2, <2>6, <2>7, <2>8
<1>4. ASSUME LongName(i) = Parts[p] PROVE \E n : Run(Table, Matching, i, 0, n, sum)
  <2>1. DOMAIN Parts[p] = 1 .. size /\ 1 \in 1 .. size
    BY <1>1
  <2>2. LongName(i) # <<>>
    <3>1. Len(Parts[p]) = size /\ size # 0 /\ Len(<<>>) = 0
      BY <1>1 DEF size
    <3> QED
      BY <1>4, <3>1
  <2>3. PICK n : Run(Table, Fitting, i, 0, n, sum)
    BY <2>2, LongHasRun
  <2>4. /\ n \in 1 .. MaxParts /\ n \in Nat /\ n <= i
        /\ LongName(i) = [k \in 1 .. n |-> TableAt(i - k).part]
    BY <1>1, <2>3, LongIs
  <2>5. 1 .. n = 1 .. size
    BY <1>4, <2>1, <2>4
  <2>6. n = size
    BY <1>1, <2>4, <2>5
  <2>7. ASSUME NEW k \in 0 + 1 .. n PROVE Table[i + 0 - k] \in Matching
    <3>1. k \in 1 .. i /\ k \in 1 .. n /\ k \in 1 .. size /\ k \in Nat
      BY <2>4, <2>6
    <3>2. Table[i + 0 - k] = TableAt(i - k)
      BY <1>2, <3>1
    <3>3. /\ TableAt(i - k) \in Fitting /\ TableAt(i - k).ord = k
          /\ TableAt(i - k).last <=> k = n
      BY <2>3, <3>2 DEF Run
    <3>4. TableAt(i - k).part = Parts[p][k]
      BY <1>4, <2>4, <3>1
    <3> QED
      BY <1>1, <2>6, <3>1, <3>2, <3>3, <3>4 DEF Matching, Fitting, CmpLfn
  <2>8. Run(Table, Matching, i, 0, n, sum)
    BY <2>3, <2>7 DEF Run
  <2> QED
    BY <2>8
<1> QED
  BY <1>3, <1>4

\* What a sequence was before its last entry so far.
LEMMA RunBack ==
  ASSUME NEW T, NEW M, NEW j \in Nat, NEW p, NEW n, NEW t,
         NEW i, i = j + 1, Run(T, M, i, p, n, t)
  PROVE  p + 1 # n => Run(T, M, j, p + 1, n, t)
<1>1. p \in Nat /\ n \in Nat /\ p < n /\ n <= j + 1 + p
  BY DEF Run
<1>2. ASSUME p + 1 # n PROVE Run(T, M, j, p + 1, n, t)
  <2>1. p + 1 \in Nat /\ n \in Nat /\ p + 1 < n /\ n <= j + (p + 1)
    BY <1>1, <1>2
  <2>2. \A k \in (p + 1) + 1 .. n : k \in p + 1 .. n /\ j + (p + 1) - k = j + 1 + p - k
    BY <1>1
  <2> QED
    BY <2>1, <2>2 DEF Run
<1> QED
  BY <1>2

\* A listing's buffer b has the pieces of the sequence so far, and the end of its last one.
Buffers(T, b, j, o, s) == \A n : Run(T, Fitting, j, o, n, s) =>
  /\ \A k \in o + 1 .. n : b[k] = T[j + o - k].part
  /\ FullPart(b[n]) => b[n + 1] = Cut

\* pick_lfn.
LEMMA BufferStep ==
  ASSUME NEW T, NEW j \in Nat, NEW o, NEW s, Tracks(T, Fitting, j, o, s), BufferType,
         Buffers(T, lfn, j, o, s), NEW e, e = T[j], e \in Records, e.kind = "lfn",
         NEW ord, NEW sum, e.last => sum = e.sum, ~e.last => sum = s,
         ~Expected(o, s, e) => ord = NoSeq,
         NEW b, b = IF Expected(o, s, e) THEN PickLfn(e) ELSE lfn
  PROVE  Buffers(T, b, j + 1, ord, sum)
<1> SUFFICES ASSUME NEW n, Run(T, Fitting, j + 1, ord, n, sum)
             PROVE  /\ \A k \in ord + 1 .. n : b[k] = T[j + 1 + ord - k].part
                    /\ FullPart(b[n]) => b[n + 1] = Cut
  BY DEF Buffers
<1>1. /\ Fits(e) /\ e.ord = ord + 1 /\ e.sum = sum /\ (e.last <=> ord + 1 = n)
      /\ ord + 1 # n => Run(T, Fitting, j, ord + 1, n, sum)
  <2>1. ord \in Nat /\ n \in Nat /\ ord < n
    BY DEF Run
  <2>2. ord + 1 \in ord + 1 .. n /\ j + 1 + ord - (ord + 1) = j
    BY <2>1
  <2>3. e \in Fitting /\ e.ord = ord + 1 /\ e.sum = sum /\ (e.last <=> ord + 1 = n)
    BY <2>2 DEF Run
  <2>4. ord + 1 # n => Run(T, Fitting, j, ord + 1, n, sum)
    BY RunBack
  <2> QED
    BY <2>3, <2>4 DEF Fitting
<1>2. ord \in Nat /\ n \in Nat /\ ord < n /\ MaxParts \in Nat /\ e.ord \in Nat \ {0}
  BY RecordFacts, DirAssumption DEF Run
<1>3. e.ord <= MaxParts
  BY <1>1, <1>2 DEF Fits
<1>4. b = [i \in 1 .. MaxParts + 1 |->
             IF i = e.ord /\ i <= MaxParts THEN e.part
             ELSE IF i = e.ord + 1 /\ e.last /\ FullPart(e.part) THEN Cut ELSE lfn[i]]
  <2>1. Expected(o, s, e)
    BY <1>2 DEF NoSeq
  <2> QED
    BY <1>1, <2>1 DEF PickLfn, BufferType
<1>5. b[e.ord] = e.part
  BY <1>2, <1>3, <1>4
<1>6. CASE e.last
  <2>1. n = e.ord /\ n + 1 \in 1 .. MaxParts + 1
    BY <1>1, <1>2, <1>3, <1>6
  <2>2. \A k \in ord + 1 .. n : k = e.ord /\ j + 1 + ord - k = j
    BY <1>1, <1>2, <2>1
  <2>3. FullPart(e.part) => b[n + 1] = Cut
    BY <1>2, <1>4, <1>6, <2>1
  <2> QED
    BY <1>5, <2>1, <2>2, <2>3
<1>7. CASE ~e.last
  <2>1. Run(T, Fitting, j, ord + 1, n, sum) /\ e.ord < n
    BY <1>1, <1>2, <1>7
  <2>2. o = ord + 1 /\ s = sum /\ o = e.ord
    BY <1>1, <2>1 DEF Tracks
  <2>3. /\ \A k \in o + 1 .. n : lfn[k] = T[j + o - k].part
        /\ FullPart(lfn[n]) => lfn[n + 1] = Cut
    BY <2>1, <2>2 DEF Buffers
  <2>4. n <= MaxParts
    <3>1. n \in (ord + 1) + 1 .. n
      BY <1>1, <1>2, <2>1
    <3>2. PICK x : x \in Fitting /\ x.ord = n
      BY <2>1, <3>1 DEF Run
    <3> QED
      BY <1>2, <3>2 DEF Fitting, Fits
  <2>5. ASSUME NEW k \in 1 .. MaxParts + 1, k # e.ord PROVE b[k] = lfn[k]
    BY <1>4, <1>7, <2>5
  <2>6. b[n] = lfn[n] /\ b[n + 1] = lfn[n + 1]
    BY <1>2, <2>1, <2>4, <2>5
  <2>7. ASSUME NEW k \in ord + 1 .. n PROVE b[k] = T[j + 1 + ord - k].part
    <3>1. CASE k = e.ord
      <4>1. j + 1 + ord - k = j
        BY <1>1, <1>2, <3>1
      <4> QED
        BY <1>5, <3>1, <4>1
    <3>2. CASE k # e.ord
      <4>1. k \in o + 1 .. n /\ k \in 1 .. MaxParts + 1 /\ j + 1 + ord - k = j + o - k
        BY <1>1, <1>2, <2>2, <2>4, <3>2
      <4> QED
        BY <2>3, <2>5, <3>2, <4>1
    <3> QED
      BY <3>1, <3>2
  <2> QED
    BY <2>3, <2>6, <2>7
<1> QED
  BY <1>2, <1>6, <1>7, RecordFacts

\* The name in the buffer behind a whole sequence is the long name.
LEMMA LfnNameIs ==
  ASSUME NEW i \in Nat, NEW n, NEW s, Run(Table, Fitting, i, 0, n, s),
         Buffers(Table, lfn, i, 0, s)
  PROVE  LfnName = [k \in 1 .. n |-> TableAt(i - k).part]
<1> DEFINE ends == {k \in 1 .. MaxParts : lfn[k + 1] = Cut \/ ~FullPart(lfn[k])}
<1>1. n \in Nat /\ 0 < n /\ n <= i /\ MaxParts \in Nat
  BY DirAssumption DEF Run
<1>2. ASSUME NEW k \in 1 .. n
      PROVE  LET e == TableAt(i - k)
             IN /\ e \in Records /\ Fits(e) /\ e.kind = "lfn" /\ e.ord = k
                /\ (e.last <=> k = n) /\ lfn[k] = e.part
  <2>1. k \in 0 + 1 .. n /\ i + 0 - k = i - k /\ i - k \in Nat
    BY <1>1
  <2>2. Table[i - k] = TableAt(i - k)
    BY <2>1 DEF Table
  <2>3. lfn[k] = TableAt(i - k).part
    BY <2>1, <2>2 DEF Buffers
  <2> QED
    BY <2>1, <2>2, <2>3 DEF Run, Fitting
<1>3. n \in 1 .. MaxParts
  BY <1>1, <1>2 DEF Fits
<1>4. n \in ends
  BY <1>3 DEF Buffers
<1>5. ASSUME NEW k \in ends, k < n PROVE FALSE
  <2>1. k \in 1 .. n /\ k + 1 \in 1 .. n /\ k # n
    BY <1>1, <1>5
  <2>2. FullPart(lfn[k]) /\ lfn[k + 1] # Cut
    <3>1. FullPart(TableAt(i - k).part) /\ TableAt(i - (k + 1)).part # Cut
      BY <1>2, <2>1, RecordFacts
    <3> QED
      BY <1>2, <2>1, <3>1
  <2> QED
    BY <2>2
<1>6. \A k \in ends : k \in Nat /\ n <= k
  <2>1. \A k \in ends : k \in Nat
    BY <1>1
  <2> HIDE DEF ends
  <2> QED
    BY <1>1, <1>5, <2>1
<1>7. LfnName = [k \in 1 .. Min(ends) |-> lfn[k]]
  BY DEF LfnName
<1> HIDE DEF ends
<1>8. Min(ends) = n
  BY <1>4, <1>6, LeastIs
<1>9. LfnName = [k \in 1 .. n |-> lfn[k]]
  BY <1>7, <1>8, Zenon
<1> QED
  BY <1>2, <1>9
--------------------------------------------------------------------------------
(* The invariant                                                           *)

\* How far a search or a listing has seen.
Ahead == IF call.at = "look" THEN call.d.index ELSE call.d.index + 1

\* The shows among the first j entries are listed, in their order.
Counted(j) ==
  /\ Len(listed) = Cardinality(ShowsBefore(j))
  /\ \A i \in ShowsBefore(j) :
        LET n == Cardinality(ShowsBefore(i)) + 1
        IN n \in 1 .. Len(listed) /\ listed[n][2] = TableAt(i) /\ IsShown(i, listed[n][1])

\* The show that is to play is the last one listed, by the name it is searched by.
Picked(p) ==
  /\ p \in Shows /\ walk.index = Len(listed)
  /\ \E i \in Stored : IsShown(i, p) /\ listed[walk.index] = <<p, TableAt(i)>>

SearchInv == call.op = "find" =>
  /\ call.at \in {"look", "next"} /\ call.path \in Names /\ Holds(call.path)
  /\ AtEntry(call.d) /\ Passed(Ahead)
  /\ Tracks(Table, Matching, Ahead, call.ord, call.sum)
  /\ \A i \in 0 .. Ahead - 1 : ~IsNamed(i, call.path)
  /\ walk # NoWalk => Picked(call.path)

\* f_readdir, unless the object was at the directory's end before.
ListInv == call.op = "readdir" /\ (call.at # "look" \/ call.d.sect # 0) =>
  /\ call.at \in {"look", "next", "hit"} /\ AtEntry(call.d) /\ Passed(Ahead)
  /\ call.at # "hit" =>
       /\ Counted(Ahead)
       /\ Tracks(Table, Fitting, Ahead, call.ord, call.sum)
       /\ Buffers(Table, lfn, Ahead, call.ord, call.sum)
  /\ call.at = "hit" =>
       /\ Counted(call.d.index)
       /\ call.entry = TableAt(call.d.index) /\ Listable(call.entry)
       /\ \A p \in Names : IsShown(call.d.index, p) <=> call.name = p

\* Between two calls of a walk the object is behind an entry that is no piece of a name.
WalkInv ==
  /\ BufferType /\ listed \in Seq(Shows \X Records) /\ walk \in [index : Int, i : Nat]
  /\ call.op = "readdir" => walk # NoWalk
  /\ walk # NoWalk /\ call.op \in {"none", "readdir"} => walk.i = Len(listed) + 1
  /\ walk # NoWalk /\ call.op = "none" /\ dir.sect # 0 =>
       /\ AtEntry(dir) /\ Passed(dir.index) /\ Counted(dir.index)
       /\ dir.index = 0 \/ Table[dir.index - 1].kind # "lfn"
  /\ call.op = "open" => walk # NoWalk /\ Picked(call.name)

DirInv == SearchInv /\ ListInv /\ WalkInv

--------------------------------------------------------------------------------
(* What stays                                                              *)

\* The card is the same, so its directory is.
LEMMA RootStays ==
  ASSUME root' = root
  PROVE  /\ Table' = Table /\ Stored' = Stored
         /\ \A i : TableAt(i)' = TableAt(i)
         /\ \A i, p : /\ IsNamed(i, p)' <=> IsNamed(i, p)
                      /\ IsShown(i, p)' <=> IsShown(i, p)
         /\ \A d : AtEntry(d)' <=> AtEntry(d)
         /\ \A j : (Passed(j)' <=> Passed(j)) /\ ShowsBefore(j)' = ShowsBefore(j)
<1>1. \A i : TableAt(i)' = TableAt(i) /\ (InTable(i)' <=> InTable(i))
  BY DEF TableAt, InTable
<1>2. Table' = Table /\ Stored' = Stored /\ \A j : Passed(j)' <=> Passed(j)
  BY <1>1 DEF Table, Stored, Passed
<1>3. \A i, n, k : LongPiece(i, n, k)' <=> LongPiece(i, n, k)
  BY <1>1 DEF LongPiece
<1>4. \A i : LongName(i)' = LongName(i)
  BY <1>1, <1>3 DEF LongName
<1>5. \A i, p : (IsNamed(i, p)' <=> IsNamed(i, p)) /\ (IsShown(i, p)' <=> IsShown(i, p))
  BY <1>1, <1>4 DEF IsNamed, IsShown
<1>6. \A i : IsShow(i)' <=> IsShow(i)
  BY <1>1, <1>5 DEF IsShow
<1>7. \A j : ShowsBefore(j)' = ShowsBefore(j)
  BY <1>6 DEF ShowsBefore
<1>8. \A d : AtEntry(d)' <=> AtEntry(d)
  BY DEF AtEntry, DirPlace
<1> QED
  BY <1>1, <1>2, <1>5, <1>7, <1>8

\* No call in the directory, and no walk.
LEMMA Away ==
  ASSUME call'.op \in {"none", "read"}, walk' = NoWalk, listed' = <<>> \/ listed' = listed,
         lfn' = lfn, WalkInv
  PROVE  DirInv'
<1>1. SearchInv' /\ ListInv'
  BY DEF SearchInv, ListInv
<1>2. listed' \in Seq(Shows \X Records) /\ BufferType'
  BY EmptySeq DEF WalkInv, BufferType
<1>3. WalkInv'
  BY <1>2 DEF WalkInv, NoWalk
<1> QED
  BY <1>1, <1>3 DEF DirInv

\* The listing and the show picked stay with the walk.
LEMMA WalkStays ==
  ASSUME root' = root, UNCHANGED walkVars
  PROVE  /\ \A j : Counted(j)' <=> Counted(j)
         /\ \A p : Picked(p)' <=> Picked(p)
         /\ walk' = walk /\ listed' = listed
BY RootStays DEF walkVars, Counted, Picked

--------------------------------------------------------------------------------
(* Searching                                                               *)

\* dir_find knows the entry that the path names.
LEMMA SearchExact ==
  ASSUME FsInv, DirInv, At("find", "look"), NEW e, e = EntryOf(call.d), NEW i, i = call.d.index
  PROVE  /\ i \in 0 .. IndexMod - 1 /\ i \in Nat /\ InTable(i) /\ Ahead = i
         /\ e = TableAt(i) /\ e \in Records
         /\ Found(e) <=> IsNamed(i, call.path)
<1>1. root \in Roots /\ call.op = "find" /\ Ahead = i
  BY DEF FsInv, CallInv, At, Ahead
<1>2. /\ AtEntry(call.d) /\ call.path \in Names /\ Holds(call.path) /\ Passed(i)
      /\ Tracks(Table, Matching, i, call.ord, call.sum)
  BY <1>1 DEF DirInv, SearchInv
<1>3. /\ i \in 0 .. IndexMod - 1 /\ i \in Nat /\ InTable(i)
      /\ e = TableAt(i) /\ e \in Records
  BY <1>1, <1>2, EntryIs
<1>4. PICK sum : sum = SumOf[e.name]
  OBVIOUS
<1>5. (\E n : Run(Table, Matching, i, 0, n, sum)) <=> LongName(i) = Parts[call.path]
  BY <1>1, <1>2, <1>3, <1>4, MatchIsName
<1>6. LfnFound(e) <=> \E n : Run(Table, Matching, i, 0, n, sum)
  BY <1>2, <1>4 DEF LfnFound, Tracks, NoSeq
<1>7. Found(e) <=> IsNamed(i, call.path)
  BY <1>3, <1>5, <1>6 DEF Found, SfnFound, IsNamed
<1> QED
  BY <1>1, <1>3, <1>7

\* An entry that is passed.
LEMMA FindPassKeeps ==
  ASSUME FsInv, DirInv, At("find", "look"), FindPass(EntryOf(call.d)), UNCHANGED walkVars
  PROVE  DirInv'
<1>0. PICK e, i : e = EntryOf(call.d) /\ i = call.d.index
  OBVIOUS
<1>1. /\ call.op = "find" /\ call.at = "look"
      /\ call = [op |-> "find", at |-> "look", h |-> call.h, path |-> call.path,
                 d |-> call.d, ord |-> call.ord, sum |-> call.sum]
  BY DEF At, FsInv, FindInv
<1>2. /\ e.kind # "end" /\ ~Found(e) /\ call' = FindSkip(e)
      /\ root' = root /\ lfn' = lfn /\ dir' = dir
  BY <1>0 DEF FindPass, dirVars
<1>3. /\ i \in Nat /\ InTable(i) /\ e = TableAt(i) /\ e \in Records /\ Ahead = i
      /\ ~IsNamed(i, call.path) /\ Table[i] = e
  <2>1. /\ i \in Nat /\ InTable(i) /\ e = TableAt(i) /\ e \in Records /\ Ahead = i
        /\ ~IsNamed(i, call.path)
    BY <1>0, <1>2, SearchExact
  <2> QED
    BY <2>1 DEF Table
<1>4. /\ call.path \in Names /\ Holds(call.path) /\ AtEntry(call.d) /\ Passed(i)
      /\ Tracks(Table, Matching, i, call.ord, call.sum)
      /\ \A k \in 0 .. i - 1 : ~IsNamed(k, call.path)
      /\ walk # NoWalk => Picked(call.path)
  BY <1>1, <1>3 DEF DirInv, SearchInv
<1>5. PICK ord, sum :
        /\ call' = [op |-> "find", at |-> "next", h |-> call.h, path |-> call.path,
                    d |-> call.d, ord |-> ord, sum |-> sum]
        /\ Tracks(Table, Matching, i + 1, ord, sum)
  <2>1. CASE e.kind = "lfn"
    <3> DEFINE follows == Expected(call.ord, call.sum, e) /\ CmpLfn(e)
    <3>1. PICK ord, sum : /\ ord = IF follows THEN e.ord - 1 ELSE NoSeq
                          /\ sum = IF e.last THEN e.sum ELSE call.sum
      OBVIOUS
    <3>2. call' = [call EXCEPT !.at = "next", !.ord = ord, !.sum = sum]
      BY <1>2, <2>1, <3>1 DEF FindSkip
    <3>3. call' = [op |-> "find", at |-> "next", h |-> call.h, path |-> call.path,
                   d |-> call.d, ord |-> ord, sum |-> sum]
      BY <1>1, <3>2
    <3>4. e \in Matching <=> CmpLfn(e)
      BY <1>3, <2>1 DEF Matching, Fitting, CmpLfn
    <3>5. Matching \subseteq Records
      BY DEF Matching, Fitting
    <3>6. Tracks(Table, Matching, i + 1, ord, sum)
      BY <1>3, <1>4, <2>1, <3>1, <3>4, <3>5, RunStep
    <3> QED
      BY <3>3, <3>6
  <2>2. CASE e.kind # "lfn"
    <3>1. call' = [call EXCEPT !.at = "next", !.ord = NoSeq]
      BY <1>2, <2>2 DEF FindSkip
    <3>2. call' = [op |-> "find", at |-> "next", h |-> call.h, path |-> call.path,
                   d |-> call.d, ord |-> NoSeq, sum |-> call.sum]
      BY <1>1, <3>1
    <3>3. i + 1 \in Nat /\ (i + 1) - 1 = i
      BY <1>3
    <3>4. Table[(i + 1) - 1].kind # "lfn"
      BY <1>3, <2>2, <3>3
    <3>5. Tracks(Table, Matching, i + 1, NoSeq, call.sum)
      BY <3>3, <3>4, NoRun
    <3> QED
      BY <3>2, <3>5
  <2> QED
    BY <2>1, <2>2
<1>6. Ahead' = i + 1 /\ Matching' = Matching /\ Holds(call.path)'
  BY <1>0, <1>2, <1>4, <1>5 DEF Ahead, Matching, CmpLfn, Holds
<1>7. Passed(i + 1) /\ \A k \in 0 .. (i + 1) - 1 : ~IsNamed(k, call.path)
  BY <1>2, <1>3, <1>4 DEF Passed
<1>8. SearchInv'
  BY <1>2, <1>4, <1>5, <1>6, <1>7, RootStays, WalkStays DEF SearchInv
<1>9. ListInv'
  BY <1>5 DEF ListInv
<1>10. WalkInv'
  BY <1>2, <1>5 DEF DirInv, WalkInv, BufferType, walkVars
<1> QED
  BY <1>8, <1>9, <1>10 DEF DirInv
\* dir_next in a search.
LEMMA FindNextKeeps ==
  ASSUME FsInv, DirInv, FindNext, UNCHANGED walkVars
  PROVE  DirInv'
<1>1. /\ call.op = "find" /\ call.at = "next" /\ CallInv
      /\ call = [op |-> "find", at |-> "next", h |-> call.h, path |-> call.path,
                 d |-> call.d, ord |-> call.ord, sum |-> call.sum]
      /\ root' = root /\ lfn' = lfn /\ dir' = dir
  BY DEF FindNext, At, FsInv, FindInv, dirVars
<1>2. PICK o \in NextOutcomes(call.d) :
        o.res = "OK" /\ call' = [call EXCEPT !.at = "look", !.d = o.d]
  BY DEF FindNext
<1>3. /\ call.path \in Names /\ Holds(call.path) /\ AtEntry(call.d) /\ Passed(Ahead)
      /\ Tracks(Table, Matching, Ahead, call.ord, call.sum)
      /\ \A k \in 0 .. Ahead - 1 : ~IsNamed(k, call.path)
      /\ walk # NoWalk => Picked(call.path)
  BY <1>1 DEF DirInv, SearchInv
<1>4. AtEntry(o.d) /\ o.d.index = Ahead
  BY <1>1, <1>2, <1>3, NextAtEntry DEF Ahead
<1>5. call' = [op |-> "find", at |-> "look", h |-> call.h, path |-> call.path,
               d |-> o.d, ord |-> call.ord, sum |-> call.sum]
  BY <1>1, <1>2
<1>6. Ahead' = Ahead /\ Matching' = Matching /\ Holds(call.path)'
  BY <1>1, <1>3, <1>4, <1>5 DEF Ahead, Matching, CmpLfn, Holds
<1>7. SearchInv'
  BY <1>1, <1>3, <1>4, <1>5, <1>6, RootStays, WalkStays DEF SearchInv
<1>8. ListInv'
  BY <1>5 DEF ListInv
<1>9. WalkInv'
  BY <1>1, <1>5 DEF DirInv, WalkInv, BufferType, walkVars
<1> QED
  BY <1>7, <1>8, <1>9 DEF DirInv

\* follow_path begins with the name in the buffer and at the first entry.
LEMMA SearchBegins ==
  ASSUME FsInv, DirInv, NEW h, NEW p \in Names, call' = FindCall(h, p), CreateName(p),
         root' = root, UNCHANGED walkVars, walk # NoWalk => Picked(p)
  PROVE  DirInv'
<1>1. /\ call' = [op |-> "find", at |-> "look", h |-> h, path |-> p, d |-> DirTop,
                  ord |-> NoSeq, sum |-> NoSeq]
  BY DEF FindCall
<1>2. AtEntry(DirTop) /\ DirTop.index = 0
  BY TopAtEntry DEF FsInv
<1>3. Holds(p)' /\ BufferType'
  BY CreatedHolds DEF DirInv, WalkInv
<1>4. Ahead' = 0
  BY <1>1, <1>2 DEF Ahead
<1>5. Passed(0) /\ \A k \in 0 .. 0 - 1 : ~IsNamed(k, p)
  BY DEF Passed
<1>6. Tracks(Table, Matching', 0, NoSeq, NoSeq)
  BY NoRun
<1>7. SearchInv'
  BY <1>1, <1>2, <1>3, <1>4, <1>5, <1>6, RootStays, WalkStays DEF SearchInv
<1>8. ListInv'
  BY <1>1 DEF ListInv
<1>9. WalkInv'
  BY <1>1, <1>3 DEF DirInv, WalkInv, walkVars
<1> QED
  BY <1>7, <1>8, <1>9 DEF DirInv

\* A step of the search.
LEMMA FindStepKeeps ==
  ASSUME FsInv, DirInv, FindStep
  PROVE  DirInv'
<1>1. CASE OpenFails
  <2>1. /\ call' = NoCall /\ walk' = NoWalk /\ listed' = <<>> /\ lfn' = lfn
    BY <1>1 DEF OpenFails, Return, EndOfWalk
  <2> QED
    BY <2>1, Away DEF NoCall, DirInv
<1>2. CASE FindNext /\ UNCHANGED <<fileVars, walkVars>>
  BY <1>2, FindNextKeeps
<1>3. ASSUME At("find", "look"), FindPass(EntryOf(call.d)), UNCHANGED walkVars
      PROVE  DirInv'
  BY <1>3, FindPassKeeps
<1>4. ASSUME OpenEnds(EntryOf(call.d)) PROVE DirInv'
  <2>1. /\ call' = NoCall /\ walk' = NoWalk /\ listed' = <<>> /\ lfn' = lfn
    BY <1>4 DEF OpenEnds, Return, EndOfWalk
  <2> QED
    BY <2>1, Away DEF NoCall, DirInv
<1> QED
  BY <1>1, <1>2, <1>3, <1>4 DEF FindStep

--------------------------------------------------------------------------------
(* Listing                                                                 *)

\* The shows before an entry.
LEMMA ShowsAre ==
  ASSUME NEW j \in Nat
  PROVE  /\ IsFiniteSet(ShowsBefore(j)) /\ Cardinality(ShowsBefore(j)) \in Nat
         /\ ShowsBefore(j) \subseteq 0 .. j - 1
         /\ IsShow(j) => /\ ShowsBefore(j + 1) = ShowsBefore(j) \cup {j}
                         /\ Cardinality(ShowsBefore(j + 1)) = Cardinality(ShowsBefore(j)) + 1
         /\ ~IsShow(j) => ShowsBefore(j + 1) = ShowsBefore(j)
<1>1. ShowsBefore(j) \subseteq 0 .. j - 1
  BY DEF ShowsBefore
<1>2. IsFiniteSet(0 .. j - 1)
  BY FS_Interval
<1>3. IsFiniteSet(ShowsBefore(j)) /\ Cardinality(ShowsBefore(j)) \in Nat
  BY <1>1, <1>2, FS_Subset, FS_CardinalityType
<1>4. IsShow(j) => ShowsBefore(j + 1) = ShowsBefore(j) \cup {j}
  BY DEF ShowsBefore
<1>5. ~IsShow(j) => ShowsBefore(j + 1) = ShowsBefore(j)
  BY DEF ShowsBefore
<1>6. j \notin ShowsBefore(j)
  BY <1>1
<1>7. Cardinality(ShowsBefore(j) \cup {j}) = Cardinality(ShowsBefore(j)) + 1
  BY <1>3, <1>6, FS_AddElement
<1> QED
  BY <1>1, <1>3, <1>4, <1>5, <1>7

\* An entry that is no show is not counted.
LEMMA NotCounted ==
  ASSUME NEW j \in Nat, Counted(j), ~IsShow(j)
  PROVE  Counted(j + 1)
BY ShowsAre DEF Counted

\* One that is a show is.
LEMMA NowCounted ==
  ASSUME NEW j \in Nat, Counted(j), IsShow(j), root' = root, listed \in Seq(Shows \X Records),
         NEW p \in Shows, TableAt(j) \in Records, IsShown(j, p),
         listed' = Append(listed, <<p, TableAt(j)>>)
  PROVE  /\ Counted(j + 1)' /\ listed' \in Seq(Shows \X Records)
         /\ Len(listed') = Len(listed) + 1 /\ listed'[Len(listed')] = <<p, TableAt(j)>>
<1> DEFINE x == <<p, TableAt(j)>>
           size == Len(listed)
<1>1. x \in Shows \X Records /\ x[1] = p /\ x[2] = TableAt(j)
  OBVIOUS
<1> HIDE DEF x
<1>2. /\ listed' \in Seq(Shows \X Records) /\ Len(listed') = size + 1 /\ size \in Nat
      /\ \A n \in 1 .. size : listed'[n] = listed[n]
      /\ listed'[size + 1] = x
  BY <1>1 DEF x
<1>3. /\ size = Cardinality(ShowsBefore(j))
      /\ \A i \in ShowsBefore(j) :
            LET n == Cardinality(ShowsBefore(i)) + 1
            IN n \in 1 .. size /\ listed[n][2] = TableAt(i) /\ IsShown(i, listed[n][1])
  BY DEF Counted
<1> HIDE DEF size
<1>4. /\ ShowsBefore(j + 1) = ShowsBefore(j) \cup {j}
      /\ Cardinality(ShowsBefore(j + 1)) = size + 1
  BY <1>3, ShowsAre
<1>5. ASSUME NEW i \in ShowsBefore(j + 1)
      PROVE  LET n == Cardinality(ShowsBefore(i)) + 1
             IN n \in 1 .. size + 1 /\ listed'[n][2] = TableAt(i) /\ IsShown(i, listed'[n][1])
  <2>1. CASE i = j
    <3>1. Cardinality(ShowsBefore(i)) + 1 = size + 1
      BY <1>3, <2>1
    <3>2. size + 1 \in 1 .. size + 1
      BY <1>2
    <3> QED
      BY <1>1, <1>2, <2>1, <3>1, <3>2
  <2>2. CASE i # j
    <3>1. i \in ShowsBefore(j)
      BY <1>4, <2>2
    <3>2. PICK n : n = Cardinality(ShowsBefore(i)) + 1
      OBVIOUS
    <3>3. n \in 1 .. size /\ listed[n][2] = TableAt(i) /\ IsShown(i, listed[n][1])
      BY <1>3, <3>1, <3>2
    <3>4. n \in 1 .. size + 1 /\ listed'[n] = listed[n]
      BY <1>2, <3>3
    <3> QED
      BY <3>2, <3>3, <3>4
  <2> QED
    BY <2>1, <2>2
<1>6. Counted(j + 1)'
  BY <1>2, <1>4, <1>5, RootStays DEF Counted
<1> QED
  BY <1>2, <1>6 DEF x, size

\* What get_fileinfo shows of an entry is its name as the directory has it.
LEMMA ShownIs ==
  ASSUME root \in Roots, NEW i \in Nat, Passed(i), NEW e, e = TableAt(i), Listable(e), e \in Records,
         Tracks(Table, Fitting, i, call.ord, call.sum),
         Buffers(Table, lfn, i, call.ord, call.sum)
  PROVE  \A p \in Names : IsShown(i, p) <=> ShownName(e) = p
<1>1. PICK sum : sum = SumOf[e.name]
  OBVIOUS
<1>2. ASSUME HasLong(e) PROVE LongName(i) # <<>> /\ LfnName = LongName(i)
  <2>1. call.ord = 0 /\ call.sum = sum
    BY <1>1, <1>2 DEF HasLong
  <2>2. PICK n : Run(Table, Fitting, i, 0, n, sum)
    BY <2>1 DEF Tracks, NoSeq
  <2>3. Run(Table, Fitting, i, 0, n, SumOf[TableAt(i).name])
    BY <1>1, <2>2
  <2>4. n \in 1 .. MaxParts /\ LongName(i) = [k \in 1 .. n |-> TableAt(i - k).part]
    BY <2>3, LongIs
  <2>5. LfnName = [k \in 1 .. n |-> TableAt(i - k).part]
    BY <2>1, <2>2, LfnNameIs
  <2>6. LongName(i) # <<>>
    <3>1. DOMAIN LongName(i) = 1 .. n /\ 1 \in 1 .. n
      BY <2>4, DirAssumption
    <3>2. DOMAIN <<>> = {}
      OBVIOUS
    <3> QED
      BY <3>1, <3>2
  <2> QED
    BY <2>4, <2>5, <2>6
<1>3. ASSUME LongName(i) # <<>> PROVE HasLong(e)
  <2>1. PICK n : Run(Table, Fitting, i, 0, n, SumOf[TableAt(i).name])
    BY <1>3, LongHasRun
  <2> QED
    BY <2>1 DEF Tracks, HasLong
<1> DEFINE long == HasLong(e) /\ Len(LfnName) <= NameParts
           shown == IF long THEN {p \in Names : Parts[p] = LfnName}
                    ELSE {p \in Names : Short[p] = e.name}
<1>4. long <=> LongName(i) # <<>> /\ Len(LongName(i)) <= NameParts
  BY <1>2, <1>3
<1>5. long => LfnName = LongName(i)
  BY <1>2
<1>6. ShownName(e) = IF shown = {} THEN NoName ELSE CHOOSE p \in shown : TRUE
  BY DEF ShownName
<1>7. e.name # Loss /\ e.kind \in {"sfn", "labelarc"}
  BY RecordFacts DEF Listable
<1> HIDE DEF long
<1>8. shown \subseteq Names /\ \A p \in Names : p \in shown <=> IsShown(i, p)
  BY <1>4, <1>5, <1>7 DEF IsShown
<1>9. \A p, q \in shown : p = q
  BY <1>7, NamesAssumption
<1> HIDE DEF shown
<1>10. NoName \notin Names
  BY NamesAssumption
<1> QED
  BY <1>6, <1>8, <1>9, <1>10
\* A listing is in a walk.
LEMMA ListFacts ==
  ASSUME FsInv, DirInv, call.op = "readdir", call.at \in {"look", "next"},
         call.at # "look" \/ call.d.sect # 0
  PROVE  /\ call = [op |-> "readdir", at |-> call.at, d |-> call.d,
                    ord |-> call.ord, sum |-> call.sum]
         /\ AtEntry(call.d) /\ Passed(Ahead) /\ Counted(Ahead)
         /\ Tracks(Table, Fitting, Ahead, call.ord, call.sum)
         /\ Buffers(Table, lfn, Ahead, call.ord, call.sum)
         /\ root \in Roots /\ call.d.index \in Nat
         /\ walk # NoWalk /\ walk.i = Len(listed) + 1
<1>1. /\ AtEntry(call.d) /\ Passed(Ahead) /\ Counted(Ahead)
      /\ Tracks(Table, Fitting, Ahead, call.ord, call.sum)
      /\ Buffers(Table, lfn, Ahead, call.ord, call.sum)
  BY DEF DirInv, ListInv
<1>2. /\ root \in Roots
      /\ call = [op |-> "readdir", at |-> call.at, d |-> call.d, ord |-> call.ord, sum |-> call.sum]
  BY DEF FsInv, CallInv
<1>3. walk # NoWalk /\ walk.i = Len(listed) + 1
  BY DEF DirInv, WalkInv
<1>4. call.d.index \in Nat
  BY <1>1, <1>2, EntryIs
<1> QED
  BY <1>1, <1>2, <1>3, <1>4

\* The listing goes on.
LEMMA ListGoes ==
  ASSUME DirInv, call.op = "readdir", UNCHANGED walkVars, root' = root,
         NEW at \in {"look", "next"}, NEW d, NEW ord, NEW sum,
         call' = [op |-> "readdir", at |-> at, d |-> d, ord |-> ord, sum |-> sum],
         NEW j, j = IF at = "look" THEN d.index ELSE d.index + 1,
         AtEntry(d), Passed(j), Counted(j), BufferType',
         Tracks(Table, Fitting, j, ord, sum), Buffers(Table, lfn', j, ord, sum)
  PROVE  DirInv'
<1>1. Ahead' = j
  BY DEF Ahead
<1>2. SearchInv'
  BY DEF SearchInv
<1>3. ListInv'
  BY <1>1, RootStays, WalkStays DEF ListInv
<1>4. WalkInv'
  BY DEF DirInv, WalkInv, walkVars
<1> QED
  BY <1>2, <1>3, <1>4 DEF DirInv

\* An entry that is not listed.
LEMMA ListPassKeeps ==
  ASSUME FsInv, DirInv, At("readdir", "look"), call.d.sect # 0, ListPass(EntryOf(call.d)),
         UNCHANGED walkVars
  PROVE  DirInv'
<1>0. PICK e, i : e = EntryOf(call.d) /\ i = call.d.index
  OBVIOUS
<1>1. /\ call.op = "readdir" /\ call.at = "look" /\ Ahead = i
      /\ call = [op |-> "readdir", at |-> "look", d |-> call.d, ord |-> call.ord, sum |-> call.sum]
      /\ AtEntry(call.d) /\ Passed(i) /\ Counted(i) /\ root \in Roots
      /\ Tracks(Table, Fitting, i, call.ord, call.sum)
      /\ Buffers(Table, lfn, i, call.ord, call.sum)
  <2>1. call.op = "readdir" /\ call.at = "look" /\ Ahead = i
    BY <1>0 DEF At, Ahead
  <2> QED
    BY <2>1, ListFacts
<1>2. /\ i \in Nat /\ InTable(i) /\ e = TableAt(i) /\ e \in Records /\ Table[i] = e
  <2>1. /\ i \in Nat /\ InTable(i) /\ e = TableAt(i) /\ e \in Records
    BY <1>0, <1>1, EntryIs
  <2> QED
    BY <2>1 DEF Table
<1>3. /\ e.kind # "end" /\ ~Listable(e) /\ call' = ListSkip(e) /\ root' = root
      /\ lfn' = IF e.kind = "lfn" /\ Expected(call.ord, call.sum, e) THEN PickLfn(e) ELSE lfn
  BY <1>0 DEF ListPass
<1>4. Passed(i + 1)
  BY <1>1, <1>2, <1>3 DEF Passed
<1>5. Counted(i + 1)
  <2>1. ~IsShow(i)
    BY <1>2, <1>3 DEF IsShow, IsShown, Listable
  <2> QED
    BY <1>1, <1>2, <2>1, NotCounted
<1>6. BufferType'
  BY <1>3 DEF DirInv, WalkInv, BufferType, PickLfn
<1>7. CASE e.kind = "lfn"
  <2> DEFINE follows == Expected(call.ord, call.sum, e) /\ Fits(e)
  <2>1. PICK ord, sum : /\ ord = IF follows THEN e.ord - 1 ELSE NoSeq
                        /\ sum = IF e.last THEN e.sum ELSE call.sum
    OBVIOUS
  <2>2. call' = [call EXCEPT !.at = "next", !.ord = ord, !.sum = sum]
    BY <1>3, <1>7, <2>1 DEF ListSkip
  <2>3. call' = [op |-> "readdir", at |-> "next", d |-> call.d, ord |-> ord, sum |-> sum]
    <3>1. PICK d, x, y : call = [op |-> "readdir", at |-> "look", d |-> d, ord |-> x, sum |-> y]
      BY <1>1
    <3>2. call.d = d
      BY <3>1
    <3> QED
      BY <2>2, <3>1, <3>2
  <2>4. (e \in Fitting <=> Fits(e)) /\ Fitting \subseteq Records
    BY <1>2, <1>7 DEF Fitting
  <2>5. Tracks(Table, Fitting, i + 1, ord, sum)
    BY <1>1, <1>2, <1>7, <2>1, <2>4, RunStep
  <2>6. Buffers(Table, lfn', i + 1, ord, sum)
    <3>1. lfn' = IF Expected(call.ord, call.sum, e) THEN PickLfn(e) ELSE lfn
      BY <1>3, <1>7
    <3>2. BufferType
      BY DEF DirInv, WalkInv
    <3>3. (e.last => sum = e.sum) /\ (~e.last => sum = call.sum)
      BY <2>1
    <3>4. ~Expected(call.ord, call.sum, e) => ord = NoSeq
      BY <2>1
    <3>5. PICK o, s, b : o = call.ord /\ s = call.sum /\ b = lfn'
      OBVIOUS
    <3>6. Buffers(Table, b, i + 1, ord, sum)
      BY <1>1, <1>2, <1>7, <3>1, <3>2, <3>3, <3>4, <3>5, BufferStep
    <3> QED
      BY <3>5, <3>6
  <2> QED
    BY <1>0, <1>1, <1>3, <1>4, <1>5, <1>6, <2>3, <2>5, <2>6, ListGoes
<1>8. CASE e.kind # "lfn"
  <2>1. call' = [call EXCEPT !.at = "next", !.ord = NoSeq]
    BY <1>3, <1>8 DEF ListSkip
  <2>2. call' = [op |-> "readdir", at |-> "next", d |-> call.d, ord |-> NoSeq, sum |-> call.sum]
    <3>1. PICK d, x, y : call = [op |-> "readdir", at |-> "look", d |-> d, ord |-> x, sum |-> y]
      BY <1>1
    <3>2. call.d = d /\ call.sum = y
      BY <3>1
    <3> QED
      BY <2>1, <3>1, <3>2
  <2>3. i + 1 \in Nat /\ (i + 1) - 1 = i
    BY <1>2
  <2>4. Table[(i + 1) - 1].kind # "lfn"
    BY <1>2, <1>8, <2>3
  <2>5. Tracks(Table, Fitting, i + 1, NoSeq, call.sum)
    BY <2>3, <2>4, NoRun
  <2>6. Buffers(Table, lfn', i + 1, NoSeq, call.sum)
    BY DEF Buffers, Run, NoSeq
  <2> QED
    BY <1>0, <1>1, <1>3, <1>4, <1>5, <1>6, <2>2, <2>5, <2>6, ListGoes
<1> QED
  BY <1>7, <1>8

\* dir_next in a listing.
LEMMA ListNextKeeps ==
  ASSUME FsInv, DirInv, ListNext, UNCHANGED walkVars
  PROVE  DirInv'
<1>1. /\ call.op = "readdir" /\ call.at = "next" /\ root' = root /\ lfn' = lfn /\ CallInv
  BY DEF ListNext, At, dirVars, FsInv
<1>2. PICK o \in NextOutcomes(call.d) :
        o.res = "OK" /\ call' = [call EXCEPT !.at = "look", !.d = o.d]
  BY DEF ListNext
<1>3. /\ call = [op |-> "readdir", at |-> "next", d |-> call.d, ord |-> call.ord, sum |-> call.sum]
      /\ AtEntry(call.d) /\ Passed(Ahead) /\ Counted(Ahead)
      /\ Tracks(Table, Fitting, Ahead, call.ord, call.sum)
      /\ Buffers(Table, lfn, Ahead, call.ord, call.sum)
  BY <1>1, ListFacts
<1>4. AtEntry(o.d) /\ o.d.index = Ahead
  BY <1>1, <1>2, <1>3, NextAtEntry DEF Ahead
<1>5. call' = [op |-> "readdir", at |-> "look", d |-> o.d, ord |-> call.ord, sum |-> call.sum]
  <2>1. PICK d, x, y : call = [op |-> "readdir", at |-> "next", d |-> d, ord |-> x, sum |-> y]
    BY <1>3
  <2>2. call.ord = x /\ call.sum = y
    BY <2>1
  <2> QED
    BY <1>2, <2>1, <2>2
<1>6. BufferType'
  BY <1>1 DEF DirInv, WalkInv, BufferType
<1> QED
  BY <1>1, <1>3, <1>4, <1>5, <1>6, ListGoes

\* An entry that is listed.
LEMMA ListHitKeeps ==
  ASSUME FsInv, DirInv, At("readdir", "look"), call.d.sect # 0, ListHit(EntryOf(call.d)),
         UNCHANGED walkVars
  PROVE  DirInv'
<1>0. PICK e, i : e = EntryOf(call.d) /\ i = call.d.index
  OBVIOUS
<1>1. /\ call.op = "readdir" /\ call.at = "look" /\ Ahead = i
      /\ AtEntry(call.d) /\ Passed(i) /\ Counted(i) /\ root \in Roots
      /\ Tracks(Table, Fitting, i, call.ord, call.sum)
      /\ Buffers(Table, lfn, i, call.ord, call.sum)
  <2>1. call.op = "readdir" /\ call.at = "look" /\ Ahead = i
    BY <1>0 DEF At, Ahead
  <2> QED
    BY <2>1, ListFacts
<1>2. /\ i \in Nat /\ InTable(i) /\ e = TableAt(i) /\ e \in Records
  BY <1>0, <1>1, EntryIs
<1>3. /\ Listable(e) /\ root' = root /\ lfn' = lfn
      /\ call' = [op |-> "readdir", at |-> "hit", d |-> call.d, entry |-> e, name |-> ShownName(e)]
  BY <1>0 DEF ListHit, dirVars
<1>4. \A p \in Names : IsShown(i, p) <=> ShownName(e) = p
  BY <1>1, <1>2, <1>3, ShownIs
<1>5. Passed(i + 1)
  BY <1>1, <1>2, <1>3 DEF Passed, Listable
<1>6. Ahead' = i + 1
  BY <1>0, <1>3 DEF Ahead
<1>7. ListInv'
  BY <1>0, <1>1, <1>2, <1>3, <1>4, <1>5, <1>6, RootStays, WalkStays DEF ListInv
<1>8. SearchInv'
  BY <1>3 DEF SearchInv
<1>9. WalkInv'
  BY <1>1, <1>3 DEF DirInv, WalkInv, walkVars, BufferType
<1> QED
  BY <1>7, <1>8, <1>9 DEF DirInv

\* dir_read, entry by entry.
LEMMA ListStepKeeps ==
  ASSUME FsInv, DirInv, ListStep
  PROVE  DirInv'
BY ListPassKeeps, ListHitKeeps, ListNextKeeps DEF ListStep

--------------------------------------------------------------------------------
(* walk_fs                                                                 *)

\* The results of dir_next.
LEMMA NextResults ==
  ASSUME NEW d, d \in [index : 0 .. IndexMod - 1, sect : Nat, clust : Nat], NEW o \in NextOutcomes(d)
  PROVE  o.res \in {"OK", "NO_FILE", "ERROR"} /\ [o.d EXCEPT !.sect = 0].sect = 0
<1> DEFINE i == (d.index + 1) % IndexMod
           onward == [d EXCEPT !.sect = @ + 1]
<1>1. \/ o = Moved("NO_FILE", d, winsect)
      \/ o = Moved("OK", [d EXCEPT !.index = i], winsect)
      \/ o = Moved("NO_FILE", onward, winsect)
      \/ o = Moved("OK", [onward EXCEPT !.index = i], winsect)
      \/ o \in ClusterOutcomes(d, i)
  BY DEF NextOutcomes
<1>2. o \in ClusterOutcomes(d, i) =>
        /\ o.res \in {"OK", "NO_FILE", "ERROR"}
        /\ \/ \E c, s : o.d = [index |-> i, clust |-> c, sect |-> s]
           \/ o.d = onward
  <2> SUFFICES ASSUME o \in ClusterOutcomes(d, i)
               PROVE  /\ o.res \in {"OK", "NO_FILE", "ERROR"}
                      /\ (\E c, s : o.d = [index |-> i, clust |-> c, sect |-> s]) \/ o.d = onward
    OBVIOUS
  <2> DEFINE into(l) == [index |-> i, clust |-> l.link, sect |-> Clust2Sect(l.link)]
  <2>1. PICK l \in FatOutcomes(d.clust) :
          o = IF l.link \in Clusters THEN Moved("OK", into(l), l.win)
              ELSE Moved(IF l.link = EndOfChain THEN "NO_FILE" ELSE "ERROR", onward, l.win)
    BY DEF ClusterOutcomes
  <2> HIDE DEF onward
  <2>2. CASE l.link \in Clusters
    BY <2>1, <2>2 DEF Moved
  <2>3. CASE l.link \notin Clusters
    <3>1. o = Moved(IF l.link = EndOfChain THEN "NO_FILE" ELSE "ERROR", onward, l.win)
      BY <2>1, <2>3, Zenon
    <3> QED
      BY <3>1 DEF Moved
  <2> QED
    BY <2>2, <2>3
<1> HIDE DEF i
<1> QED
  BY <1>1, <1>2 DEF Moved

\* The object is behind the entry that is returned, or at the directory's end.
LEMMA ReturnedDir ==
  ASSUME FsInv, AtEntry(call.d), ListReturns, dir'.sect # 0
  PROVE  AtEntry(dir') /\ dir'.index = call.d.index + 1
<1>1. PICK o \in NextOutcomes(call.d) :
        /\ o.res # "ERROR"
        /\ dir' = IF o.res = "NO_FILE" THEN [o.d EXCEPT !.sect = 0] ELSE o.d
  BY DEF ListReturns
<1>2. o.res \in {"OK", "NO_FILE", "ERROR"} /\ [o.d EXCEPT !.sect = 0].sect = 0
  BY NextResults DEF AtEntry, DirPlace
<1>3. o.res = "OK" /\ dir' = o.d
  BY <1>1, <1>2
<1> QED
  BY <1>3, NextAtEntry DEF FsInv

\* What walk_fs counts is what the directory has of shows.
LEMMA HitFacts ==
  ASSUME FsInv, DirInv, ListReturns, NEW i, i = call.d.index
  PROVE  /\ call.op = "readdir" /\ i \in Nat /\ i \in Stored /\ AtEntry(call.d) /\ Passed(i + 1)
         /\ Counted(i) /\ call.entry = TableAt(i) /\ call.entry \in Records
         /\ Listable(TableAt(i)) /\ Table[i] = TableAt(i)
         /\ Counts <=> IsShow(i)
         /\ Counts => call.name \in Shows /\ IsShown(i, call.name)
         /\ walk # NoWalk /\ walk.i = Len(listed) + 1
         /\ root \in Roots /\ root' = root /\ lfn' = lfn
<1>1. call.op = "readdir" /\ call.at = "hit" /\ root' = root /\ lfn' = lfn /\ root \in Roots
  BY DEF ListReturns, At, FsInv, CallInv
<1>2. /\ AtEntry(call.d) /\ Passed(i + 1) /\ Counted(i) /\ call.entry = TableAt(i)
      /\ Listable(TableAt(i)) /\ \A p \in Names : IsShown(i, p) <=> call.name = p
  BY <1>1 DEF DirInv, ListInv, Ahead
<1>3. /\ i \in Nat /\ i \in 0 .. IndexMod - 1 /\ TableAt(i) \in Records
  BY <1>1, <1>2, EntryIs
<1>4. Table[i] = TableAt(i)
  BY <1>3 DEF Table
<1>5. i \in Stored
  BY <1>2, <1>3 DEF Stored, Passed
<1>6. walk # NoWalk /\ walk.i = Len(listed) + 1
  BY <1>1 DEF DirInv, WalkInv
<1>7. Shows \subseteq Names
  BY FsAssumption
<1>8. (Counts <=> IsShow(i)) /\ (Counts => call.name \in Shows /\ IsShown(i, call.name))
  BY <1>2, <1>7 DEF Counts, IsShow
<1> QED
  BY <1>1, <1>2, <1>3, <1>4, <1>5, <1>6, <1>8

\* The walk goes on to the next call of f_readdir.
LEMMA BetweenCalls ==
  ASSUME FsInv, DirInv, ListReturns, call' = NoCall, NEW i, i = call.d.index, Counted(i + 1)',
         listed' \in Seq(Shows \X Records), walk' \in [index : Int, i : Nat],
         walk'.i = Len(listed') + 1
  PROVE  DirInv'
<1>1. /\ i \in Nat /\ AtEntry(call.d) /\ Passed(i + 1) /\ Listable(Table[i])
      /\ root' = root /\ lfn' = lfn
  BY HitFacts
<1>2. call'.op = "none"
  BY DEF NoCall
<1>3. SearchInv' /\ ListInv'
  BY <1>2 DEF SearchInv, ListInv
<1>4. dir'.sect # 0 => /\ AtEntry(dir)' /\ Passed(dir.index)' /\ Counted(dir.index)'
                       /\ Table'[dir'.index - 1].kind # "lfn"
  <2> SUFFICES ASSUME dir'.sect # 0
               PROVE  /\ AtEntry(dir)' /\ Passed(dir.index)' /\ Counted(dir.index)'
                      /\ Table'[dir'.index - 1].kind # "lfn"
    OBVIOUS
  <2>1. AtEntry(dir') /\ dir'.index = i + 1
    BY <1>1, ReturnedDir
  <2>2. (i + 1) - 1 = i /\ Table[i].kind # "lfn"
    BY <1>1 DEF Listable
  <2>3. Table'[dir'.index - 1].kind # "lfn"
    BY <1>1, <2>1, <2>2, RootStays
  <2>4. AtEntry(dir)' /\ Passed(dir.index)'
    BY <1>1, <2>1, RootStays
  <2>5. Counted(dir.index)'
    BY <2>1
  <2> QED
    BY <2>3, <2>4, <2>5
<1>5. WalkInv'
  BY <1>1, <1>2, <1>4 DEF DirInv, WalkInv, BufferType
<1> QED
  BY <1>3, <1>5 DEF DirInv
\* f_readdir is called.
LEMMA WalkReadKeeps ==
  ASSUME FsInv, DirInv, WalkRead
  PROVE  DirInv'
<1>1. /\ call.op = "none" /\ walk # NoWalk /\ root' = root /\ lfn' = lfn
      /\ UNCHANGED walkVars /\ root \in Roots
      /\ call' = [op |-> "readdir", at |-> "look", d |-> dir, ord |-> NoSeq, sum |-> NoSeq]
  BY DEF WalkRead, NoCall, ReadDirCall, dirVars, FsInv, CallInv
<1>2. SearchInv'
  BY <1>1 DEF SearchInv
<1>3. ASSUME dir.sect # 0
      PROVE  /\ AtEntry(dir) /\ Passed(dir.index) /\ Counted(dir.index)
             /\ Tracks(Table, Fitting, dir.index, NoSeq, NoSeq)
             /\ Buffers(Table, lfn, dir.index, NoSeq, NoSeq)
  <2>1. /\ AtEntry(dir) /\ Passed(dir.index) /\ Counted(dir.index)
        /\ dir.index = 0 \/ Table[dir.index - 1].kind # "lfn"
    BY <1>1, <1>3 DEF DirInv, WalkInv
  <2>2. dir.index \in Nat
    BY <1>1, <2>1, EntryIs
  <2>3. Tracks(Table, Fitting, dir.index, NoSeq, NoSeq)
    BY <2>1, <2>2, NoRun
  <2>4. Buffers(Table, lfn, dir.index, NoSeq, NoSeq)
    BY DEF Buffers, Run, NoSeq
  <2> QED
    BY <2>1, <2>3, <2>4
<1>4. Ahead' = dir.index
  BY <1>1 DEF Ahead
<1>5. ListInv'
  BY <1>1, <1>3, <1>4, RootStays, WalkStays DEF ListInv
<1>6. WalkInv'
  BY <1>1 DEF DirInv, WalkInv, walkVars, BufferType
<1> QED
  BY <1>2, <1>5, <1>6 DEF DirInv

\* An entry that is no show.
LEMMA WalkPassesKeeps ==
  ASSUME FsInv, DirInv, WalkPasses
  PROVE  DirInv'
<1>1. PICK i : i = call.d.index
  OBVIOUS
<1>2. ListReturns /\ ~Counts /\ call' = NoCall /\ UNCHANGED walkVars
  BY DEF WalkPasses
<1>3. /\ i \in Nat /\ Counted(i) /\ ~IsShow(i) /\ root' = root
      /\ walk.i = Len(listed) + 1
  BY <1>1, <1>2, HitFacts
<1>4. Counted(i + 1)'
  BY <1>2, <1>3, NotCounted, WalkStays
<1>5. /\ listed' \in Seq(Shows \X Records) /\ walk' \in [index : Int, i : Nat]
      /\ walk'.i = Len(listed') + 1
  BY <1>2, <1>3 DEF DirInv, WalkInv, walkVars
<1> QED
  BY <1>1, <1>2, <1>4, <1>5, BetweenCalls

\* A show that is counted.
LEMMA WalkCountsKeeps ==
  ASSUME FsInv, DirInv, WalkCounts
  PROVE  DirInv'
<1>1. PICK i : i = call.d.index
  OBVIOUS
<1>2. /\ ListReturns /\ Counts /\ call' = NoCall /\ walk' = [walk EXCEPT !.i = @ + 1]
      /\ listed' = Append(listed, <<call.name, call.entry>>)
  BY DEF WalkCounts
<1>3. /\ i \in Nat /\ Counted(i) /\ IsShow(i) /\ root' = root /\ call.entry = TableAt(i)
      /\ TableAt(i) \in Records /\ call.name \in Shows /\ IsShown(i, call.name)
      /\ walk.i = Len(listed) + 1
  BY <1>1, <1>2, HitFacts
<1>4. listed \in Seq(Shows \X Records) /\ walk \in [index : Int, i : Nat]
  BY DEF DirInv, WalkInv
<1>5. /\ Counted(i + 1)' /\ listed' \in Seq(Shows \X Records)
      /\ Len(listed') = Len(listed) + 1
  <2>1. PICK p \in Shows : p = call.name
    BY <1>3
  <2>2. listed' = Append(listed, <<p, TableAt(i)>>) /\ IsShown(i, p)
    BY <1>2, <1>3, <2>1
  <2> QED
    BY <1>3, <1>4, <2>2, NowCounted
<1>6. walk' \in [index : Int, i : Nat] /\ walk'.i = Len(listed') + 1
  BY <1>2, <1>3, <1>4, <1>5
<1> QED
  BY <1>1, <1>2, <1>5, <1>6, BetweenCalls

\* The one that is to play.
LEMMA WalkPlaysKeeps ==
  ASSUME FsInv, DirInv, WalkPlays
  PROVE  DirInv'
<1>1. PICK i : i = call.d.index
  OBVIOUS
<1>2. /\ ListReturns /\ Counts /\ call' = [op |-> "open", name |-> call.name] /\ walk' = walk
      /\ listed' = Append(listed, <<call.name, call.entry>>) /\ walk.i = walk.index
  BY DEF WalkPlays
<1>3. /\ i \in Nat /\ Counted(i) /\ IsShow(i) /\ root' = root /\ lfn' = lfn
      /\ call.entry = TableAt(i) /\ i \in Stored
      /\ TableAt(i) \in Records /\ call.name \in Shows /\ IsShown(i, call.name)
      /\ walk.i = Len(listed) + 1 /\ walk # NoWalk
  BY <1>1, <1>2, HitFacts
<1>4. PICK p \in Shows : p = call.name
  BY <1>3
<1>5. /\ listed' \in Seq(Shows \X Records) /\ Len(listed') = Len(listed) + 1
      /\ listed'[Len(listed')] = <<p, TableAt(i)>>
  <2>1. listed' = Append(listed, <<p, TableAt(i)>>) /\ IsShown(i, p)
    BY <1>2, <1>3, <1>4
  <2>2. listed \in Seq(Shows \X Records)
    BY DEF DirInv, WalkInv
  <2> QED
    BY <1>3, <2>1, <2>2, NowCounted
<1>6. walk'.index = Len(listed') /\ walk' # NoWalk
  BY <1>2, <1>3, <1>5
<1>7. Picked(p)'
  BY <1>3, <1>4, <1>5, <1>6, RootStays DEF Picked
<1>8. SearchInv' /\ ListInv'
  BY <1>2 DEF SearchInv, ListInv
<1>9. WalkInv'
  BY <1>2, <1>3, <1>4, <1>5, <1>6, <1>7 DEF DirInv, WalkInv, BufferType, NoWalk
<1> QED
  BY <1>8, <1>9 DEF DirInv

\* walk_fs, from one f_readdir to the next.
LEMMA WalkStepHolds ==
  ASSUME FsInv, DirInv, WalkStep
  PROVE  DirInv'
<1>1. CASE WalkEnds \/ WalkLoses
  <2>1. call' = NoCall /\ walk' = NoWalk /\ listed' = <<>> /\ lfn' = lfn
    BY <1>1 DEF WalkEnds, WalkLoses, EndOfWalk
  <2> QED
    BY <2>1, Away DEF NoCall, DirInv
<1>2. CASE WalkOpens
  <2>1. /\ call.op = "open" /\ call' = FindCall(Player, call.name) /\ CreateName(call.name)
        /\ root' = root /\ UNCHANGED walkVars
    BY <1>2 DEF WalkOpens
  <2>2. Picked(call.name) /\ call.name \in Names
    BY <2>1, FsAssumption DEF DirInv, WalkInv, Picked
  <2> QED
    BY <2>1, <2>2, SearchBegins
<1> QED
  BY <1>1, <1>2, WalkReadKeeps, WalkPassesKeeps, WalkCountsKeeps, WalkPlaysKeeps DEF WalkStep

\* walk_fs begins.
LEMMA WalkStartHolds ==
  ASSUME FsInv, DirInv, NEW index \in Int, WalkStart(index)
  PROVE  DirInv'
<1>1. /\ call' = NoCall /\ call = NoCall /\ walk = NoWalk /\ root' = root /\ lfn' = lfn
      /\ \/ dir' = DirTop /\ walk' = [index |-> index, i |-> 1] /\ listed' = <<>>
         \/ UNCHANGED <<dir, walkVars>>
  BY DEF WalkStart
<1>2. CASE UNCHANGED <<dir, walkVars>>
  <2>1. walk' = NoWalk /\ listed' = listed
    BY <1>1, <1>2 DEF walkVars
  <2> QED
    BY <1>1, <2>1, Away DEF NoCall, DirInv
<1>3. CASE dir' = DirTop /\ walk' = [index |-> index, i |-> 1] /\ listed' = <<>>
  <2>1. AtEntry(DirTop) /\ DirTop.index = 0
    BY TopAtEntry DEF FsInv
  <2>2. Passed(0)
    BY DEF Passed
  <2>3. ShowsBefore(0) = {} /\ Cardinality(ShowsBefore(0)) = 0
    <3>1. ShowsBefore(0) = {}
      BY DEF ShowsBefore
    <3> QED
      BY <3>1, FS_EmptySet
  <2>4. Len(listed') = 0 /\ listed' \in Seq(Shows \X Records)
    BY <1>3, EmptySeq
  <2>5. Counted(0)'
    BY <1>1, <2>3, <2>4, RootStays DEF Counted
  <2>6. AtEntry(dir)' /\ Passed(dir.index)' /\ Counted(dir.index)' /\ dir'.index = 0
    BY <1>1, <1>3, <2>1, <2>2, <2>5, RootStays
  <2>7. /\ walk' \in [index : Int, i : Nat] /\ walk'.i = Len(listed') + 1
        /\ call'.op = "none"
    BY <1>1, <1>3, <2>4 DEF NoCall
  <2>8. WalkInv'
    BY <1>1, <2>4, <2>6, <2>7 DEF DirInv, WalkInv, BufferType
  <2>9. SearchInv' /\ ListInv'
    BY <2>7 DEF SearchInv, ListInv
  <2> QED
    BY <2>8, <2>9 DEF DirInv
<1> QED
  BY <1>1, <1>2, <1>3

\* A call of f_open.
LEMMA OpenHolds ==
  ASSUME FsInv, DirInv, NEW h \in Handles, NEW p \in Opens[h], Open(h, p)
  PROVE  DirInv'
<1>1. /\ walk = NoWalk /\ UNCHANGED walkVars /\ root' = root
      /\ \/ call' = FindCall(h, p) /\ CreateName(p)
         \/ call' = NoCall /\ lfn' = lfn
  BY DEF Open, Search
<1>2. p \in Names
  BY FsAssumption
<1>3. CASE call' = FindCall(h, p) /\ CreateName(p)
  BY <1>1, <1>2, <1>3, SearchBegins
<1>4. CASE call' = NoCall /\ lfn' = lfn
  BY <1>1, <1>4, Away DEF NoCall, DirInv, walkVars
<1> QED
  BY <1>1, <1>3, <1>4

\* f_read stays f_read until it returns.
LEMMA ReadOps ==
  ASSUME call \in ReadCall, FRead
  PROVE  call'.op \in {"none", "read"}
<1>1. ASSUME NEW o, ReadAbort(o) PROVE call'.op = "none"
  BY <1>1 DEF ReadAbort, NoCall
<1>2. ASSUME NEW o, NEW s, NEW ofs, NEW n, Take(o, s, ofs, n) PROVE call'.op = "read"
  <2>1. \A at, btr, buf : [call EXCEPT !.at = at, !.btr = btr, !.buf = buf].op = "read"
    BY DEF ReadCall
  <2>2. \E at, btr, buf : call' = [call EXCEPT !.at = at, !.btr = btr, !.buf = buf]
    BY <1>2, Zenon DEF Take
  <2> QED
    BY <2>1, <2>2
<1>3. ASSUME NEW o, Partial(o) PROVE call'.op \in {"none", "read"}
  BY <1>1, <1>2, <1>3, Zenon DEF Partial
<1>4. CASE FReadDone
  BY <1>4 DEF FReadDone, NoCall
<1>5. CASE FReadCluster
  <2>1. ReadAbort(Abort(call.h)) \/ call' = [call EXCEPT !.at = "transfer"]
    BY <1>5, Zenon DEF FReadCluster
  <2>2. [call EXCEPT !.at = "transfer"].op = "read"
    BY DEF ReadCall
  <2> QED
    BY <1>1, <2>1, <2>2
<1>6. CASE FReadDirect
  <2>1. ReadAbort(Abort(call.h)) \/ \E s : Take(fil[call.h], s, 0, Sectors(call.h) * SS)
    BY <1>6, Zenon DEF FReadDirect
  <2> QED
    BY <1>1, <1>2, <2>1, Zenon
<1>7. CASE FReadNoSector
  BY <1>1, <1>7 DEF FReadNoSector
<1>8. CASE FReadPartial
  <2>1. \E o : Partial(o)
    BY <1>8, Zenon DEF FReadPartial
  <2> QED
    BY <1>3, <2>1
<1> QED
  BY <1>4, <1>5, <1>6, <1>7, <1>8 DEF FRead

\* Calls that use files.
LEMMA FilesHold ==
  ASSUME FsInv, DirInv, UNCHANGED <<dirVars, walkVars>>,
         FRead \/ \E h \in Handles : Use(h)
  PROVE  DirInv'
<1>1. lfn' = lfn /\ walk' = walk /\ listed' = listed
  BY DEF dirVars, walkVars
<1>2. CASE FRead
  <2>1. call.op = "read"
    BY <1>2 DEF FRead, FReadDone, FReadCluster, FReadDirect, FReadNoSector, FReadPartial,
                Transfer, Reading
  <2>2. call \in ReadCall /\ walk = NoWalk
    BY <2>1 DEF FsInv, ReadInv
  <2>3. call'.op \in {"none", "read"}
    BY <1>2, <2>2, ReadOps
  <2> QED
    BY <1>1, <2>2, <2>3, Away DEF DirInv
<1>3. ASSUME NEW h \in Handles, Use(h) PROVE DirInv'
  <2>1. walk = NoWalk
    BY <1>3 DEF Use
  <2>2. call'.op \in {"none", "read"}
    <3>1. CASE FRefused(h) \/ NoteFrame(h) \/ RepeatFrame(h)
      BY <3>1 DEF FRefused, NoteFrame, RepeatFrame, volVars, NoCall
    <3>2. CASE Rewind(h)
      BY <3>2 DEF Rewind, Return, NoCall
    <3>3. ASSUME NEW n, FReadStart(h, n) PROVE call'.op = "read"
      BY <3>3 DEF FReadStart
    <3> QED
      BY <1>3, <3>1, <3>2, <3>3 DEF Use
  <2> QED
    BY <1>1, <2>1, <2>2, Away DEF DirInv
<1> QED
  BY <1>2, <1>3

--------------------------------------------------------------------------------
(* The volume and its window                                               *)

VolInv == vol \in {"absent", "registered", "mounted"} /\ winsect \in Nat

\* The window that dir_next and get_fat leave.
LEMMA WindowTypes ==
  ASSUME winsect \in Nat
  PROVE  /\ \A c : \A o \in FatOutcomes(c) : o.win \in Nat
         /\ \A d : \A o \in NextOutcomes(d) : o.win \in Nat
<1>1. ASSUME NEW c, NEW o \in FatOutcomes(c) PROVE o.win \in Nat
  <2>1. CASE c \in Clusters
    <3>1. c \div FatPer \in Nat
      BY <2>1, VolumeAssumption, DivisionExists, LinkFacts
    <3>2. FatSector(c) \in Nat
      BY <3>1, VolumeAssumption DEF FatSector
    <3> QED
      BY <1>1, <2>1, <3>2 DEF FatOutcomes, Linked
  <2>2. CASE c \notin Clusters
    BY <1>1, <2>2 DEF FatOutcomes, Linked
  <2> QED
    BY <2>1, <2>2
<1>2. ASSUME NEW d, NEW i, NEW o \in ClusterOutcomes(d, i) PROVE o.win \in Nat
  <2>1. PICK l \in FatOutcomes(d.clust) : \E res, p : o = Moved(res, p, l.win)
    BY <1>2, Zenon DEF ClusterOutcomes
  <2> QED
    BY <1>1, <2>1 DEF Moved
<1>3. ASSUME NEW d, NEW o \in NextOutcomes(d) PROVE o.win \in Nat
  <2>1. \/ \E res, p : o = Moved(res, p, winsect)
        \/ \E i : o \in ClusterOutcomes(d, i)
    BY <1>3, Zenon DEF NextOutcomes
  <2> QED
    BY <1>2, <2>1 DEF Moved
<1> QED
  BY <1>1, <1>3

\* The steps of a search keep the volume's types.
LEMMA FindVol == FsInv /\ DirInv /\ VolInv /\ FindStep => VolInv'
<1> SUFFICES ASSUME FsInv, DirInv, VolInv, FindStep PROVE VolInv'
  OBVIOUS
<1>1. call.op = "find"
  BY DEF FindStep, FindNext, OpenFails, FindFails, At
<1>2. call.d.sect \in Nat
  BY <1>1 DEF FsInv, FindInv, DirPlace
<1>3. vol' = vol
  BY DEF FindStep, FindPass, FindNext, OpenFails, OpenEnds
<1>4. \/ winsect' = call.d.sect \/ winsect' = winsect
      \/ \E o \in NextOutcomes(call.d) : winsect' = o.win
  BY DEF FindStep, FindNext, OpenFails, FindFails, MoveWindow, MoveFails
<1> QED
  BY <1>2, <1>3, <1>4, WindowTypes DEF VolInv

\* So do those of a listing,
LEMMA WalkVol == FsInv /\ DirInv /\ VolInv /\ (ListStep \/ WalkStep) => VolInv'
<1> SUFFICES ASSUME FsInv, DirInv, VolInv, ListStep \/ WalkStep PROVE VolInv'
  OBVIOUS
<1>1. vol' = vol
  BY DEF ListStep, ListPass, ListHit, ListNext, WalkStep, WalkRead, WalkEnds, WalkLoses,
         WalkPasses, WalkCounts, WalkPlays, WalkOpens, ListReturns
<1>2. \/ At("readdir", "look") /\ call.d.sect # 0 /\ winsect' = call.d.sect
      \/ winsect' = winsect
      \/ \E o \in NextOutcomes(call.d) : winsect' = o.win
  BY DEF ListStep, ListNext, WalkStep, WalkRead, WalkEnds, WalkLoses, WalkPasses, WalkCounts,
         WalkPlays, WalkOpens, ListReturns, ListEnds, ListLoses, MoveWindow, MoveFails
<1>3. At("readdir", "look") /\ call.d.sect # 0 => call.d.sect \in Nat
  BY DEF At, DirInv, ListInv, AtEntry, DirPlace
<1> QED
  BY <1>1, <1>2, <1>3, WindowTypes DEF VolInv

\* and f_read.
LEMMA ReadVol == FsInv /\ VolInv /\ FRead => VolInv'
<1> SUFFICES ASSUME FsInv, VolInv, FRead PROVE VolInv'
  OBVIOUS
<1>1. PICK h : h = call.h
  OBVIOUS
<1>2. call.op = "read"
  BY DEF FRead, FReadDone, FReadCluster, FReadDirect, FReadNoSector, FReadPartial, Transfer,
         Reading
<1>3. fil[h] \in FilType
  BY <1>1, <1>2, ReadFacts
<1>4. vol' = vol
  BY DEF FRead, FReadDone, FReadCluster, FReadDirect, FReadNoSector, FReadPartial, Partial,
         Take, ReadAbort
<1>5. ASSUME NEW o, o.dsect \in Nat, Partial(o) PROVE winsect' \in Nat
  BY <1>5 DEF Partial, MoveWindow, MoveFails, VolInv
<1>6. CASE FReadDone \/ FReadDirect \/ FReadNoSector
  BY <1>4, <1>6 DEF FReadDone, FReadDirect, FReadNoSector, VolInv
<1>7. CASE FReadCluster
  <2>1. winsect' = winsect \/ \E c, o : o \in FatOutcomes(c) /\ winsect' = o.win
    BY <1>7 DEF FReadCluster, NextCluster, GetFat
  <2> QED
    BY <1>4, <2>1, WindowTypes DEF VolInv
<1>8. CASE FReadPartial
  <2>1. PICK s : s = Clust2Sect(fil[h].clust) + CSect(h)
    OBVIOUS
  <2>2. Partial([fil[h] EXCEPT !.dsect = s]) \/ Partial(fil[h])
    BY <1>1, <1>8, <2>1 DEF FReadPartial
  <2>3. s \in Nat
    <3>1. CSect(h) \in Nat
      BY <1>3, Sizes, DivisionExists DEF FilType, CSect
    <3> QED
      BY <2>1, <3>1, ByteType
  <2>4. [fil[h] EXCEPT !.dsect = s].dsect \in Nat /\ fil[h].dsect \in Nat
    BY <1>3, <2>3 DEF FilType
  <2> QED
    BY <1>4, <1>5, <2>2, <2>4 DEF VolInv
<1> QED
  BY <1>4, <1>6, <1>7, <1>8 DEF FRead, VolInv

\* Every step keeps the volume's types.
LEMMA VolNext == FsInv /\ DirInv /\ VolInv /\ [Next]_vars => VolInv'
<1> SUFFICES ASSUME FsInv, DirInv, VolInv, [Next]_vars PROVE VolInv'
  OBVIOUS
<1>1. CASE UNCHANGED vars
  BY <1>1 DEF vars, volVars, VolInv
<1>2. CASE Proceed
  BY <1>2, FindVol, WalkVol, ReadVol DEF Proceed
<1>3. ASSUME NEW res, ChkMounted(res) PROVE VolInv'
  BY <1>3 DEF ChkMounted, VolInv
<1>4. ASSUME NEW h \in Handles, Use(h) PROVE VolInv'
  BY <1>4 DEF Use, FRefused, FReadStart, Rewind, NoteFrame, RepeatFrame, volVars, VolInv
<1>5. ASSUME NEW h \in Handles, NEW p, Open(h, p) PROVE VolInv'
  BY <1>3, <1>5 DEF Open, Search
<1>6. ASSUME NEW index, WalkStart(index) PROVE VolInv'
  BY <1>3, <1>6 DEF WalkStart
<1> QED
  BY <1>1, <1>2, <1>4, <1>5, <1>6 DEF Next

--------------------------------------------------------------------------------
(* The theorems                                                            *)

\* No search and no listing is under way at first.
LEMMA DirInitHolds == Init => DirInv
<1> SUFFICES ASSUME Init PROVE DirInv
  OBVIOUS
<1>1. /\ call = NoCall /\ walk = NoWalk /\ listed = <<>>
      /\ lfn = [i \in 1 .. MaxParts + 1 |-> Cut]
  BY DEF Init, DirInit
<1>2. call.op = "none"
  BY <1>1 DEF NoCall
<1>3. SearchInv /\ ListInv
  BY <1>2 DEF SearchInv, ListInv
<1>4. NoWalk \in [index : Int, i : Nat]
  BY DEF NoWalk
<1>5. BufferType /\ listed \in Seq(Shows \X Records)
  BY <1>1, EmptySeq DEF BufferType
<1>6. WalkInv
  BY <1>1, <1>2, <1>4, <1>5 DEF WalkInv
<1> QED
  BY <1>3, <1>6 DEF DirInv

\* Nothing happens.
LEMMA StutterHolds == FsInv /\ DirInv /\ UNCHANGED vars => DirInv'
<1> SUFFICES ASSUME FsInv, DirInv, UNCHANGED vars PROVE DirInv'
  OBVIOUS
<1>1. /\ call' = call /\ root' = root /\ lfn' = lfn /\ dir' = dir
      /\ UNCHANGED walkVars /\ walk' = walk /\ listed' = listed
  BY DEF vars, volVars, dirVars, walkVars
<1>2. SearchInv'
  <2>1. CASE call.op = "find"
    <3>1. \A p : Holds(p)' <=> Holds(p)
      BY <1>1 DEF Holds
    <3>2. Ahead' = Ahead /\ Matching' = Matching
      BY <1>1 DEF Ahead, Matching, CmpLfn
    <3> QED
      BY <1>1, <2>1, <3>1, <3>2, RootStays, WalkStays DEF DirInv, SearchInv
  <2> QED
    BY <1>1, <2>1 DEF SearchInv
<1>3. ListInv'
  BY <1>1, RootStays, WalkStays DEF DirInv, ListInv, Ahead, Listable
<1>4. WalkInv'
  BY <1>1, RootStays, WalkStays DEF DirInv, WalkInv, BufferType
<1> QED
  BY <1>2, <1>3, <1>4 DEF DirInv

\* Every step keeps what search and listing know of the entries passed.
LEMMA DirNextHolds == FsInv /\ DirInv /\ [Next]_vars => DirInv'
<1> SUFFICES ASSUME FsInv, DirInv, [Next]_vars PROVE DirInv'
  OBVIOUS
<1>1. CASE UNCHANGED vars
  BY <1>1, StutterHolds
<1>2. CASE Proceed
  BY <1>2, FindStepKeeps, ListStepKeeps, WalkStepHolds, FilesHold DEF Proceed
<1>3. ASSUME NEW h \in Handles, Use(h) PROVE DirInv'
  BY <1>3, FilesHold DEF Use
<1>4. ASSUME NEW h \in Handles, NEW p \in Opens[h], Open(h, p) PROVE DirInv'
  BY <1>4, OpenHolds
<1>5. ASSUME NEW index \in 0 .. Cardinality(Shows), WalkStart(index) PROVE DirInv'
  <2>1. index \in Int
    OBVIOUS
  <2> QED
    BY <1>5, <2>1, WalkStartHolds
<1> QED
  BY <1>1, <1>2, <1>3, <1>4, <1>5 DEF Next

\* That holds in every reachable state.
LEMMA DirHolds == Spec => [](FsInv /\ DirInv)
<1>1. Init => FsInv /\ DirInv
  BY FsInit, DirInitHolds
<1>2. FsInv /\ DirInv /\ [Next]_vars => FsInv' /\ DirInv'
  BY FsNext, DirNextHolds
<1> QED
  BY <1>1, <1>2, PTL DEF Spec

\* A search passes no entry that the path names and ends at none that it does not.
LEMMA SearchIsExact == FsInv /\ DirInv => FindIsExact
<1> SUFFICES ASSUME FsInv, DirInv, At("find", "look") PROVE FindIsExact
  BY DEF FindIsExact
<1>1. PICK i, e : i = call.d.index /\ e = EntryOf(call.d)
  OBVIOUS
<1>2. Ahead = i /\ (Found(e) <=> IsNamed(i, call.path))
  BY <1>1, SearchExact
<1>3. \A j \in 0 .. i - 1 : ~IsNamed(j, call.path)
  BY <1>2 DEF DirInv, SearchInv, At
<1> QED
  BY <1>1, <1>2, <1>3 DEF FindIsExact

\* The listing has the shows that it passed.
LEMMA ListingIsExact == FsInv /\ DirInv => ListIsExact
<1> SUFFICES ASSUME FsInv, DirInv, At("readdir", "look"), call.d.sect # 0 PROVE ListIsExact
  BY DEF ListIsExact
<1>1. Counted(call.d.index)
  BY ListFacts DEF At, Ahead
<1> QED
  BY <1>1 DEF ListIsExact, Counted

\* A play by number opens what was listed.
LEMMA PlayIsListed == FsInv /\ DirInv => PlaysTheListed
<1> SUFFICES ASSUME FsInv, DirInv, walk # NoWalk, At("find", "look") PROVE PlaysTheListed
  BY DEF PlaysTheListed
<1>1. PICK i, e : i = call.d.index /\ e = EntryOf(call.d)
  OBVIOUS
<1>2. Picked(call.path) /\ Passed(i) /\ Ahead = i
  BY <1>1 DEF DirInv, SearchInv, At, Ahead
<1>3. /\ i \in 0 .. IndexMod - 1 /\ InTable(i) /\ e = TableAt(i)
      /\ Found(e) <=> IsNamed(i, call.path)
  BY <1>1, SearchExact
<1>4. ASSUME e.kind # "end", Found(e), UniqueNames PROVE e = listed[walk.index][2]
  <2>1. i \in Stored
    BY <1>2, <1>3, <1>4 DEF Stored, Passed
  <2>2. PICK j \in Stored : IsShown(j, call.path) /\ listed[walk.index] = <<call.path, TableAt(j)>>
    BY <1>2 DEF Picked
  <2>3. TableAt(j) = TableAt(i)
    BY <1>2, <1>3, <1>4, <2>1, <2>2 DEF UniqueNames, Picked
  <2> QED
    BY <1>3, <2>2, <2>3
<1>5. Len(listed) = walk.index
  BY <1>2 DEF Picked
<1> QED
  BY <1>1, <1>4, <1>5 DEF PlaysTheListed

\* Objects, calls and the walk have their types, between the bounds of a file.
LEMMA TypesHold == FsInv /\ DirInv /\ VolInv => TypeOK
<1> SUFFICES ASSUME FsInv, DirInv, VolInv PROVE TypeOK
  OBVIOUS
<1>1. ASSUME NEW h \in Handles
      PROVE  /\ fil[h].file \in Files \cup {NoFile} /\ fil[h].error \in BOOLEAN
             /\ Ready(h) => fil[h].fptr \in 0 .. FSize[fil[h].file]
             /\ fil[h].clust \in Nat /\ fil[h].dsect \in Nat
  <2>1. fil[h] \in FilType
    BY DEF FsInv, ObjectsInv
  <2>2. fil[h].fptr \in Nat
    BY <2>1 DEF FilType
  <2>3. ASSUME Ready(h) PROVE fil[h].fptr \in 0 .. FSize[fil[h].file]
    <3>1. FSize[fil[h].file] \in Nat
      BY <2>3, ReadyFile DEF FsInv
    <3>2. fil[h].fptr <= FSize[fil[h].file]
      BY <2>2, <2>3, <3>1 DEF FsInv, ObjectsInv, Stands, Enters
    <3> QED
      BY <2>2, <3>1, <3>2
  <2> QED
    BY <2>1, <2>3 DEF FilType
<1>2. call.op \in {"none", "read", "find", "readdir", "open"}
  BY DEF FsInv, CallInv
<1>3. DOMAIN lfn = 1 .. MaxParts + 1 /\ walk.i \in Nat
  BY DEF DirInv, WalkInv, BufferType
<1> QED
  BY <1>1, <1>2, <1>3 DEF TypeOK, VolInv

\* FatFs keeps its types: above all no file object that can be read stands behind the end of
\* its file, on whatever damaged volume.
THEOREM FatFsTypes == Spec => []TypeOK
<1>1. Init => VolInv
  BY DEF Init, VolInv
<1>2. FsInv /\ DirInv /\ VolInv /\ [Next]_vars => VolInv'
  BY VolNext
<1> QED
  BY <1>1, <1>2, DirHolds, TypesHold, PTL DEF Spec

\* Whatever names were listed or searched before, and whatever pieces of names have lost
\* their entry: dir_find, with LfnBuf and the checksum, takes the first entry that the path
\* names, in every directory.
THEOREM SearchesAreExact == Spec => []FindIsExact
BY DirHolds, SearchIsExact, PTL

\* In every directory walk_fs counts the shows that the table has, each under the name that
\* the format gives it, in their order, across damaged chains and disk failures.
THEOREM ListingsAreExact == Spec => []ListIsExact
BY DirHolds, ListingIsExact, PTL

\* A play by number plays the entry listed with the number, though walk_fs hands a name to
\* f_open, which searches anew: in every directory that has no name twice.
THEOREM PlaysAreListed == Spec => []PlaysTheListed
BY DirHolds, PlayIsListed, PTL
================================================================================

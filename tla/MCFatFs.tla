------------------------------ MODULE MCFatFs ------------------------------
(* A damaged volume: f2's chain ends too early, f4's runs in a circle.     *)
EXTENDS FatFs, TLC

McFat == 2 :> 4 @@ 3 :> 9 @@ 4 :> 9 @@ 5 :> 3 @@ 6 :> 9 @@ 7 :> 7 @@ 8 :> 8
McSClust == "f1" :> 5 @@ "f2" :> 6 @@ "f3" :> 0 @@ "f4" :> 7
McFSize == "f1" :> 7 @@ "f2" :> 6 @@ "f3" :> 0 @@ "f4" :> 9

Piece(ord, last, sum, part) ==
    [kind |-> "lfn", ord |-> ord, last |-> last, sum |-> sum, part |-> part]
Short83(name, attr, file) == [kind |-> "sfn", name |-> name, attr |-> attr, file |-> file]
Free == [kind |-> "free"]
Label == [kind |-> "labelarc", name |-> "SHOW", attr |-> "file"]

\* Clusters 2 and 4, whose sectors are 5, 6 and 9, 10; cluster 8, which is its
\* own next one; or sector 4, which is full.
McRoots == {[fat32 |-> TRUE, dirbase |-> 8, n_rootdir |-> 0],
            [fat32 |-> TRUE, dirbase |-> 2, n_rootdir |-> 0],
            [fat32 |-> FALSE, dirbase |-> 4, n_rootdir |-> 4]}
McDirData ==
    4 :> <<Label, Piece(2, TRUE, 2, "cc"), Piece(1, FALSE, 2, "aa"), Short83("AACC~1", "file", "f4")>> @@
    17 :> <<Piece(1, TRUE, 1, "aa"), Short83("D", "file", "f3"),
            Piece(1, TRUE, 1, "aa"), Short83("AAB~2", "file", "f2")>> @@
    18 :> <<Piece(2, TRUE, 2, "cc"), Piece(1, FALSE, 1, "aa"), Short83("AACC~1", "file", "f4"),
            Piece(2, TRUE, 1, "bb")>> @@
    5 :> <<Label, Piece(3, TRUE, 1, "zz"), Piece(2, FALSE, 1, "bb"), Piece(1, FALSE, 1, "aa")>> @@
    6 :> <<Short83("AAB~1", "file", "f1"), Piece(1, TRUE, 1, "aa"), Free,
           Short83("AAB~3", "hidden", "f4")>> @@
    9 :> <<Piece(1, TRUE, 1, "aa"), Short83("AAB~2", "file", "f2"), Piece(2, TRUE, 2, "cc"),
           Piece(1, FALSE, 2, "aa")>> @@
    10 :> <<Short83("AACC~1", "file", "f4"), Piece(1, TRUE, 1, "zz"), Short83("D", "dir", "f3"),
            [kind |-> "end"]>>

McParts ==
    "aa" :> <<"aa">> @@ "aabbzz" :> <<"aa", "bb", "zz">> @@ "aacc" :> <<"aa", "cc">> @@
    "zz" :> <<"zz">> @@
    "AAB~1" :> <<"AAB~1">> @@ "AAB~2" :> <<"AAB~2">> @@ "AAB~3" :> <<"AAB~3">> @@
    "AACC~1" :> <<"AACC~1">> @@ "D" :> <<"D">> @@ "SHOW" :> <<"SHOW">>
McShort == [p \in DOMAIN McParts |-> IF p \in {"aa", "aabbzz", "aacc", "zz"} THEN "loss" ELSE p]
McSumOf == [s \in {"AAB~1", "AAB~2", "AAB~3"} |-> 1] @@ [s \in {"AACC~1", "D", "SHOW"} |-> 2]
McOpens == "player" :> {"aabbzz", "aacc", "D", "AAB~3"} @@ "script" :> {"aa"}
McReads == "player" :> {3} @@ "script" :> {5}
McShows == {"aa", "aacc", "AAB~1", "SHOW"}
=============================================================================

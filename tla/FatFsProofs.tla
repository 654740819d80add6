------------------------------ MODULE FatFsProofs ------------------------------
(***************************************************************************)
(* Proofs about FatFs, for every volume, however damaged its FAT is: what  *)
(* a chain of clusters is, that a file object's cluster and sector are     *)
(* those of its position, and that files are streams of bytes.             *)
(***************************************************************************)
EXTENDS FatFs, WellFoundedInduction, SequenceTheorems, TLAPS

--------------------------------------------------------------------------------
(* Chains                                                                  *)

\* A set of naturals has a least element.
LEMMA LeastNat ==
  ASSUME NEW T, T \subseteq Nat, T # {}
  PROVE  \E x \in T : \A y \in T : x <= y
<1> DEFINE R == OpToRel(<, Nat)
<1>1. R = {p \in Nat \X Nat : p[1] < p[2]}
  BY Zenon DEF OpToRel
<1>2. IsWellFoundedOn(R, Nat)
  BY NatLessThanWellFounded
<1> HIDE DEF R
<1>3. PICK x \in T : \A y \in T : ~ (<<y, x>> \in R)
  BY <1>2, WFMin
<1>4. ASSUME NEW y \in T PROVE x <= y
  <2>1. x \in Nat /\ y \in Nat /\ <<y, x>> \in Nat \X Nat
    OBVIOUS
  <2>2. y < x => <<y, x>> \in R
    BY <1>1, <2>1
  <2> QED
    BY <1>3, <2>1, <2>2
<1> QED
  BY <1>4

\* What is true of 0, and of n + 1 if it is of n, is true of all: sets of naturals.
LEMMA Induction ==
  ASSUME NEW T, 0 \in T, \A n \in Nat : n \in T => n + 1 \in T
  PROVE  \A n \in Nat : n \in T
<1> SUFFICES ASSUME Nat \ T # {} PROVE FALSE
  OBVIOUS
<1>1. PICK x \in Nat \ T : \A y \in Nat \ T : x <= y
  BY LeastNat
<1>2. x - 1 \in Nat /\ x - 1 \notin T /\ x - 1 + 1 = x
  BY <1>1
<1> QED
  BY <1>1, <1>2

\* The cluster behind a.
Behind(a) == IF a \in Clusters THEN Fat[a] ELSE 1

\* g is the beginning of the chain from c, up to its n-th cluster.
Begins(c, g, n) ==
  /\ g \in [0 .. n -> Links \cup {c}]
  /\ g[0] = c
  /\ \A k \in 0 .. n - 1 : g[k + 1] = Behind(g[k])

\* Links are numbers.
LEMMA LinkFacts ==
  /\ \A a : Behind(a) \in Links
  /\ Clusters \subseteq Nat \ {0, 1} /\ Links \subseteq Nat
  /\ EndOfChain \notin Clusters
BY VolumeAssumption DEF Behind, Links, Clusters, EndOfChain

\* Every chain has beginnings of every length.
LEMMA BeginningExists ==
  ASSUME NEW c
  PROVE  \A n \in Nat : \E g : Begins(c, g, n)
<1> DEFINE T == {n \in Nat : \E g : Begins(c, g, n)}
<1>1. 0 \in T
  <2>1. Begins(c, [k \in 0 .. 0 |-> c], 0)
    BY DEF Begins
  <2> QED
    BY <2>1
<1>2. ASSUME NEW n \in Nat, n \in T PROVE n + 1 \in T
  <2>1. PICK g : Begins(c, g, n)
    BY <1>2
  <2> DEFINE h == [k \in 0 .. n + 1 |-> IF k <= n THEN g[k] ELSE Behind(g[n])]
  <2>2. h \in [0 .. n + 1 -> Links \cup {c}]
    BY <2>1, LinkFacts DEF Begins
  <2>3. \A k \in 0 .. n : h[k] = g[k]
    OBVIOUS
  <2>4. h[n + 1] = Behind(g[n])
    OBVIOUS
  <2> HIDE DEF h
  <2>5. ASSUME NEW k \in 0 .. n PROVE h[k + 1] = Behind(h[k])
    <3>1. CASE k = n
      BY <2>3, <2>4, <3>1
    <3>2. CASE k < n
      BY <2>1, <2>3, <3>2 DEF Begins
    <3> QED
      BY <3>1, <3>2
  <2>6. Begins(c, h, n + 1)
    BY <2>1, <2>2, <2>3, <2>5 DEF Begins
  <2> QED
    BY <2>6
<1> HIDE DEF T
<1>3. \A n \in Nat : n \in T
  BY <1>1, <1>2, Induction
<1> QED
  BY <1>3 DEF T

\* And only one of each.
LEMMA BeginningsAgree ==
  ASSUME NEW c, NEW n \in Nat, NEW m \in Nat, NEW g, NEW h,
         Begins(c, g, n), Begins(c, h, m)
  PROVE  \A k \in Nat : k <= n /\ k <= m => g[k] = h[k]
<1> DEFINE T == {k \in Nat : k <= n /\ k <= m => g[k] = h[k]}
<1>1. 0 \in T
  BY DEF Begins
<1>2. ASSUME NEW k \in Nat, k \in T PROVE k + 1 \in T
  BY <1>2 DEF Begins
<1> HIDE DEF T
<1>3. \A k \in Nat : k \in T
  BY <1>1, <1>2, Induction
<1> QED
  BY <1>3 DEF T

\* ChainFrom is what its definition says: the recursion is sound.
LEMMA ChainSteps ==
  ASSUME NEW c
  PROVE  /\ ChainFrom(c)[0] = c
         /\ \A k \in Nat : ChainFrom(c)[k + 1] = Behind(ChainFrom(c)[k])
<1> DEFINE G(k) == CHOOSE g : Begins(c, g, k)
           F == [k \in Nat |-> G(k)[k]]
           Chain(at) == [k \in Nat |-> IF k = 0 THEN c
                           ELSE IF at[k - 1] \in Clusters THEN Fat[at[k - 1]] ELSE 1]
<1>1. \A k \in Nat : Begins(c, G(k), k)
  BY BeginningExists
<1> HIDE DEF G
<1>2. F[0] = c
  BY <1>1 DEF Begins
<1>3. ASSUME NEW k \in Nat PROVE F[k + 1] = Behind(F[k])
  <2>1. G(k + 1)[k] = G(k)[k]
    BY <1>1, BeginningsAgree
  <2>2. G(k + 1)[k + 1] = Behind(G(k + 1)[k])
    BY <1>1 DEF Begins
  <2> QED
    BY <2>1, <2>2
<1>4. F = Chain(F)
  <2>1. ASSUME NEW k \in Nat PROVE F[k] = Chain(F)[k]
    <3>1. CASE k = 0
      BY <1>2, <3>1
    <3>2. CASE k # 0
      <4>1. k - 1 \in Nat /\ k - 1 + 1 = k
        BY <3>2
      <4>2. F[k] = Behind(F[k - 1])
        BY <1>3, <4>1
      <4> HIDE DEF F
      <4> QED
        BY <3>2, <4>2 DEF Behind
    <3> QED
      BY <3>1, <3>2
  <2> QED
    BY <2>1
<1> HIDE DEF F
<1>5. ChainFrom(c) = CHOOSE at : at = Chain(at)
  BY DEF ChainFrom
<1>6. ChainFrom(c) = Chain(ChainFrom(c))
  BY <1>4, <1>5
<1>7. ChainFrom(c)[0] = c
  BY <1>6
<1>8. ASSUME NEW k \in Nat PROVE ChainFrom(c)[k + 1] = Behind(ChainFrom(c)[k])
  <2>1. k + 1 \in Nat /\ k + 1 # 0 /\ k + 1 - 1 = k
    OBVIOUS
  <2>2. Chain(ChainFrom(c))[k + 1] = Behind(ChainFrom(c)[k])
    BY <2>1 DEF Behind
  <2> QED
    BY <1>6, <2>2
<1> QED
  BY <1>7, <1>8

--------------------------------------------------------------------------------
(* Positions                                                               *)

\* Quotient and remainder are determined by their equation.
LEMMA DivMod ==
  ASSUME NEW b \in Nat \ {0}, NEW q \in Nat, NEW r \in 0 .. b - 1
  PROVE  (b * q + r) \div b = q /\ (b * q + r) % b = r
<1> DEFINE x == b * q + r
           d == x \div b
           m == x % b
<1>1. x \in Nat /\ d \in Nat /\ m \in 0 .. b - 1 /\ x = b * d + m
  OBVIOUS
<1>2. x = b * q + r
  OBVIOUS
<1> HIDE DEF x, d, m
<1>3. ~(d < q)
  <2> SUFFICES ASSUME d + 1 <= q PROVE FALSE
    BY <1>1
  <2>1. b * (d + 1) <= b * q
    BY <1>1
  <2> QED
    BY <1>1, <1>2, <2>1
<1>4. ~(d > q)
  <2> SUFFICES ASSUME q + 1 <= d PROVE FALSE
    BY <1>1
  <2>1. b * (q + 1) <= b * d
    BY <1>1
  <2> QED
    BY <1>1, <1>2, <2>1
<1>5. d = q /\ m = r
  BY <1>1, <1>2, <1>3, <1>4
<1> QED
  BY <1>5 DEF x, d, m

\* And exist.
LEMMA DivisionExists ==
  ASSUME NEW b \in Nat \ {0}, NEW x \in Nat
  PROVE  x \div b \in Nat /\ x % b \in 0 .. b - 1 /\ x = b * (x \div b) + (x % b)
OBVIOUS

\* The cluster in the chain, the sector in the cluster and the place in the sector
\* that position p is at.
Cl(p)  == p \div ClusterBytes
Sec(p) == (p \div SS) % CSize
Of(p)  == p % SS

\* The units are not empty.
LEMMA Sizes == SS \in Nat \ {0} /\ CSize \in Nat \ {0} /\ ClusterBytes \in Nat \ {0}
<1>1. SS \in Nat \ {0} /\ CSize \in Nat \ {0}
  BY VolumeAssumption
<1> QED
  BY <1>1 DEF ClusterBytes

\* A position is these three.
LEMMA PositionIs ==
  ASSUME NEW q \in Nat, NEW s \in 0 .. CSize - 1, NEW o \in 0 .. SS - 1, NEW p,
         p = ClusterBytes * q + (SS * s + o)
  PROVE  /\ Cl(p) = q /\ Sec(p) = s /\ Of(p) = o
         /\ (p % ClusterBytes) \div SS = s
<1>1. SS * s + o \in 0 .. ClusterBytes - 1
  <2>1. SS * s <= SS * (CSize - 1) /\ SS * s \in Nat
    BY Sizes
  <2>2. SS * (CSize - 1) = ClusterBytes - SS
    BY Sizes DEF ClusterBytes
  <2> QED
    BY <2>1, <2>2, Sizes
<1>2. p \div ClusterBytes = q /\ p % ClusterBytes = SS * s + o
  BY <1>1, Sizes, DivMod
<1>3. (SS * s + o) \div SS = s
  BY Sizes, DivMod
<1>4. p = SS * (CSize * q + s) + o /\ CSize * q + s \in Nat
  <2>1. ClusterBytes * q = SS * (CSize * q)
    BY Sizes DEF ClusterBytes
  <2>2. SS * (CSize * q) + SS * s = SS * (CSize * q + s)
    BY Sizes
  <2> QED
    BY <2>1, <2>2, Sizes
<1>5. p \div SS = CSize * q + s /\ p % SS = o
  BY <1>4, Sizes, DivMod
<1>6. (CSize * q + s) % CSize = s
  BY Sizes, DivMod
<1> QED
  BY <1>2, <1>3, <1>5, <1>6 DEF Cl, Sec, Of

\* And every position has them.
LEMMA PositionParts ==
  ASSUME NEW p \in Nat
  PROVE  /\ Cl(p) \in Nat /\ Sec(p) \in 0 .. CSize - 1 /\ Of(p) \in 0 .. SS - 1
         /\ p = ClusterBytes * Cl(p) + (SS * Sec(p) + Of(p))
<1> DEFINE d == p \div SS
           q == d \div CSize
           s == d % CSize
           o == p % SS
<1>1. d \in Nat /\ o \in 0 .. SS - 1 /\ p = SS * d + o
  BY Sizes, DivisionExists
<1> HIDE DEF d
<1>2. q \in Nat /\ s \in 0 .. CSize - 1 /\ d = CSize * q + s
  BY <1>1, Sizes, DivisionExists
<1> HIDE DEF q, s, o
<1>3. p = ClusterBytes * q + (SS * s + o)
  <2>1. SS * d = SS * (CSize * q) + SS * s
    BY <1>2, Sizes
  <2>2. SS * (CSize * q) = ClusterBytes * q
    BY <1>2, Sizes DEF ClusterBytes
  <2> QED
    BY <1>1, <1>2, <2>1, <2>2, Sizes
<1>4. Cl(p) = q /\ Sec(p) = s /\ Of(p) = o
  BY <1>1, <1>2, <1>3, PositionIs
<1> QED
  BY <1>1, <1>2, <1>3, <1>4

\* ByteAt by these three.
LEMMA ByteIs ==
  ASSUME NEW c, NEW p \in Nat
  PROVE  ByteAt(c, p) = <<Clust2Sect(ChainFrom(c)[Cl(p)]) + Sec(p), Of(p)>>
<1>1. (p % ClusterBytes) \div SS = Sec(p)
  BY PositionParts, PositionIs
<1> QED
  BY <1>1 DEF ByteAt, Cl, Of

\* j bytes further on in the same cluster.
LEMMA Further ==
  ASSUME NEW p \in Nat, NEW j \in Nat, Of(p) + j < SS * (CSize - Sec(p))
  PROVE  /\ Cl(p + j) = Cl(p)
         /\ Sec(p + j) = Sec(p) + (Of(p) + j) \div SS
         /\ Of(p + j) = (Of(p) + j) % SS
<1> DEFINE t == Of(p) + j
           a == t \div SS
           b == t % SS
<1>1. /\ Cl(p) \in Nat /\ Sec(p) \in 0 .. CSize - 1 /\ Of(p) \in 0 .. SS - 1
      /\ p = ClusterBytes * Cl(p) + (SS * Sec(p) + Of(p))
  BY PositionParts
<1>2. t \in Nat
  BY <1>1
<1> HIDE DEF t
<1>3. a \in Nat /\ b \in 0 .. SS - 1 /\ t = SS * a + b
  BY <1>2, Sizes, DivisionExists
<1> HIDE DEF a, b
<1>4. a < CSize - Sec(p)
  <2> SUFFICES ASSUME CSize - Sec(p) <= a PROVE FALSE
    BY <1>1, <1>3, Sizes
  <2>1. SS * (CSize - Sec(p)) <= SS * a
    BY <1>1, <1>3, Sizes
  <2> QED
    BY <1>1, <1>3, <2>1, Sizes DEF t
<1>5. p + j = ClusterBytes * Cl(p) + (SS * (Sec(p) + a) + b)
  <2>1. SS * (Sec(p) + a) = SS * Sec(p) + SS * a
    BY <1>1, <1>3, Sizes
  <2>2. Of(p) + j = SS * a + b
    BY <1>3 DEF t
  <2>3. /\ ClusterBytes * Cl(p) \in Nat /\ SS * Sec(p) \in Nat /\ SS * a \in Nat
        /\ SS * (Sec(p) + a) \in Nat
    BY <1>1, <1>3, Sizes
  <2>4. p + j = ClusterBytes * Cl(p) + (SS * Sec(p) + (Of(p) + j))
    BY <1>1, <2>3
  <2> QED
    BY <1>3, <2>1, <2>2, <2>3, <2>4
<1>6. Sec(p) + a \in 0 .. CSize - 1
  BY <1>1, <1>3, <1>4, Sizes
<1>7. Cl(p + j) = Cl(p) /\ Sec(p + j) = Sec(p) + a /\ Of(p + j) = b
  BY <1>1, <1>3, <1>5, <1>6, PositionIs
<1> QED
  BY <1>7 DEF a, b, t

\* From the beginning of a cluster, but the first, to the byte before it; and from
\* within a cluster.
LEMMA StepBack ==
  ASSUME NEW p \in Nat \ {0}
  PROVE  /\ p % ClusterBytes = 0 => Cl(p) = Cl(p - 1) + 1
         /\ p % ClusterBytes # 0 => Cl(p) = Cl(p - 1)
         /\ Cl(p - 1) \in Nat
<1> DEFINE q == p \div ClusterBytes
           r == p % ClusterBytes
           b == ClusterBytes
<1>1. b \in Nat \ {0}
  BY Sizes
<1> HIDE DEF b
<1>2. q \in Nat /\ r \in 0 .. b - 1 /\ p = b * q + r
  BY <1>1, DivisionExists DEF b
<1> HIDE DEF q, r
<1>3. CASE r = 0
  <2>1. q >= 1
    BY <1>1, <1>2, <1>3
  <2>2. p - 1 = b * (q - 1) + (b - 1) /\ q - 1 \in Nat /\ b - 1 \in 0 .. b - 1
    <3>1. b * (q - 1) = b * q - b
      BY <1>1, <1>2
    <3> QED
      BY <1>1, <1>2, <1>3, <2>1, <3>1
  <2>3. (p - 1) \div b = q - 1
    BY <1>1, <2>2, DivMod
  <2> QED
    BY <1>2, <1>3, <2>2, <2>3 DEF Cl, b, q, r
<1>4. CASE r # 0
  <2>1. p - 1 = b * q + (r - 1) /\ r - 1 \in 0 .. b - 1
    BY <1>1, <1>2, <1>4
  <2>2. (p - 1) \div b = q
    BY <1>1, <1>2, <2>1, DivMod
  <2> QED
    BY <1>2, <1>4, <2>2 DEF Cl, b, q, r
<1> QED
  BY <1>3, <1>4

\* The code's tests, on these parts.
LEMMA Boundaries ==
  ASSUME NEW p \in Nat
  PROVE  /\ p % ClusterBytes = 0 => Of(p) = 0 /\ Sec(p) = 0
         /\ Cl(0) = 0 /\ Of(0) = 0
<1> DEFINE q == p \div ClusterBytes
<1>1. ASSUME p % ClusterBytes = 0 PROVE Of(p) = 0 /\ Sec(p) = 0
  <2>1. q \in Nat /\ p = ClusterBytes * q
    BY <1>1, Sizes, DivisionExists
  <2> HIDE DEF q
  <2>2. p = ClusterBytes * q + (SS * 0 + 0)
    BY <2>1, Sizes
  <2>3. 0 \in 0 .. CSize - 1 /\ 0 \in 0 .. SS - 1
    BY Sizes
  <2> QED
    BY <2>1, <2>2, <2>3, PositionIs
<1>2. Cl(0) = 0 /\ Of(0) = 0
  <2>1. 0 = ClusterBytes * 0 + (SS * 0 + 0)
    BY Sizes
  <2>2. 0 \in 0 .. CSize - 1 /\ 0 \in 0 .. SS - 1
    BY Sizes
  <2> QED
    BY <2>1, <2>2, PositionIs
<1> QED
  BY <1>1, <1>2

--------------------------------------------------------------------------------
(* Bytes                                                                   *)

\* Sectors and bytes are numbered.
LEMMA ByteType ==
  /\ \A c : Clust2Sect(c) \in Nat
  /\ \A c : \A p \in Nat : ByteAt(c, p) \in Nat \X Nat
<1>1. ASSUME NEW c PROVE Clust2Sect(c) \in Nat
  <2>1. CASE c \in Clusters
    <3>1. c - 2 \in Nat
      BY <2>1 DEF Clusters
    <3>2. (c - 2) * CSize \in Nat
      BY <3>1, Sizes
    <3> QED
      BY <2>1, <3>2, VolumeAssumption DEF Clust2Sect
  <2> QED
    BY <2>1 DEF Clust2Sect
<1>2. ASSUME NEW c, NEW p \in Nat PROVE ByteAt(c, p) \in Nat \X Nat
  <2> DEFINE a == Clust2Sect(ChainFrom(c)[Cl(p)]) + Sec(p)
             b == Of(p)
  <2>1. Sec(p) \in Nat /\ b \in Nat
    BY PositionParts, Sizes
  <2>2. a \in Nat
    <3>1. Clust2Sect(ChainFrom(c)[Cl(p)]) \in Nat
      BY <1>1
    <3> QED
      BY <2>1, <3>1
  <2>3. ByteAt(c, p) = <<a, b>>
    BY ByteIs
  <2> HIDE DEF a, b
  <2> QED
    BY <2>1, <2>2, <2>3
<1> QED
  BY <1>1, <1>2

\* n bytes from place ofs of sector s on.
Got(s, ofs, n) == [i \in 1 .. n |-> <<s + (ofs + i - 1) \div SS, (ofs + i - 1) % SS>>]

\* What f_read takes from position p on, n bytes in the rest of the cluster, are the
\* bytes of the file, whether they come from the window or past it.
LEMMA TakenAreBytes ==
  ASSUME NEW c, NEW p \in Nat, NEW n \in Nat, NEW s,
         Of(p) + n <= SS * (CSize - Sec(p)),
         s = Clust2Sect(ChainFrom(c)[Cl(p)]) + Sec(p)
  PROVE  Got(s, Of(p), n) = BytesFrom(c, p, n)
<1>1. ASSUME NEW i \in 1 .. n
      PROVE  <<s + (Of(p) + i - 1) \div SS, (Of(p) + i - 1) % SS>> = ByteAt(c, p + i - 1)
  <2> DEFINE j == i - 1
  <2>1. /\ Sec(p) \in 0 .. CSize - 1 /\ Of(p) \in 0 .. SS - 1 /\ j \in Nat
        /\ SS * (CSize - Sec(p)) \in Nat
    <3>1. Sec(p) \in 0 .. CSize - 1 /\ Of(p) \in 0 .. SS - 1
      BY PositionParts
    <3>2. CSize - Sec(p) \in Nat
      BY <3>1, Sizes
    <3> QED
      BY <3>1, <3>2, Sizes
  <2>2. p + i - 1 = p + j /\ Of(p) + i - 1 = Of(p) + j /\ j < n /\ p + j \in Nat
    BY <2>1
  <2>3. Of(p) + j < SS * (CSize - Sec(p))
    BY <2>1, <2>2
  <2> HIDE DEF j
  <2>4. /\ Cl(p + j) = Cl(p) /\ Sec(p + j) = Sec(p) + (Of(p) + j) \div SS
        /\ Of(p + j) = (Of(p) + j) % SS
    BY <2>1, <2>3, Further
  <2>5. ByteAt(c, p + j) = <<Clust2Sect(ChainFrom(c)[Cl(p)]) + (Sec(p) + (Of(p) + j) \div SS),
                             (Of(p) + j) % SS>>
    BY <2>2, <2>4, ByteIs
  <2>6. (Of(p) + j) \div SS \in Nat /\ Clust2Sect(ChainFrom(c)[Cl(p)]) \in Nat
    BY <2>1, Sizes, ByteType
  <2>7. s + (Of(p) + j) \div SS
          = Clust2Sect(ChainFrom(c)[Cl(p)]) + (Sec(p) + (Of(p) + j) \div SS)
    BY <2>1, <2>6
  <2> QED
    BY <2>2, <2>5, <2>7
<1> QED
  BY <1>1 DEF BytesFrom, Got

Joined(s, t) == s \o t
Adds(x, y, z) == x + y = z

\* Bytes behind bytes, as f_read appends them.
LEMMA BytesJoin ==
  ASSUME NEW c, NEW p \in Nat, NEW k \in Nat, NEW n \in Nat, NEW q \in Nat, NEW m \in Nat,
         Adds(p, k, q), Adds(k, n, m)
  PROVE  /\ Joined(BytesFrom(c, p, k), BytesFrom(c, q, n)) = BytesFrom(c, p, m)
         /\ BytesFrom(c, p, m) \in Seq(Nat \X Nat)
<1>0. q = p + k /\ m = k + n
  BY DEF Adds
<1> DEFINE s == BytesFrom(c, p, k)
           t == BytesFrom(c, q, n)
           u == BytesFrom(c, p, m)
<1>1. /\ s \in [1 .. k -> Nat \X Nat] /\ t \in [1 .. n -> Nat \X Nat]
      /\ u \in [1 .. m -> Nat \X Nat]
  <2>1. /\ \A i \in 1 .. k : p + i - 1 \in Nat
        /\ \A i \in 1 .. n : q + i - 1 \in Nat
        /\ \A i \in 1 .. m : p + i - 1 \in Nat
    OBVIOUS
  <2> QED
    BY <2>1, ByteType DEF BytesFrom
<1>2. /\ \A i \in 1 .. k : s[i] = ByteAt(c, p + i - 1)
      /\ \A i \in 1 .. n : t[i] = ByteAt(c, q + i - 1)
      /\ \A i \in 1 .. m : u[i] = ByteAt(c, p + i - 1)
  BY DEF BytesFrom
<1> HIDE DEF s, t, u
<1>3. \A z, l : l \in Nat /\ z \in [1 .. l -> Nat \X Nat]
                 => z \in Seq(Nat \X Nat) /\ Len(z) = l
  <2> SUFFICES ASSUME NEW l \in Nat, NEW z \in [1 .. l -> Nat \X Nat]
               PROVE  z \in Seq(Nat \X Nat) /\ Len(z) = l
    OBVIOUS
  <2>1. z \in Seq(Nat \X Nat)
    BY SeqDef
  <2>2. Len(z) \in Nat /\ 1 .. Len(z) = 1 .. l
    BY <2>1, LenProperties
  <2>3. \A i \in Nat : i \in 1 .. Len(z) <=> i \in 1 .. l
    BY <2>2
  <2>4. ~(Len(z) < l) /\ ~(l < Len(z))
    BY <2>2, <2>3
  <2> QED
    BY <2>1, <2>2, <2>4
<1>4. /\ s \in Seq(Nat \X Nat) /\ Len(s) = k /\ t \in Seq(Nat \X Nat) /\ Len(t) = n
      /\ u \in Seq(Nat \X Nat) /\ Len(u) = m
  BY <1>1, <1>3
<1>5. /\ s \o t \in Seq(Nat \X Nat) /\ Len(s \o t) = m
      /\ \A i \in 1 .. m : (s \o t)[i] = IF i <= k THEN s[i] ELSE t[i - k]
  BY <1>0, <1>4, ConcatProperties
<1>6. ASSUME NEW i \in 1 .. m PROVE (s \o t)[i] = u[i]
  <2>1. CASE i <= k
    BY <1>2, <1>5, <2>1
  <2>2. CASE i > k
    <3>1. PICK j \in 1 .. n : j = i - k /\ q + j - 1 = p + i - 1
      BY <1>0, <2>2
    <3>2. t[j] = ByteAt(c, q + j - 1) /\ u[i] = ByteAt(c, p + i - 1)
      BY <1>2
    <3>3. (s \o t)[i] = t[j]
      <4>1. (s \o t)[i] = IF i <= k THEN s[i] ELSE t[i - k]
        BY <1>5
      <4>2. ~(i <= k)
        BY <2>2
      <4> QED
        BY <3>1, <4>1, <4>2, Zenon
    <3> QED
      BY <3>1, <3>2, <3>3, Zenon
  <2>3. i <= k \/ i > k
    OBVIOUS
  <2> QED
    BY <2>1, <2>2, <2>3, Zenon
<1>7. s \o t = u
  BY <1>4, <1>5, <1>6, SeqEqual
<1> QED
  BY <1>4, <1>7 DEF s, t, u, Joined

\* The smaller of two.
LEMMA MinIs ==
  ASSUME NEW a \in Int, NEW b \in Int
  PROVE  Min({a, b}) = IF a < b THEN a ELSE b
<1> DEFINE m == IF a < b THEN a ELSE b
<1>1. m \in {a, b} /\ \A y \in {a, b} : m <= y
  OBVIOUS
<1>2. ASSUME NEW x \in {a, b}, \A y \in {a, b} : x <= y PROVE x = m
  BY <1>2
<1> HIDE DEF m
<1> QED
  BY <1>1, <1>2 DEF Min, m

--------------------------------------------------------------------------------
(* The invariant                                                           *)

FilType ==
  [file : Files \cup {NoFile}, error : BOOLEAN, fptr : Nat, clust : Nat, dsect : Nat]
PlaceType == [fptr : Nat, clust : Nat, dsect : Nat]

\* The cluster and the sector in o are those that its position in file f needs: the
\* cluster of the byte before, and within a sector that sector.
Stands(f, o) ==
  /\ o.fptr <= FSize[f]
  /\ o.fptr > 0 => o.clust = ChainFrom(SClust[f])[Cl(o.fptr - 1)] /\ o.clust \in Clusters
  /\ Of(o.fptr) # 0 => o.dsect = Clust2Sect(o.clust) + Sec(o.fptr)

\* At the end of a cluster f_read has fetched the link to the next.
Enters(f, o) ==
  /\ o.fptr < FSize[f] /\ o.fptr % ClusterBytes = 0
  /\ o.clust = ChainFrom(SClust[f])[Cl(o.fptr)]

Entering(h) == call.op = "read" /\ call.h = h /\ call.at = "transfer"

ObjectsInv ==
  /\ fil \in [Handles -> FilType] /\ frame_start \in [Handles -> PlaceType]
  /\ \A h \in Handles : Ready(h) =>
       /\ Entering(h) => Enters(fil[h].file, fil[h])
       /\ ~Entering(h) => Stands(fil[h].file, fil[h])
       /\ frame_start[h] # NoPlace => Stands(fil[h].file, frame_start[h])

ReadCall == [op : {"read"}, h : Handles, at : {"loop", "transfer"},
             n : Nat, start : Nat, btr : Nat, buf : Seq(Nat \X Nat)]

\* A read that goes on: what it has, and what it still has to get.
Delivers(o) ==
  /\ call.start <= o.fptr
  /\ o.fptr - call.start + call.btr = Min({call.n, FSize[o.file] - call.start})
  /\ call.buf = BytesFrom(SClust[o.file], call.start, o.fptr - call.start)

ReadInv == call.op = "read" =>
  /\ call \in ReadCall /\ Ready(call.h) /\ call.n \in Reads[call.h]
  /\ walk = NoWalk
  /\ Delivers(fil[call.h])
  /\ call.at = "transfer" => call.btr > 0

\* A place in the root directory.
DirPlace(d) ==
  /\ d \in [index : 0 .. IndexMod - 1, sect : Nat, clust : Nat]
  /\ root.fat32 =>
       /\ d.clust \in DirClusters
       /\ d.sect = Clust2Sect(d.clust) + ((d.index \div DirPer) % CSize)
  /\ ~root.fat32 =>
       /\ d.clust = 0 /\ d.index < root.n_rootdir
       /\ d.sect = root.dirbase + d.index \div DirPer

\* A search is in the directory, for an object that is closed meanwhile.
FindInv == call.op = "find" =>
  /\ call = [op |-> "find", at |-> call.at, h |-> call.h, path |-> call.path,
             d |-> call.d, ord |-> call.ord, sum |-> call.sum]
  /\ call.h \in Handles
  /\ fil[call.h].file = NoFile /\ frame_start[call.h] = NoPlace
  /\ DirPlace(call.d)

CallInv ==
  /\ call.op \in {"none", "read", "find", "readdir", "open"}
  /\ call.op = "readdir" /\ call.at # "hit" =>
       call = [op |-> "readdir", at |-> call.at, d |-> call.d, ord |-> call.ord, sum |-> call.sum]
  /\ call # NoCall \/ walk # NoWalk => answer = Quiet
  /\ root \in Roots

FsInv == ObjectsInv /\ ReadInv /\ FindInv /\ CallInv

\* What the callers see of the objects, as FatFs maps it.
Opened  == [h \in Handles |-> IF Ready(h) THEN fil[h].file ELSE NoFile]
Pos     == [h \in Handles |-> IF ~Ready(h) THEN 0
                              ELSE IF InCall(h) THEN call.start ELSE fil[h].fptr]
Noted   == [h \in Handles |-> IF Ready(h) THEN frame_start[h].fptr ELSE 0]
Content == [f \in Files |-> [p \in 0 .. FSize[f] - 1 |-> ByteAt(SClust[f], p)]]
Seen    == <<Opened, Pos, Noted, answer>>

SeenStep == [AsStream!StreamNext]_Seen

--------------------------------------------------------------------------------
(* Calls that leave the files alone                                        *)

\* What is assumed of files and handles.
LEMMA AssumedTypes ==
  /\ FSize \in [Files -> Nat] /\ SClust \in [Files -> Nat]
  /\ \A f \in Files : FSize[f] = 0 \/ SClust[f] \in Clusters
  /\ \A h \in Handles : Reads[h] \subseteq Nat
  /\ Player \in Handles
BY FileAssumption, FsAssumption

\* A step of another call, or that begins or ends one.
LEMMA FilesStay ==
  ASSUME FsInv, UNCHANGED fileVars, call.op # "read", call'.op # "read"
  PROVE  ObjectsInv' /\ ReadInv' /\ Seen' = Seen
<1>1. ObjectsInv'
  BY DEF FsInv, ObjectsInv, fileVars, Entering, Ready, Valid
<1>2. ReadInv'
  BY DEF ReadInv
<1>3. Opened' = Opened /\ Noted' = Noted /\ Pos' = Pos
  BY DEF Opened, Noted, Pos, fileVars, Ready, Valid, InCall
<1> QED
  BY <1>1, <1>2, <1>3 DEF Seen, fileVars

\* A return that has nothing for the caller.
LEMMA QuietReturn ==
  ASSUME FsInv, UNCHANGED <<fil, frame_start>>, call.op # "read", call' = NoCall,
         answer' = Quiet, root' = root, NEW h \in Handles
  PROVE  FsInv' /\ SeenStep
<1>1. call'.op = "none"
  BY DEF NoCall
<1>2. ObjectsInv'
  BY <1>1 DEF FsInv, ObjectsInv, Entering, Ready, Valid
<1>3. ReadInv' /\ FindInv' /\ CallInv'
  BY <1>1 DEF FsInv, CallInv, ReadInv, FindInv
<1>4. Opened' = Opened /\ Noted' = Noted /\ Pos' = Pos
  BY <1>1 DEF Opened, Noted, Pos, Ready, Valid, InCall
<1>5. AsStream!Taken
  BY <1>4 DEF AsStream!Taken, AsStream!Quiet, Quiet, Opened, Pos, Noted
<1>6. AsStream!StreamNext
  BY <1>5 DEF AsStream!StreamNext
<1> QED
  BY <1>2, <1>3, <1>6 DEF FsInv, SeenStep

--------------------------------------------------------------------------------
(* The directory                                                           *)

\* The first entry is in the directory.
LEMMA TopInDir == CallInv => DirPlace(DirTop)
<1> SUFFICES ASSUME CallInv PROVE DirPlace(DirTop)
  OBVIOUS
<1>1. /\ root \in [fat32 : BOOLEAN, dirbase : Nat, n_rootdir : Nat]
      /\ IndexMod \in Nat \ {0} /\ DirPer \in Nat \ {0}
  BY DirAssumption DEF CallInv
<1>2. /\ root.fat32 => root.dirbase \in DirClusters
      /\ ~root.fat32 => root.n_rootdir > 0
  BY DirAssumption DEF CallInv
<1>3. 0 \div DirPer = 0 /\ 0 % CSize = 0
  BY <1>1, Sizes
<1>4. DirTop \in [index : 0 .. IndexMod - 1, sect : Nat, clust : Nat]
  <2>1. Clust2Sect(root.dirbase) \in Nat
    BY ByteType
  <2> QED
    BY <1>1, <2>1 DEF DirTop
<1>5. CASE root.fat32
  <2>1. Clust2Sect(root.dirbase) + 0 = Clust2Sect(root.dirbase)
    BY ByteType
  <2> QED
    BY <1>2, <1>3, <1>4, <1>5, <2>1 DEF DirPlace, DirTop
<1>6. CASE ~root.fat32
  BY <1>1, <1>2, <1>3, <1>4, <1>6 DEF DirPlace, DirTop
<1> QED
  BY <1>5, <1>6

\* Counting on within a block of b, and into the next.
LEMMA CountOn ==
  ASSUME NEW b \in Nat \ {0}, NEW i \in Nat
  PROVE  /\ (i + 1) % b # 0 => /\ (i + 1) \div b = i \div b
                               /\ (i + 1) % b = (i % b) + 1
         /\ (i + 1) % b = 0 => (i + 1) \div b = i \div b + 1
<1> DEFINE q == i \div b
           r == i % b
<1>1. q \in Nat /\ r \in 0 .. b - 1 /\ i = b * q + r
  BY DivisionExists
<1> HIDE DEF q, r
<1>2. CASE r + 1 < b
  <2>1. i + 1 = b * q + (r + 1) /\ r + 1 \in 0 .. b - 1
    BY <1>1, <1>2
  <2>2. (i + 1) \div b = q /\ (i + 1) % b = r + 1
    BY <1>1, <2>1, DivMod
  <2> QED
    BY <1>1, <2>2 DEF q, r
<1>3. CASE r + 1 = b
  <2>1. i + 1 = b * (q + 1) + 0 /\ q + 1 \in Nat /\ 0 \in 0 .. b - 1
    <3>1. b * (q + 1) = b * q + b
      BY <1>1
    <3> QED
      BY <1>1, <1>3, <3>1
  <2>2. (i + 1) \div b = q + 1 /\ (i + 1) % b = 0
    <3>1. /\ (b * (q + 1) + 0) \div b = q + 1
          /\ (b * (q + 1) + 0) % b = 0
      BY <2>1, DivMod
    <3> QED
      BY <2>1, <3>1
  <2> QED
    BY <1>1, <2>2 DEF q, r
<1> QED
  BY <1>1, <1>2, <1>3

\* The link of a directory's cluster leads to one of a directory.
LEMMA LinkInDir ==
  ASSUME NEW c \in DirClusters, NEW o \in FatOutcomes(c), o.link \in Clusters
  PROVE  o.link \in DirClusters
<1>1. c \in Clusters
  BY DEF DirClusters
<1>2. DiskErr \notin Clusters
  BY LinkFacts DEF DiskErr
<1>3. o.link = Fat[c]
  BY <1>1, <1>2 DEF FatOutcomes, Linked
<1> QED
  BY <1>3, DirAssumption

\* dir_next stays in the directory.
LEMMA NextInDir ==
  ASSUME CallInv, NEW d, DirPlace(d), NEW o \in NextOutcomes(d), o.res = "OK"
  PROVE  DirPlace(o.d)
<1> DEFINE i == (d.index + 1) % IndexMod
           onward == [d EXCEPT !.sect = @ + 1]
<1>1. /\ root \in [fat32 : BOOLEAN, dirbase : Nat, n_rootdir : Nat]
      /\ IndexMod \in Nat \ {0} /\ DirPer \in Nat \ {0}
      /\ ~root.fat32 => root.n_rootdir % DirPer = 0
  BY DirAssumption DEF CallInv
<1>2. /\ d \in [index : 0 .. IndexMod - 1, sect : Nat, clust : Nat]
      /\ d.index \in Nat
  BY <1>1 DEF DirPlace
<1>3. ~LastIndex(d)
  BY DEF NextOutcomes, Moved
<1>4. i = d.index + 1 /\ i \in 0 .. IndexMod - 1
  <2>1. CASE d.index + 1 < IndexMod
    BY <1>1, <1>2, <2>1
  <2>2. CASE d.index + 1 = IndexMod
    <3>1. IndexMod % IndexMod = 0
      BY <1>1
    <3> QED
      BY <1>3, <2>2, <3>1 DEF LastIndex
  <2> QED
    BY <1>1, <1>2, <2>1, <2>2
<1> HIDE DEF i
<1>5. \/ i % DirPer # 0 /\ o = Moved("OK", [d EXCEPT !.index = i], winsect)
      \/ /\ i % DirPer = 0 /\ (d.clust = 0 => ~(i >= root.n_rootdir))
         /\ d.clust = 0 \/ ~NewCluster(i)
         /\ o = Moved("OK", [onward EXCEPT !.index = i], winsect)
      \/ /\ i % DirPer = 0 /\ d.clust # 0 /\ NewCluster(i)
         /\ o \in ClusterOutcomes(d, i)
  BY <1>3 DEF NextOutcomes, Moved, i
<1>6. /\ i % DirPer # 0 => i \div DirPer = d.index \div DirPer
      /\ i % DirPer = 0 => i \div DirPer = d.index \div DirPer + 1
  BY <1>1, <1>2, <1>4, CountOn
<1>7. CASE i % DirPer # 0 /\ o = Moved("OK", [d EXCEPT !.index = i], winsect)
  <2>1. /\ o.d \in [index : 0 .. IndexMod - 1, sect : Nat, clust : Nat]
        /\ o.d.index = i /\ o.d.sect = d.sect /\ o.d.clust = d.clust
    BY <1>2, <1>4, <1>7 DEF Moved
  <2>2. ~root.fat32 => i < root.n_rootdir
    <3>1. ~root.fat32 => d.index < root.n_rootdir /\ i # root.n_rootdir
      BY <1>1, <1>7 DEF DirPlace
    <3> QED
      BY <1>1, <1>2, <1>4, <3>1
  <2> QED
    BY <1>6, <1>7, <2>1, <2>2 DEF DirPlace
<1>8. CASE /\ i % DirPer = 0 /\ (d.clust = 0 => ~(i >= root.n_rootdir))
           /\ d.clust = 0 \/ ~NewCluster(i)
           /\ o = Moved("OK", [onward EXCEPT !.index = i], winsect)
  <2>1. /\ o.d \in [index : 0 .. IndexMod - 1, sect : Nat, clust : Nat]
        /\ o.d.index = i /\ o.d.sect = d.sect + 1 /\ o.d.clust = d.clust
    <3>1. o.d = [onward EXCEPT !.index = i]
      BY <1>8 DEF Moved
    <3>2. /\ onward \in [index : 0 .. IndexMod - 1, sect : Nat, clust : Nat]
          /\ onward.sect = d.sect + 1 /\ onward.clust = d.clust
      BY <1>2
    <3> HIDE DEF onward
    <3> QED
      BY <1>4, <3>1, <3>2
  <2>2. CASE root.fat32
    <3>1. d.clust \in DirClusters /\ d.clust # 0
      BY <2>2, LinkFacts DEF DirPlace, DirClusters
    <3>2. (d.index \div DirPer) \in Nat
      BY <1>1, <1>2, DivisionExists
    <3>3. (i \div DirPer) % CSize = ((d.index \div DirPer) % CSize) + 1
      <4>1. (i \div DirPer) % CSize # 0
        BY <1>8, <3>1 DEF NewCluster
      <4> QED
        BY <1>6, <1>8, <3>2, <4>1, Sizes, CountOn
    <3>4. /\ Clust2Sect(d.clust) \in Nat /\ (d.index \div DirPer) % CSize \in Nat
          /\ d.sect = Clust2Sect(d.clust) + ((d.index \div DirPer) % CSize)
      BY <2>2, <3>2, Sizes, ByteType DEF DirPlace
    <3>5. d.sect + 1 = Clust2Sect(d.clust) + ((i \div DirPer) % CSize)
      BY <3>3, <3>4
    <3> QED
      BY <2>1, <2>2, <3>1, <3>5 DEF DirPlace
  <2>3. CASE ~root.fat32
    <3>1. d.clust = 0 /\ d.sect = root.dirbase + d.index \div DirPer
      BY <2>3 DEF DirPlace
    <3>2. d.index \div DirPer \in Nat
      BY <1>1, <1>2, DivisionExists
    <3>3. d.sect + 1 = root.dirbase + i \div DirPer /\ i < root.n_rootdir
      BY <1>1, <1>2, <1>4, <1>6, <1>8, <3>1, <3>2
    <3> QED
      BY <2>1, <2>3, <3>1, <3>3 DEF DirPlace
  <2> QED
    BY <2>2, <2>3
<1>9. CASE /\ i % DirPer = 0 /\ d.clust # 0 /\ NewCluster(i)
           /\ o \in ClusterOutcomes(d, i)
  <2>1. root.fat32 /\ d.clust \in DirClusters
    BY <1>1, <1>9 DEF DirPlace
  <2>2. PICK l \in FatOutcomes(d.clust) :
          /\ l.link \in Clusters
          /\ o.d = [index |-> i, clust |-> l.link, sect |-> Clust2Sect(l.link)]
    BY <1>9 DEF ClusterOutcomes, Moved
  <2>3. l.link \in DirClusters /\ l.link \in Nat /\ Clust2Sect(l.link) \in Nat
    BY <2>1, <2>2, LinkInDir, ByteType, LinkFacts
  <2>4. (i \div DirPer) % CSize = 0 /\ Clust2Sect(l.link) + 0 = Clust2Sect(l.link)
    BY <1>9, <2>3 DEF NewCluster
  <2>5. /\ o.d \in [index : 0 .. IndexMod - 1, sect : Nat, clust : Nat]
        /\ o.d.clust = l.link /\ o.d.sect = Clust2Sect(l.link) /\ o.d.index = i
    BY <1>4, <2>2, <2>3
  <2> QED
    BY <2>1, <2>3, <2>4, <2>5 DEF DirPlace
<1> QED
  BY <1>5, <1>7, <1>8, <1>9

\* What a search finds is a file, unless it is a directory.
LEMMA FoundIsFile ==
  ASSUME CallInv, NEW d, DirPlace(d), EntryOf(d).kind = "sfn", EntryOf(d).attr # "dir"
  PROVE  EntryOf(d).file \in Files
<1>1. /\ root \in [fat32 : BOOLEAN, dirbase : Nat, n_rootdir : Nat] /\ root \in Roots
      /\ IndexMod \in Nat \ {0} /\ DirPer \in Nat \ {0}
  BY DirAssumption DEF CallInv
<1>2. d.index \in Nat
  BY <1>1 DEF DirPlace
<1>3. /\ d.index \div DirPer \in Nat /\ d.index % DirPer \in 0 .. DirPer - 1
      /\ d.index = DirPer * (d.index \div DirPer) + (d.index % DirPer)
  BY <1>1, <1>2, DivisionExists
<1>4. d.sect \in DOMAIN DirData
  <2>1. CASE root.fat32
    <3>1. (d.index \div DirPer) % CSize \in 0 .. CSize - 1
      BY <1>3, Sizes
    <3> QED
      BY <2>1, <3>1 DEF DirPlace, DirClusters
  <2>2. CASE ~root.fat32
    <3> DEFINE m == root.n_rootdir
               q == m \div DirPer
               k == d.index \div DirPer
    <3>1. m % DirPer = 0 /\ \A j \in 0 .. q - 1 : root.dirbase + j \in DOMAIN DirData
      BY <1>1, <2>2, DirAssumption
    <3>2. m \in Nat /\ d.index < m /\ d.sect = root.dirbase + k
      BY <1>1, <2>2 DEF DirPlace
    <3>3. q \in Nat /\ m = DirPer * q
      <4>1. q \in Nat /\ m = DirPer * q + (m % DirPer)
        BY <1>1, <3>2, DivisionExists
      <4> HIDE DEF m, q
      <4> QED
        BY <1>1, <3>1, <4>1
    <3> HIDE DEF m, q
    <3>4. k < q
      <4> SUFFICES ASSUME q <= k PROVE FALSE
        BY <1>3, <3>3
      <4>1. DirPer * q <= DirPer * k
        BY <1>1, <1>3, <3>3
      <4> HIDE DEF k
      <4> QED
        BY <1>1, <1>2, <1>3, <3>2, <3>3, <4>1 DEF k
    <3> QED
      BY <1>3, <3>1, <3>2, <3>3, <3>4
  <2> QED
    BY <2>1, <2>2
<1>5. (d.index % DirPer) + 1 \in 1 .. DirPer
  BY <1>1, <1>3
<1> QED
  BY <1>4, <1>5, FsAssumption DEF EntryOf

--------------------------------------------------------------------------------
(* Opening                                                                 *)

\* f_open invalidates the object first: to its callers it is lost.
LEMMA ObjectCloses ==
  ASSUME FsInv, NEW h \in Handles, FOpenStart(h), answer' = Quiet, root' = root,
         call.op # "read",
         call' = NoCall \/ \E p : call' = FindCall(h, p)
  PROVE  FsInv' /\ SeenStep
<1>1. call'.op \in {"none", "find"}
  BY DEF NoCall, FindCall
<1>2. /\ fil \in [Handles -> FilType] /\ frame_start \in [Handles -> PlaceType]
      /\ NoPlace \in PlaceType
      /\ [Closed EXCEPT !.clust = fil[h].clust] \in FilType
      /\ [Closed EXCEPT !.clust = fil[h].clust].file = NoFile
  <2>1. fil \in [Handles -> FilType] /\ frame_start \in [Handles -> PlaceType]
    BY DEF FsInv, ObjectsInv
  <2>2. fil[h].clust \in Nat
    BY <2>1 DEF FilType
  <2> QED
    BY <2>1, <2>2 DEF FilType, PlaceType, NoPlace, Closed
<1>3. /\ fil' \in [Handles -> FilType] /\ frame_start' \in [Handles -> PlaceType]
      /\ fil'[h].file = NoFile /\ frame_start'[h] = NoPlace
      /\ \A k \in Handles \ {h} : fil'[k] = fil[k] /\ frame_start'[k] = frame_start[k]
  BY <1>2 DEF FOpenStart
<1>4. ObjectsInv'
  BY <1>1, <1>3 DEF FsInv, ObjectsInv, Entering, Ready, Valid
<1>5. ReadInv' /\ CallInv'
  BY <1>1 DEF FsInv, ReadInv, CallInv
<1>6. FindInv'
  <2>1. CASE call' = NoCall
    BY <2>1 DEF FindInv, NoCall
  <2>2. ASSUME NEW p, call' = FindCall(h, p) PROVE FindInv'
    <3>1. DirPlace(DirTop)
      BY TopInDir DEF FsInv
    <3>2. DirPlace(call.d)'
      BY <2>2, <3>1 DEF FindCall, DirPlace
    <3> QED
      BY <1>3, <2>2, <3>2 DEF FindInv, FindCall
  <2> QED
    BY <2>1, <2>2
<1>7. AsStream!Fail(h)
  <2>1. /\ Opened' = [Opened EXCEPT ![h] = NoFile]
        /\ Pos' = [Pos EXCEPT ![h] = 0] /\ Noted' = [Noted EXCEPT ![h] = 0]
    BY <1>1, <1>3 DEF Opened, Pos, Noted, Ready, Valid, InCall
  <2> QED
    BY <2>1 DEF AsStream!Fail, AsStream!Lose, AsStream!Quiet, AsStream!NoFile,
                Opened, Pos, Noted, NoFile, Quiet
<1>8. AsStream!StreamNext
  BY <1>7 DEF AsStream!StreamNext
<1> QED
  BY <1>4, <1>5, <1>6, <1>8 DEF FsInv, SeenStep

\* A step of the search.
LEMMA SearchGoesOn ==
  ASSUME FsInv, call.op = "find", UNCHANGED fileVars, root' = root,
         NEW at, NEW d, NEW ord, NEW sum, DirPlace(d),
         call' = [op |-> "find", at |-> at, h |-> call.h, path |-> call.path,
                  d |-> d, ord |-> ord, sum |-> sum]
  PROVE  FsInv' /\ SeenStep
<1>1. call'.op = "find"
  OBVIOUS
<1>2. ObjectsInv' /\ ReadInv' /\ Seen' = Seen
  BY <1>1, FilesStay
<1>3. FindInv'
  <2>1. DirPlace(call.d)'
    BY DEF DirPlace
  <2> QED
    BY <2>1 DEF FsInv, FindInv, fileVars
<1>4. CallInv'
  <2>1. answer' = Quiet
    BY DEF FsInv, CallInv, NoCall, fileVars
  <2> QED
    BY <1>1, <2>1 DEF FsInv, CallInv
<1> QED
  BY <1>2, <1>3, <1>4 DEF FsInv, SeenStep

\* The search: every entry passed, found or missed.
LEMMA SearchStep ==
  ASSUME FsInv, FindStep
  PROVE  FsInv' /\ SeenStep
<1>1. /\ call.op = "find" /\ DirPlace(call.d) /\ call.h \in Handles
      /\ call = [op |-> "find", at |-> call.at, h |-> call.h, path |-> call.path,
                 d |-> call.d, ord |-> call.ord, sum |-> call.sum]
      /\ fil[call.h].file = NoFile /\ frame_start[call.h] = NoPlace
  BY DEF FsInv, FindInv, FindStep, FindNext, OpenFails, FindFails, At
<1>2. ASSUME NEW e, FindPass(e), UNCHANGED <<fileVars, walkVars>>
      PROVE  FsInv' /\ SeenStep
  <2> DEFINE follows == Expected(call.ord, call.sum, e) /\ CmpLfn(e)
  <2>1. call' = FindSkip(e) /\ UNCHANGED fileVars /\ root' = root
    BY <1>2 DEF FindPass, dirVars
  <2>2. PICK ord, sum : call' = [call EXCEPT !.at = "next", !.ord = ord, !.sum = sum]
    <3>1. CASE e.kind = "lfn"
      BY <2>1, <3>1 DEF FindSkip
    <3>2. CASE e.kind # "lfn"
      <4>1. [call EXCEPT !.at = "next", !.ord = NoSeq]
              = [call EXCEPT !.at = "next", !.ord = NoSeq, !.sum = call.sum]
        BY <1>1
      <4> QED
        BY <2>1, <3>2, <4>1 DEF FindSkip
    <3> QED
      BY <3>1, <3>2
  <2>3. call' = [op |-> "find", at |-> "next", h |-> call.h, path |-> call.path,
                 d |-> call.d, ord |-> ord, sum |-> sum]
    BY <1>1, <2>2
  <2> QED
    BY <1>1, <2>1, <2>3, SearchGoesOn
<1>3. ASSUME FindNext, UNCHANGED <<fileVars, walkVars>>
      PROVE  FsInv' /\ SeenStep
  <2>1. PICK o \in NextOutcomes(call.d) :
          o.res = "OK" /\ call' = [call EXCEPT !.at = "look", !.d = o.d]
    BY <1>3 DEF FindNext
  <2>2. DirPlace(o.d)
    BY <1>1, <2>1, NextInDir DEF FsInv
  <2>3. call' = [op |-> "find", at |-> "look", h |-> call.h, path |-> call.path,
                 d |-> o.d, ord |-> call.ord, sum |-> call.sum]
    BY <1>1, <2>1
  <2>4. UNCHANGED fileVars /\ root' = root
    BY <1>3 DEF FindNext, dirVars
  <2> QED
    BY <1>1, <2>2, <2>3, <2>4, SearchGoesOn
<1>4. CASE OpenFails
  BY <1>1, <1>4, QuietReturn DEF OpenFails, Return
<1>5. ASSUME NEW e, e = EntryOf(call.d), OpenEnds(e)
      PROVE  FsInv' /\ SeenStep
  <2>1. call' = NoCall /\ answer' = Quiet /\ root' = root /\ frame_start' = frame_start
    BY <1>5 DEF OpenEnds, Return
  <2>2. CASE e.attr = "dir"
    BY <1>1, <1>5, <2>1, <2>2, QuietReturn DEF OpenEnds
  <2>3. CASE e.attr # "dir"
    <3> DEFINE h == call.h
               f == e.file
    <3>1. f \in Files
      BY <1>1, <1>5, <2>3, FoundIsFile DEF OpenEnds, Found, FsInv
    <3>2. /\ fil \in [Handles -> FilType] /\ frame_start \in [Handles -> PlaceType]
          /\ h \in Handles /\ fil[h] \in FilType
      BY <1>1 DEF FsInv, ObjectsInv
    <3>3. fil' = [fil EXCEPT ![h] =
                    [fil[h] EXCEPT !.file = f, !.error = FALSE, !.fptr = 0, !.dsect = 0]]
      BY <1>5, <2>3 DEF OpenEnds, FOpened
    <3> HIDE DEF h, f
    <3> DEFINE o == [fil[h] EXCEPT !.file = f, !.error = FALSE, !.fptr = 0, !.dsect = 0]
    <3>4. o \in FilType
      BY <3>1, <3>2 DEF FilType
    <3>5. o.file = f /\ o.error = FALSE /\ o.fptr = 0
      BY <3>2 DEF FilType
    <3> HIDE DEF o
    <3>6. /\ fil' \in [Handles -> FilType] /\ fil'[h] = o
          /\ \A k \in Handles \ {h} : fil'[k] = fil[k]
      BY <3>2, <3>3, <3>4 DEF o
    <3>7. call'.op = "none"
      BY <2>1 DEF NoCall
    <3>8. Stands(f, o)
      <4>1. FSize[f] \in Nat /\ Of(0) = 0
        BY <3>1, AssumedTypes, Boundaries
      <4> QED
        BY <3>5, <4>1 DEF Stands
    <3>9. frame_start'[h] = NoPlace
      BY <1>1, <2>1 DEF h
    <3>10. ObjectsInv'
      BY <1>1, <2>1, <3>2, <3>5, <3>6, <3>7, <3>8, <3>9
      DEF FsInv, ObjectsInv, Entering, Ready, Valid
    <3>11. ReadInv' /\ FindInv' /\ CallInv'
      BY <2>1, <3>7 DEF FsInv, CallInv, ReadInv, FindInv
    <3>12. AsStream!OpenFile(h, f)
      <4>1. /\ Opened' = [Opened EXCEPT ![h] = f]
            /\ Pos' = [Pos EXCEPT ![h] = 0]
        BY <1>1, <3>2, <3>5, <3>6, <3>7 DEF Opened, Pos, Ready, Valid, InCall
      <4>2. Noted' = [Noted EXCEPT ![h] = 0]
        BY <2>1, <3>2, <3>5, <3>6, <3>9 DEF Noted, NoPlace, Ready, Valid
      <4> QED
        BY <2>1, <4>1, <4>2 DEF AsStream!OpenFile, AsStream!Quiet, Opened, Pos, Noted, Quiet
    <3>13. AsStream!StreamNext
      BY <3>1, <3>2, <3>12 DEF AsStream!StreamNext, AsStream!Files, Files
    <3> QED
      BY <3>10, <3>11, <3>13 DEF FsInv, SeenStep
  <2> QED
    BY <2>2, <2>3
<1> QED
  BY <1>2, <1>3, <1>4, <1>5 DEF FindStep

--------------------------------------------------------------------------------
(* Listing and walking                                                     *)

\* A step of a listing or of walk_fs, which touch no file.
LEMMA WalkGoesOn ==
  ASSUME FsInv, UNCHANGED fileVars, root' = root, call.op # "read", answer = Quiet,
         call'.op \in {"none", "readdir", "open"},
         call'.op = "readdir" /\ call'.at # "hit" =>
           call' = [op |-> "readdir", at |-> call'.at, d |-> call'.d,
                    ord |-> call'.ord, sum |-> call'.sum]
  PROVE  FsInv' /\ SeenStep
<1>1. ObjectsInv' /\ ReadInv' /\ Seen' = Seen
  BY FilesStay
<1>2. FindInv'
  BY DEF FindInv
<1>3. CallInv'
  BY DEF FsInv, CallInv, fileVars
<1> QED
  BY <1>1, <1>2, <1>3 DEF FsInv, SeenStep

\* dir_read, entry by entry.
LEMMA ListGoesOn ==
  ASSUME FsInv, ListStep
  PROVE  FsInv' /\ SeenStep
<1>1. call.op = "readdir" /\ call.at \in {"look", "next"}
  BY DEF ListStep, ListNext, At
<1>2. call = [op |-> "readdir", at |-> call.at, d |-> call.d,
              ord |-> call.ord, sum |-> call.sum]
  BY <1>1 DEF FsInv, CallInv
<1>8. answer = Quiet
  BY <1>1 DEF FsInv, CallInv, NoCall
<1>3. UNCHANGED fileVars
  BY DEF ListStep
<1>4. ASSUME NEW at, NEW d, NEW ord, NEW sum, root' = root,
             call' = [op |-> "readdir", at |-> at, d |-> d, ord |-> ord, sum |-> sum]
      PROVE  FsInv' /\ SeenStep
  BY <1>1, <1>3, <1>4, <1>8, WalkGoesOn
<1>5. ASSUME NEW e, ListPass(e) PROVE FsInv' /\ SeenStep
  <2> DEFINE follows == Expected(call.ord, call.sum, e) /\ Fits(e)
  <2>1. call' = ListSkip(e) /\ root' = root
    BY <1>5 DEF ListPass
  <2>2. PICK ord, sum : call' = [call EXCEPT !.at = "next", !.ord = ord, !.sum = sum]
    <3>1. CASE e.kind = "lfn"
      BY <2>1, <3>1 DEF ListSkip
    <3>2. CASE e.kind # "lfn"
      <4>1. [call EXCEPT !.at = "next", !.ord = NoSeq]
              = [call EXCEPT !.at = "next", !.ord = NoSeq, !.sum = call.sum]
        BY <1>2
      <4> QED
        BY <2>1, <3>2, <4>1 DEF ListSkip
    <3> QED
      BY <3>1, <3>2
  <2>3. call' = [op |-> "readdir", at |-> "next", d |-> call.d, ord |-> ord, sum |-> sum]
    <3>1. PICK a, d, x, y : call = [op |-> "readdir", at |-> a, d |-> d, ord |-> x, sum |-> y]
      BY <1>2
    <3>2. call.d = d
      BY <3>1
    <3> QED
      BY <2>2, <3>1, <3>2
  <2> QED
    BY <1>4, <2>1, <2>3
<1>6. ASSUME NEW e, ListHit(e) PROVE FsInv' /\ SeenStep
  <2>1. call'.op = "readdir" /\ call'.at = "hit" /\ root' = root
    BY <1>6 DEF ListHit, dirVars
  <2> QED
    BY <1>1, <1>3, <1>8, <2>1, WalkGoesOn
<1>7. CASE ListNext
  <2>1. PICK o : call' = [call EXCEPT !.at = "look", !.d = o.d]
    BY <1>7 DEF ListNext
  <2>2. call' = [op |-> "readdir", at |-> "look", d |-> o.d, ord |-> call.ord, sum |-> call.sum]
    <3>1. PICK a, d, x, y : call = [op |-> "readdir", at |-> a, d |-> d, ord |-> x, sum |-> y]
      BY <1>2
    <3>2. call.ord = x /\ call.sum = y
      BY <3>1
    <3> QED
      BY <2>1, <3>1, <3>2
  <2>3. root' = root
    BY <1>7 DEF ListNext, dirVars
  <2> QED
    BY <1>4, <2>2, <2>3
<1> QED
  BY <1>5, <1>6, <1>7 DEF ListStep

\* walk_fs, from one f_readdir to the next.
LEMMA WalkStepKeeps ==
  ASSUME FsInv, WalkStep
  PROVE  FsInv' /\ SeenStep
<1>1. ASSUME call.op # "read", UNCHANGED fileVars, root' = root, call # NoCall \/ walk # NoWalk,
             \/ call' = NoCall \/ call' = ReadDirCall
             \/ \E p : call' = [op |-> "open", name |-> p]
      PROVE  FsInv' /\ SeenStep
  <2>1. answer = Quiet
    BY <1>1 DEF FsInv, CallInv
  <2>2. /\ call'.op \in {"none", "readdir", "open"}
        /\ call'.op = "readdir" =>
             call' = [op |-> "readdir", at |-> call'.at, d |-> call'.d,
                      ord |-> call'.ord, sum |-> call'.sum]
    BY <1>1 DEF NoCall, ReadDirCall
  <2> QED
    BY <1>1, <2>1, <2>2, WalkGoesOn
<1>2. CASE WalkRead
  <2>1. call.op # "read" /\ UNCHANGED fileVars /\ root' = root /\ walk # NoWalk
    BY <1>2 DEF WalkRead, NoCall, dirVars
  <2> QED
    BY <1>1, <1>2, <2>1 DEF WalkRead
<1>3. CASE WalkEnds \/ WalkLoses
  <2>1. call.op = "readdir"
    BY <1>3 DEF WalkEnds, ListEnds, WalkLoses, ListLoses, At
  <2>2. call # NoCall /\ UNCHANGED fileVars /\ root' = root
    BY <1>3, <2>1 DEF WalkEnds, WalkLoses, NoCall
  <2> QED
    BY <1>1, <1>3, <2>1, <2>2 DEF WalkEnds, WalkLoses
<1>4. CASE WalkPasses \/ WalkCounts \/ WalkPlays
  <2>1. call.op = "readdir"
    BY <1>4 DEF WalkPasses, WalkCounts, WalkPlays, ListReturns, At
  <2>2. call # NoCall /\ UNCHANGED fileVars /\ root' = root
    BY <1>4, <2>1 DEF WalkPasses, WalkCounts, WalkPlays, ListReturns, NoCall, fileVars
  <2> QED
    BY <1>1, <1>4, <2>1, <2>2 DEF WalkPasses, WalkCounts, WalkPlays
<1>5. CASE WalkOpens
  <2>1. answer' = Quiet
    BY <1>5 DEF WalkOpens, FsInv, CallInv, NoCall
  <2> QED
    BY <1>5, <2>1, AssumedTypes, ObjectCloses DEF WalkOpens
<1> QED
  BY <1>2, <1>3, <1>4, <1>5 DEF WalkStep

\* The calls of the programs: what they begin.
LEMMA OpenKeeps ==
  ASSUME FsInv, NEW h \in Handles, NEW p, Open(h, p)
  PROVE  FsInv' /\ SeenStep
<1>1. PICK res : Search(h, p, res)
  BY DEF Open
<1>2. call.op # "read"
  BY DEF Open, NoCall
<1>3. /\ FOpenStart(h) /\ answer' = Quiet /\ root' = root
      /\ call' = NoCall \/ call' = FindCall(h, p)
  BY <1>1 DEF Search
<1> QED
  BY <1>2, <1>3, ObjectCloses

\* walk_fs begins, or finds no volume.
LEMMA WalkStartKeeps ==
  ASSUME FsInv, NEW index, WalkStart(index)
  PROVE  FsInv' /\ SeenStep
<1>1. /\ call.op # "read" /\ call' = NoCall /\ answer' = Quiet /\ root' = root
      /\ UNCHANGED <<fil, frame_start>>
  BY DEF WalkStart, NoCall
<1> QED
  BY <1>1, AssumedTypes, QuietReturn

--------------------------------------------------------------------------------
(* Seeking and noting                                                      *)

\* The file of an object that can be read.
LEMMA ReadyFile ==
  ASSUME ObjectsInv, NEW h \in Handles, Ready(h)
  PROVE  /\ fil[h] \in FilType /\ fil[h].file \in Files /\ fil[h].file # NoFile
         /\ fil[h].error = FALSE
         /\ FSize[fil[h].file] \in Nat
<1>1. fil[h] \in FilType
  BY DEF ObjectsInv
<1>2. fil[h].file \in Files /\ fil[h].file # NoFile /\ fil[h].error = FALSE
  BY <1>1 DEF Ready, Valid, FilType
<1> QED
  BY <1>1, <1>2, AssumedTypes

\* Between calls an object is put to another place of its file.
LEMMA ObjectMoves ==
  ASSUME FsInv, call = NoCall, call' = NoCall, NEW h \in Handles, Ready(h),
         NEW o \in FilType, o.file = fil[h].file, o.error = FALSE, Stands(o.file, o),
         fil' = [fil EXCEPT ![h] = o], frame_start' = frame_start,
         answer' = Quiet, root' = root
  PROVE  /\ FsInv'
         /\ Opened' = Opened /\ Noted' = Noted /\ Pos' = [Pos EXCEPT ![h] = o.fptr]
<1>1. call.op = "none" /\ call'.op = "none"
  BY DEF NoCall
<1>2. /\ fil' \in [Handles -> FilType] /\ fil'[h] = o
      /\ \A k \in Handles \ {h} : fil'[k] = fil[k]
  BY DEF FsInv, ObjectsInv
<1>3. ObjectsInv'
  BY <1>1, <1>2 DEF FsInv, ObjectsInv, Entering, Ready, Valid
<1>4. ReadInv' /\ FindInv' /\ CallInv'
  BY <1>1 DEF FsInv, ReadInv, FindInv, CallInv
<1>5. Opened' = Opened /\ Noted' = Noted
  BY <1>2 DEF Opened, Noted, Ready, Valid
<1>6. Pos' = [Pos EXCEPT ![h] = o.fptr]
  BY <1>1, <1>2 DEF Pos, Ready, Valid, InCall
<1> QED
  BY <1>3, <1>4, <1>5, <1>6 DEF FsInv

\* f_lseek to 0 needs no cluster.
LEMMA RewindKeeps ==
  ASSUME FsInv, NEW h \in Handles, Rewind(h), root' = root
  PROVE  FsInv' /\ SeenStep
<1> DEFINE o == [fil[h] EXCEPT !.fptr = 0]
<1>1. /\ Ready(h) /\ call = NoCall /\ call' = NoCall /\ answer' = Quiet
      /\ frame_start' = frame_start /\ fil' = [fil EXCEPT ![h] = o]
  BY DEF Rewind, Return
<1>2. /\ fil[h] \in FilType /\ fil[h].file \in Files /\ fil[h].file # NoFile
      /\ fil[h].error = FALSE /\ FSize[fil[h].file] \in Nat
  BY <1>1, ReadyFile DEF FsInv
<1>3. o \in FilType /\ o.file = fil[h].file /\ o.error = FALSE /\ o.fptr = 0
  BY <1>2 DEF FilType
<1> HIDE DEF o
<1>4. Stands(o.file, o)
  <2>1. Of(0) = 0
    BY Boundaries
  <2> QED
    BY <1>2, <1>3, <2>1 DEF Stands
<1>5. FsInv' /\ Opened' = Opened /\ Noted' = Noted /\ Pos' = [Pos EXCEPT ![h] = 0]
  BY <1>1, <1>3, <1>4, ObjectMoves
<1>6. Opened[h] # NoFile
  BY <1>1, <1>2 DEF Opened
<1>7. AsStream!GoBack(h)
  BY <1>1, <1>5 DEF AsStream!GoBack, AsStream!Quiet, Opened, Pos, Noted, Quiet
<1>8. AsStream!StreamNext
  BY <1>6, <1>7 DEF AsStream!StreamNext, AsStream!NoFile, Opened, NoFile
<1> QED
  BY <1>5, <1>8 DEF SeenStep

\* Position, cluster and sector are noted together and put back together.
LEMMA NoteKeeps ==
  ASSUME FsInv, NEW h \in Handles, NoteFrame(h), root' = root
  PROVE  FsInv' /\ SeenStep
<1> DEFINE o == [fptr |-> fil[h].fptr, clust |-> fil[h].clust, dsect |-> fil[h].dsect]
<1>1. /\ Ready(h) /\ call = NoCall /\ call' = NoCall /\ answer' = Quiet
      /\ fil' = fil /\ frame_start' = [frame_start EXCEPT ![h] = o]
  BY DEF NoteFrame, volVars
<1>2. /\ fil[h] \in FilType /\ fil[h].file # NoFile
      /\ call.op = "none" /\ call'.op = "none"
  BY <1>1, ReadyFile DEF FsInv, NoCall
<1>3. /\ o \in PlaceType /\ o.fptr = fil[h].fptr /\ o.clust = fil[h].clust
      /\ o.dsect = fil[h].dsect
  BY <1>2 DEF PlaceType, FilType
<1> HIDE DEF o
<1>4. Stands(fil[h].file, o)
  BY <1>1, <1>2, <1>3 DEF FsInv, ObjectsInv, Stands, Entering
<1>5. /\ frame_start' \in [Handles -> PlaceType] /\ frame_start'[h] = o
      /\ \A k \in Handles \ {h} : frame_start'[k] = frame_start[k]
  BY <1>1, <1>3 DEF FsInv, ObjectsInv
<1>6. ObjectsInv'
  BY <1>1, <1>2, <1>4, <1>5 DEF FsInv, ObjectsInv, Entering, Ready, Valid
<1>7. ReadInv' /\ FindInv' /\ CallInv'
  BY <1>1, <1>2 DEF FsInv, ReadInv, FindInv, CallInv
<1>8. /\ Opened' = Opened /\ Pos' = Pos /\ Opened[h] # NoFile
      /\ Noted' = [Noted EXCEPT ![h] = Pos[h]]
  BY <1>1, <1>2, <1>3, <1>5 DEF Opened, Pos, Noted, Ready, Valid, InCall
<1>9. AsStream!Note(h)
  BY <1>1, <1>8 DEF AsStream!Note, AsStream!Quiet, Opened, Pos, Noted, Quiet
<1>10. AsStream!StreamNext
  BY <1>8, <1>9 DEF AsStream!StreamNext, AsStream!NoFile, Opened, NoFile
<1> QED
  BY <1>6, <1>7, <1>10 DEF FsInv, SeenStep

\* The player goes back to a noted place: as long as the file is not opened anew, its
\* cluster and sector are still those of the position.
LEMMA RepeatKeeps ==
  ASSUME FsInv, NEW h \in Handles, RepeatFrame(h), root' = root
  PROVE  FsInv' /\ SeenStep
<1> DEFINE p == frame_start[h]
           o == [fil[h] EXCEPT !.fptr = p.fptr, !.clust = p.clust, !.dsect = p.dsect]
<1>1. /\ Ready(h) /\ call = NoCall /\ call' = NoCall /\ answer' = Quiet
      /\ p # NoPlace
      /\ frame_start' = frame_start /\ fil' = [fil EXCEPT ![h] = o]
  BY DEF RepeatFrame, PutBack, volVars
<1>2. /\ fil[h] \in FilType /\ fil[h].file \in Files /\ fil[h].file # NoFile
      /\ fil[h].error = FALSE
  BY <1>1, ReadyFile DEF FsInv
<1>3. p \in PlaceType /\ Stands(fil[h].file, p)
  BY <1>1 DEF FsInv, ObjectsInv
<1> HIDE DEF p
<1>4. /\ o \in FilType /\ o.file = fil[h].file /\ o.error = FALSE
      /\ o.fptr = p.fptr /\ o.clust = p.clust /\ o.dsect = p.dsect
  BY <1>2, <1>3 DEF FilType, PlaceType
<1> HIDE DEF o
<1>5. Stands(o.file, o)
  BY <1>3, <1>4 DEF Stands
<1>6. FsInv' /\ Opened' = Opened /\ Noted' = Noted /\ Pos' = [Pos EXCEPT ![h] = o.fptr]
  BY <1>1, <1>4, <1>5, ObjectMoves
<1>7. Opened[h] # NoFile /\ Noted[h] = o.fptr
  BY <1>1, <1>2, <1>4 DEF Opened, Noted, p
<1>8. AsStream!Return(h)
  BY <1>1, <1>6, <1>7 DEF AsStream!Return, AsStream!Quiet, Opened, Pos, Noted, Quiet
<1>9. AsStream!StreamNext
  BY <1>7, <1>8 DEF AsStream!StreamNext, AsStream!NoFile, Opened, NoFile
<1> QED
  BY <1>6, <1>9 DEF SeenStep

\* A read begins.
LEMMA ReadStartKeeps ==
  ASSUME FsInv, NEW h \in Handles, NEW n \in Reads[h], FReadStart(h, n), UNCHANGED <<root, walk>>,
         walk = NoWalk
  PROVE  FsInv' /\ SeenStep
<1> DEFINE f == fil[h].file
           p == fil[h].fptr
<1>1. /\ Ready(h) /\ call = NoCall /\ answer' = Quiet
      /\ call' = [op |-> "read", h |-> h, at |-> "loop", n |-> n, start |-> p,
                  btr |-> ToRead(h, n), buf |-> <<>>]
      /\ UNCHANGED <<fil, frame_start>>
  BY DEF FReadStart
<1>2. call.op = "none" /\ n \in Nat
  BY <1>1, AssumedTypes DEF NoCall
<1>3. fil[h] \in FilType /\ f \in Files /\ FSize[f] \in Nat /\ p \in Nat /\ p <= FSize[f]
  <2>1. Stands(f, fil[h])
    BY <1>1, <1>2 DEF FsInv, ObjectsInv, Entering
  <2> QED
    BY <1>1, <2>1, ReadyFile DEF FsInv, Stands, FilType
<1> HIDE DEF f
<1>4. ToRead(h, n) \in Nat /\ ToRead(h, n) = Min({n, FSize[f] - p})
  <2>1. ToRead(h, n) = Min({n, FSize[f] - p})
    BY DEF ToRead, f
  <2> HIDE DEF p
  <2>2. FSize[f] - p \in Nat
    BY <1>3
  <2>3. Min({n, FSize[f] - p}) \in Nat
    BY <1>2, <2>2, MinIs
  <2> QED
    BY <2>1, <2>3
<1> HIDE DEF p
<1>5. <<>> \in Seq(Nat \X Nat) /\ <<>> = BytesFrom(SClust[f], p, p - p)
  <2>1. p - p = 0 /\ BytesFrom(SClust[f], p, 0) = <<>>
    BY <1>3 DEF BytesFrom
  <2> QED
    BY <2>1
<1>6. call' \in ReadCall
  BY <1>1, <1>2, <1>3, <1>4, <1>5 DEF ReadCall
<1>7. /\ call'.op = "read" /\ call'.h = h /\ call'.at = "loop" /\ call'.n = n
      /\ call'.start = p /\ call'.btr = ToRead(h, n) /\ call'.buf = <<>>
  BY <1>1
<1>8. ReadInv'
  <2>1. fil'[h].file = f /\ fil'[h].fptr = p
    BY <1>1 DEF f, p
  <2>2. Delivers(fil[h])'
    <3>1. p - p + ToRead(h, n) = ToRead(h, n) /\ p <= p
      BY <1>3, <1>4
    <3> QED
      BY <1>4, <1>5, <1>7, <2>1, <3>1 DEF Delivers
  <2>3. Ready(h)' /\ Delivers(fil[call.h])'
    BY <1>1, <1>7, <2>2 DEF Ready, Valid
  <2> QED
    BY <1>6, <1>7, <2>3 DEF ReadInv, Ready, Valid
<1>9. ObjectsInv'
  BY <1>1, <1>2, <1>7 DEF FsInv, ObjectsInv, Entering, Ready, Valid
<1>10. FindInv' /\ CallInv'
  BY <1>1, <1>7 DEF FsInv, FindInv, CallInv
<1>11. Opened' = Opened /\ Noted' = Noted /\ Pos' = Pos
  BY <1>1, <1>2, <1>7 DEF Opened, Noted, Pos, Ready, Valid, InCall, p
<1>12. AsStream!Taken
  BY <1>1, <1>11 DEF AsStream!Taken, AsStream!Quiet, Quiet, Opened, Pos, Noted
<1>13. AsStream!StreamNext
  BY <1>12 DEF AsStream!StreamNext
<1> QED
  BY <1>8, <1>9, <1>10, <1>13 DEF FsInv, SeenStep

\* All that is done to an object between calls.
LEMMA UseKeeps ==
  ASSUME FsInv, NEW h \in Handles, Use(h)
  PROVE  FsInv' /\ SeenStep
<1>1. UNCHANGED <<root, walk>> /\ walk = NoWalk
  BY DEF Use, dirVars, walkVars
<1>2. CASE FRefused(h)
  <2>1. /\ call.op # "read" /\ call' = NoCall /\ answer' = Quiet
        /\ UNCHANGED <<fil, frame_start>>
    BY <1>2 DEF FRefused, volVars, NoCall
  <2> QED
    BY <1>1, <2>1, QuietReturn
<1> QED
  BY <1>1, <1>2, ReadStartKeeps, RewindKeeps, NoteKeeps, RepeatKeeps DEF Use

--------------------------------------------------------------------------------
(* Reading                                                                 *)

\* What is known while a read goes on.
LEMMA ReadFacts ==
  ASSUME FsInv, call.op = "read", NEW h, h = call.h
  PROVE  /\ h \in Handles /\ Ready(h) /\ call \in ReadCall /\ call.n \in Reads[h]
         /\ fil[h] \in FilType /\ fil[h].file \in Files /\ fil[h].file # NoFile
         /\ fil[h].error = FALSE
         /\ FSize[fil[h].file] \in Nat /\ SClust[fil[h].file] \in Nat
         /\ call.n \in Nat /\ call.start \in Nat /\ call.btr \in Nat /\ fil[h].fptr \in Nat
         /\ call.start <= fil[h].fptr
         /\ fil[h].fptr - call.start + call.btr = Min({call.n, FSize[fil[h].file] - call.start})
         /\ fil[h].fptr - call.start + call.btr <= call.n
         /\ fil[h].fptr + call.btr <= FSize[fil[h].file]
         /\ call.buf = BytesFrom(SClust[fil[h].file], call.start, fil[h].fptr - call.start)
         /\ answer = Quiet
<1>1. h \in Handles /\ Ready(h) /\ call \in ReadCall /\ call.n \in Reads[h] /\ Delivers(fil[h])
  BY DEF FsInv, ReadInv, ReadCall
<1>2. /\ fil[h] \in FilType /\ fil[h].file \in Files /\ fil[h].file # NoFile
      /\ fil[h].error = FALSE /\ FSize[fil[h].file] \in Nat
  BY <1>1, ReadyFile DEF FsInv
<1>3. SClust[fil[h].file] \in Nat
  BY <1>2, AssumedTypes
<1>4. /\ call.n \in Nat /\ call.start \in Nat /\ call.btr \in Nat
  BY <1>1 DEF ReadCall
<1>5. fil[h].fptr \in Nat
  BY <1>2 DEF FilType
<1>6. answer = Quiet
  BY DEF FsInv, CallInv, NoCall
<1> DEFINE n == call.n
           start == call.start
           btr == call.btr
           p == fil[h].fptr
           size == FSize[fil[h].file]
<1>7. start <= p /\ p - start + btr = Min({n, size - start})
  BY <1>1 DEF Delivers
<1>8. n \in Nat /\ start \in Nat /\ btr \in Nat /\ p \in Nat /\ size \in Nat
  BY <1>2, <1>4, <1>5
<1> HIDE DEF n, start, btr, p, size
<1>9. p - start + btr <= n /\ p + btr <= size
  <2>1. Min({n, size - start}) = IF n < size - start THEN n ELSE size - start
    BY <1>8, MinIs
  <2> QED
    BY <1>7, <1>8, <2>1
<1> QED
  BY <1>1, <1>2, <1>3, <1>4, <1>5, <1>6, <1>7, <1>9 DEF n, start, btr, p, size, Delivers

\* The bytes of the abstract file.
LEMMA BytesSeen ==
  ASSUME NEW h \in Handles, Ready(h), InCall(h), fil[h].file \in Files,
         FSize[fil[h].file] \in Nat, call.start \in Nat, NEW k \in Nat,
         call.start + k <= FSize[fil[h].file]
  PROVE  AsStream!Bytes(h, k) = BytesFrom(SClust[fil[h].file], call.start, k)
<1> DEFINE f == fil[h].file
           start == call.start
<1>1. Opened[h] = f /\ Pos[h] = start
  BY DEF Opened, Pos
<1>2. AsStream!Bytes(h, k) = [i \in 1 .. k |-> Content[Opened[h]][Pos[h] + i - 1]]
  BY DEF AsStream!Bytes, Content, Opened, Pos
<1>3. ASSUME NEW i \in 1 .. k PROVE Content[f][start + i - 1] = ByteAt(SClust[f], start + i - 1)
  <2>1. start + i - 1 \in 0 .. FSize[f] - 1
    OBVIOUS
  <2> HIDE DEF f, start
  <2>2. f \in Files
    BY DEF f
  <2> QED
    BY <2>1, <2>2 DEF Content
<1> HIDE DEF f, start
<1>4. AsStream!Bytes(h, k) = [i \in 1 .. k |-> ByteAt(SClust[f], start + i - 1)]
  BY <1>1, <1>2, <1>3
<1> QED
  BY <1>4 DEF BytesFrom, f, start

\* An aborted read: the caller has the first bytes, the object is lost.
LEMMA ReadAborts ==
  ASSUME FsInv, call.op = "read", ReadAbort(Abort(call.h)), UNCHANGED <<root, walk>>
  PROVE  FsInv' /\ SeenStep
<1>0. PICK h, k : h = call.h /\ k = fil[h].fptr - call.start
  OBVIOUS
<1>1. /\ h \in Handles /\ Ready(h) /\ call.n \in Reads[h]
      /\ fil[h] \in FilType /\ fil[h].file \in Files /\ fil[h].file # NoFile
      /\ FSize[fil[h].file] \in Nat /\ call.start \in Nat /\ call.n \in Nat
      /\ call.buf = BytesFrom(SClust[fil[h].file], call.start, k)
  BY <1>0, ReadFacts
<1>2. k \in 0 .. call.n /\ call.start + k <= FSize[fil[h].file]
  <2>1. /\ call.btr \in Nat /\ fil[h].fptr \in Nat /\ call.start <= fil[h].fptr
        /\ fil[h].fptr - call.start + call.btr <= call.n
        /\ fil[h].fptr + call.btr <= FSize[fil[h].file]
    BY <1>0, ReadFacts
  <2> QED
    BY <1>0, <1>1, <2>1
<1>3. /\ fil' = [fil EXCEPT ![h] = Abort(h)] /\ frame_start' = frame_start
      /\ answer' = ReadAnswer("failed") /\ call' = NoCall
  BY <1>0 DEF ReadAbort
<1>4. InCall(h)
  BY <1>0 DEF InCall
<1>5. Abort(h) \in FilType /\ Abort(h).error = TRUE
  BY <1>1 DEF Abort, Closed, FilType
<1>6. /\ fil' \in [Handles -> FilType] /\ fil'[h].error = TRUE
      /\ \A j \in Handles \ {h} : fil'[j] = fil[j]
  BY <1>1, <1>3, <1>5 DEF FsInv, ObjectsInv
<1>7. call'.op = "none"
  BY <1>3 DEF NoCall
<1>8. \A j \in Handles \ {h} : ~InCall(j)
  BY <1>0 DEF InCall
<1>9. ObjectsInv'
  BY <1>3, <1>6, <1>7, <1>8 DEF FsInv, ObjectsInv, Entering, InCall, Ready, Valid
<1>10. ReadInv' /\ FindInv'
  BY <1>7 DEF ReadInv, FindInv
<1>11. CallInv'
  <2>1. walk' = NoWalk
    BY DEF FsInv, ReadInv
  <2> QED
    BY <1>3, <1>7, <2>1 DEF FsInv, CallInv
<1>12. /\ Opened' = [Opened EXCEPT ![h] = NoFile]
       /\ Pos' = [Pos EXCEPT ![h] = 0] /\ Noted' = [Noted EXCEPT ![h] = 0]
  BY <1>3, <1>6, <1>7, <1>8 DEF Opened, Pos, Noted, Ready, Valid, InCall
<1>13. Opened[h] = fil[h].file /\ Pos[h] = call.start
  BY <1>1, <1>4 DEF Opened, Pos
<1>14. answer' = <<"read", h, call.n, "failed", AsStream!Bytes(h, k)>>
  <2>1. AsStream!Bytes(h, k) = call.buf
    BY <1>1, <1>2, <1>4, BytesSeen
  <2> QED
    BY <1>0, <1>3, <2>1 DEF ReadAnswer
<1>15. AsStream!ReadFails(h, call.n, k)
  <2>1. Pos[h] + k <= FSize[Opened[h]]
    BY <1>2, <1>13
  <2> QED
    BY <1>12, <1>14, <2>1 DEF AsStream!ReadFails, AsStream!Lose, AsStream!NoFile, Opened, Pos,
                              Noted, NoFile
<1>16. AsStream!StreamNext
  <2>1. Opened[h] # NoFile
    BY <1>1, <1>13
  <2>2. \E n \in Reads[h] : \E j \in 0 .. n : AsStream!ReadFails(h, n, j)
    BY <1>1, <1>2, <1>15
  <2> QED
    BY <1>1, <2>1, <2>2 DEF AsStream!StreamNext, AsStream!NoFile, Opened, NoFile
<1> QED
  BY <1>9, <1>10, <1>11, <1>16 DEF FsInv, SeenStep

\* A read that goes on shows its caller nothing.
LEMMA ReadGoesOn ==
  ASSUME FsInv, call.op = "read", UNCHANGED <<frame_start, answer, root, walk>>,
         NEW o \in FilType, o.file = fil[call.h].file, o.error = FALSE,
         fil' = [fil EXCEPT ![call.h] = o],
         call' \in ReadCall, call'.h = call.h, call'.n = call.n, call'.start = call.start,
         call.start <= o.fptr,
         o.fptr - call.start + call'.btr = fil[call.h].fptr - call.start + call.btr,
         call'.buf = BytesFrom(SClust[o.file], call.start, o.fptr - call.start),
         call'.at = "loop" => Stands(o.file, o),
         call'.at = "transfer" => Enters(o.file, o) /\ call'.btr > 0
  PROVE  FsInv' /\ SeenStep
<1>0. PICK h : h = call.h
  OBVIOUS
<1>1. /\ h \in Handles /\ Ready(h) /\ call.n \in Reads[h] /\ fil[h].file # NoFile
      /\ fil[h].fptr - call.start + call.btr = Min({call.n, FSize[fil[h].file] - call.start})
      /\ answer = Quiet
  BY <1>0, ReadFacts
<1>2. /\ fil' \in [Handles -> FilType] /\ fil'[h] = o
      /\ \A j \in Handles \ {h} : fil'[j] = fil[j]
  BY <1>0, <1>1 DEF FsInv, ObjectsInv
<1>3. call'.op = "read" /\ call'.at \in {"loop", "transfer"}
  BY DEF ReadCall
<1>4. call'.h = h /\ fil[h].file = o.file
  BY <1>0
<1>5. \A j \in Handles \ {h} : j # call.h /\ j # call'.h
  BY <1>0
<1>6. Ready(h)'
  BY <1>1, <1>2, <1>4 DEF Ready, Valid
<1>7. ObjectsInv'
  <2>1. fil' \in [Handles -> FilType] /\ frame_start' \in [Handles -> PlaceType]
    BY <1>2 DEF FsInv, ObjectsInv
  <2>2. ASSUME NEW j \in Handles, Ready(j)'
        PROVE  /\ Entering(j)' => Enters(fil[j].file, fil[j])'
               /\ ~Entering(j)' => Stands(fil[j].file, fil[j])'
               /\ frame_start'[j] # NoPlace => Stands(fil[j].file, frame_start[j])'
    <3>1. CASE j # h
      <4>1. Ready(j) /\ fil'[j] = fil[j] /\ frame_start'[j] = frame_start[j]
        BY <1>2, <2>2, <3>1 DEF Ready, Valid
      <4>2. ~Entering(j) /\ ~Entering(j)'
        BY <1>5, <3>1 DEF Entering
      <4> QED
        BY <4>1, <4>2 DEF FsInv, ObjectsInv, Stands, Enters
    <3>2. CASE j = h
      <4>1. Entering(h)' <=> call'.at = "transfer"
        BY <1>3, <1>4 DEF Entering
      <4>2. frame_start'[h] # NoPlace => Stands(fil[h].file, frame_start[h])
        BY <1>1 DEF FsInv, ObjectsInv
      <4>3. fil'[h] = o /\ fil'[h].file = fil[h].file /\ frame_start'[h] = frame_start[h]
        BY <1>2, <1>4
      <4>4. Stands(fil[h].file, frame_start[h]) => Stands(fil[h].file, frame_start[h])'
        BY <4>3 DEF Stands
      <4>5. /\ Enters(o.file, o) => Enters(fil[h].file, fil[h])'
            /\ Stands(o.file, o) => Stands(fil[h].file, fil[h])'
        BY <4>3 DEF Enters, Stands
      <4> QED
        BY <1>3, <3>2, <4>1, <4>2, <4>4, <4>5
    <3> QED
      BY <3>1, <3>2
  <2> QED
    BY <2>1, <2>2 DEF ObjectsInv
<1>8. ReadInv'
  <2>1. Delivers(fil[h])'
    BY <1>0, <1>1, <1>2, <1>4 DEF Delivers
  <2>2. walk' = NoWalk
    BY DEF FsInv, ReadInv
  <2> QED
    BY <1>1, <1>3, <1>4, <1>6, <2>1, <2>2 DEF ReadInv, Delivers, Ready, Valid
<1>9. FindInv' /\ CallInv'
  BY <1>1, <1>3 DEF FsInv, FindInv, CallInv
<1>10. Opened' = Opened /\ Noted' = Noted
  BY <1>1, <1>2, <1>4, <1>6 DEF Opened, Noted, Ready, Valid
<1>11. Pos' = Pos
  <2>1. InCall(h) /\ InCall(h)' /\ \A j \in Handles \ {h} : ~InCall(j) /\ ~InCall(j)'
    BY <1>0, <1>3, <1>4, <1>5 DEF InCall
  <2> QED
    BY <1>1, <1>2, <1>6, <2>1 DEF Pos, Ready, Valid
<1>12. Seen' = Seen
  BY <1>10, <1>11 DEF Seen
<1> QED
  BY <1>7, <1>8, <1>9, <1>12 DEF FsInv, SeenStep

\* A read that is done delivers the bytes from the position on, and moves it.
LEMMA ReadReturns ==
  ASSUME FsInv, FReadDone, UNCHANGED <<root, walk>>
  PROVE  FsInv' /\ SeenStep
<1>0. PICK h, n, p, k, size :
        /\ h = call.h /\ n = call.n /\ p = fil[h].fptr /\ k = p - call.start
        /\ size = FSize[fil[h].file]
  OBVIOUS
<1>1. /\ call.op = "read" /\ call.at = "loop" /\ call.btr = 0
      /\ call' = NoCall /\ answer' = ReadAnswer("OK")
      /\ UNCHANGED <<fil, frame_start>>
  BY DEF FReadDone, Reading
<1>2. /\ h \in Handles /\ Ready(h) /\ n \in Reads[h] /\ n \in Nat
      /\ fil[h].file \in Files /\ fil[h].file # NoFile /\ size \in Nat
      /\ call.start \in Nat /\ p \in Nat /\ call.start <= p
      /\ call.buf = BytesFrom(SClust[fil[h].file], call.start, k)
  BY <1>0, <1>1, ReadFacts
<1>3. k = Min({n, size - call.start}) /\ p <= size
  <2>1. p - call.start + call.btr = Min({n, size - call.start}) /\ p + call.btr <= size
    BY <1>0, <1>1, ReadFacts
  <2> QED
    BY <1>0, <1>1, <1>2, <2>1
<1>4. InCall(h) /\ \A j \in Handles \ {h} : ~InCall(j)
  BY <1>0, <1>1 DEF InCall
<1>5. call'.op = "none"
  BY <1>1 DEF NoCall
<1>6. ObjectsInv'
  BY <1>1, <1>5 DEF FsInv, ObjectsInv, Entering, Ready, Valid
<1>7. ReadInv' /\ FindInv'
  BY <1>5 DEF ReadInv, FindInv
<1>8. CallInv'
  <2>1. walk' = NoWalk
    BY <1>1 DEF FsInv, ReadInv
  <2> QED
    BY <1>1, <1>5, <2>1 DEF FsInv, CallInv
<1>9. /\ Opened' = Opened /\ Noted' = Noted /\ Pos' = [Pos EXCEPT ![h] = p]
      /\ Opened[h] = fil[h].file /\ Pos[h] = call.start
  BY <1>0, <1>1, <1>2, <1>4, <1>5 DEF Opened, Noted, Pos, Ready, Valid, InCall
<1>10. /\ k = AsStream!Least(n, FSize[Opened[h]] - Pos[h])
       /\ k \in Nat /\ call.start + k <= size /\ Pos[h] + k = p
  <2>1. k = IF n < size - call.start THEN n ELSE size - call.start
    BY <1>2, <1>3, MinIs
  <2>2. k = p - call.start
    BY <1>0
  <2> QED
    BY <1>0, <1>2, <1>3, <1>9, <2>1, <2>2 DEF AsStream!Least
<1>11. answer' = <<"read", h, n, "OK", AsStream!Bytes(h, k)>>
  <2>1. AsStream!Bytes(h, k) = call.buf
    BY <1>0, <1>2, <1>4, <1>10, BytesSeen
  <2> QED
    BY <1>0, <1>1, <2>1 DEF ReadAnswer
<1>12. AsStream!ReadAll(h, n)
  <2>1. Pos' = [Pos EXCEPT ![h] = Pos[h] + k]
    BY <1>9, <1>10
  <2>2. Pos' = [Pos EXCEPT ![h] = @ + k]
    BY <2>1
  <2> QED
    BY <1>9, <1>10, <1>11, <2>2 DEF AsStream!ReadAll, Opened, Pos, Noted
<1>13. AsStream!StreamNext
  <2>1. Opened[h] # NoFile
    BY <1>2, <1>9
  <2>2. \E m \in Reads[h] : AsStream!ReadAll(h, m)
    BY <1>2, <1>12
  <2> QED
    BY <1>2, <2>1, <2>2 DEF AsStream!StreamNext, AsStream!NoFile, Opened, NoFile
<1> QED
  BY <1>6, <1>7, <1>8, <1>13 DEF FsInv, SeenStep

\* At the end of a cluster the object enters the next one of its chain.
LEMMA ClusterKeeps ==
  ASSUME FsInv, FReadCluster, UNCHANGED <<root, walk>>
  PROVE  FsInv' /\ SeenStep
<1>0. PICK h, f, p : h = call.h /\ f = fil[h].file /\ p = fil[h].fptr
  OBVIOUS
<1>1. /\ call.op = "read" /\ call.at = "loop" /\ call.btr > 0 /\ p % ClusterBytes = 0
  BY <1>0 DEF FReadCluster, Reading, OnCluster
<1>2. /\ h \in Handles /\ Ready(h) /\ call \in ReadCall
      /\ fil[h] \in FilType /\ f \in Files /\ fil[h].error = FALSE /\ fil[h].file = f
      /\ FSize[f] \in Nat /\ SClust[f] \in Nat
      /\ call.start \in Nat /\ call.btr \in Nat /\ p \in Nat /\ fil[h].fptr = p
      /\ call.start <= p /\ p + call.btr <= FSize[f]
      /\ call.buf = BytesFrom(SClust[f], call.start, p - call.start)
  BY <1>0, <1>1, ReadFacts
<1>3. Stands(f, fil[h])
  BY <1>0, <1>1, <1>2 DEF FsInv, ObjectsInv, Entering
<1>4. PICK c \in Links \cup {DiskErr} :
        /\ NextCluster(h, c)
        /\ IF c < 2 THEN ReadAbort(Abort(h))
           ELSE /\ fil' = [fil EXCEPT ![h].clust = c]
                /\ call' = [call EXCEPT !.at = "transfer"]
                /\ UNCHANGED <<vol, frame_start, answer>>
  BY <1>0 DEF FReadCluster
<1>5. CASE c < 2
  <2>1. ReadAbort(Abort(call.h))
    BY <1>0, <1>4, <1>5
  <2> QED
    BY <1>1, <2>1, ReadAborts
<1>6. CASE ~(c < 2)
  <2>1. c \in Nat /\ c # DiskErr
    BY <1>6, LinkFacts DEF DiskErr
  <2>2. c = ChainFrom(SClust[f])[Cl(p)]
    <3>1. CASE p = 0
      <4>1. c = SClust[f] /\ Cl(p) = 0
        BY <1>0, <1>4, <3>1, Boundaries DEF NextCluster
      <4> QED
        BY <4>1, ChainSteps
    <3>2. CASE p # 0
      <4> DEFINE a == fil[h].clust
      <4>1. /\ a = ChainFrom(SClust[f])[Cl(p - 1)] /\ a \in Clusters
            /\ Cl(p) = Cl(p - 1) + 1 /\ Cl(p - 1) \in Nat
        <5>1. p > 0
          BY <1>2, <3>2
        <5>2. a = ChainFrom(SClust[f])[Cl(p - 1)] /\ a \in Clusters
          BY <1>2, <1>3, <5>1 DEF Stands
        <5> QED
          BY <1>1, <1>2, <3>2, <5>2, StepBack
      <4>2. GetFat(a, c)
        BY <1>2, <1>4, <3>2 DEF NextCluster
      <4> HIDE DEF a
      <4>3. c = Fat[a]
        <5>1. PICK o \in FatOutcomes(a) : c = o.link
          BY <4>2 DEF GetFat
        <5> QED
          BY <2>1, <4>1, <5>1 DEF FatOutcomes, Linked
      <4>4. c = Behind(a)
        BY <4>1, <4>3 DEF Behind
      <4> QED
        BY <4>1, <4>4, ChainSteps
    <3> QED
      BY <3>1, <3>2
  <2>3. PICK o : o = [fil[h] EXCEPT !.clust = c]
    OBVIOUS
  <2>4. /\ o \in FilType /\ o.file = f /\ o.error = FALSE /\ o.fptr = p /\ o.clust = c
    BY <1>2, <2>1, <2>3 DEF FilType
  <2>5. fil' = [fil EXCEPT ![call.h] = o]
    BY <1>0, <1>4, <1>6, <2>3
  <2>6. /\ call' \in ReadCall /\ call'.h = call.h /\ call'.n = call.n
        /\ call'.start = call.start /\ call'.btr = call.btr /\ call'.buf = call.buf
        /\ call'.at = "transfer"
    BY <1>2, <1>4, <1>6 DEF ReadCall
  <2>7. Enters(o.file, o) /\ UNCHANGED <<frame_start, answer>>
    BY <1>1, <1>2, <1>4, <1>6, <2>2, <2>4 DEF Enters
  <2> QED
    BY <1>0, <1>1, <1>2, <2>4, <2>5, <2>6, <2>7, ReadGoesOn
<1> QED
  BY <1>5, <1>6

\* Where data comes from the object's cluster is the one of its position, and within a
\* sector its sector too.
LEMMA Loaded ==
  ASSUME FsInv, NEW h, h = call.h, Transfer(h), NEW f, f = fil[h].file, NEW p, p = fil[h].fptr
  PROVE  /\ call.op = "read" /\ call.btr > 0 /\ p < FSize[f] /\ p \in Nat
         /\ fil[h].clust = ChainFrom(SClust[f])[Cl(p)]
         /\ Of(p) # 0 => /\ fil[h].clust \in Clusters
                         /\ fil[h].dsect = Clust2Sect(fil[h].clust) + Sec(p)
         /\ CSect(h) = Sec(p) /\ (OnSector(h) <=> Of(p) = 0)
<1>1. call.op = "read"
  BY DEF Transfer, Reading
<1>2. /\ h \in Handles /\ Ready(h) /\ FSize[f] \in Nat /\ call.btr \in Nat /\ p \in Nat
      /\ p + call.btr <= FSize[f]
  BY <1>1, ReadFacts
<1>3. CSect(h) = Sec(p) /\ (OnSector(h) <=> Of(p) = 0)
  BY DEF CSect, OnSector, Sec, Of
<1>4. CASE call.at = "transfer"
  <2>1. Enters(f, fil[h]) /\ call.btr > 0
    BY <1>1, <1>2, <1>4 DEF FsInv, ObjectsInv, ReadInv, Entering
  <2>2. Of(p) = 0
    BY <1>2, <2>1, Boundaries DEF Enters
  <2> QED
    BY <1>1, <1>2, <1>3, <2>1, <2>2 DEF Enters
<1>5. CASE call.at # "transfer"
  <2>1. call.btr > 0 /\ p % ClusterBytes # 0
    BY <1>5 DEF Transfer, Reading, OnCluster
  <2>2. Stands(f, fil[h])
    BY <1>2, <1>5 DEF FsInv, ObjectsInv, Entering
  <2>3. p # 0
    BY <2>1, Sizes
  <2>4. Cl(p) = Cl(p - 1) /\ p > 0 /\ p < FSize[f]
    BY <1>2, <2>1, <2>3, StepBack
  <2> QED
    BY <1>1, <1>2, <1>3, <2>1, <2>2, <2>4 DEF Stands
<1> QED
  BY <1>4, <1>5

\* The beginning of a sector.
LEMMA SectorBegins ==
  ASSUME NEW x \in Nat, NEW q \in Nat, x = SS * q
  PROVE  Of(x) = 0
<1>1. x = SS * q + 0 /\ 0 \in 0 .. SS - 1 /\ SS \in Nat \ {0}
  BY Sizes
<1> QED
  BY <1>1, DivMod DEF Of

\* Up to the end of a sector.
LEMMA InSector ==
  ASSUME NEW p \in Nat, NEW n \in Nat, Of(p) + n <= SS
  PROVE  /\ Of(p) + n <= SS * (CSize - Sec(p))
         /\ Of(p + n) # 0 => Sec(p + n) = Sec(p)
<1>1. Sec(p) \in 0 .. CSize - 1 /\ Of(p) \in 0 .. SS - 1
  BY PositionParts
<1>2. SS <= SS * (CSize - Sec(p))
  <2>1. CSize - Sec(p) \in Nat /\ 1 <= CSize - Sec(p)
    BY <1>1, Sizes
  <2> HIDE DEF Sec
  <2>2. SS * 1 <= SS * (CSize - Sec(p))
    BY <2>1, Sizes
  <2> QED
    BY <2>2, Sizes
<1>3. SS * (CSize - Sec(p)) \in Nat
  BY <1>1, Sizes
<1>4. CASE Of(p) + n < SS
  <2>1. Of(p) + n < SS * (CSize - Sec(p))
    BY <1>1, <1>2, <1>3, <1>4, Sizes
  <2>2. (Of(p) + n) \div SS = 0
    BY <1>1, <1>4, Sizes
  <2>3. Sec(p + n) = Sec(p) + (Of(p) + n) \div SS
    BY <2>1, Further
  <2>4. Sec(p + n) = Sec(p)
    BY <1>1, <2>2, <2>3
  <2>5. Of(p) + n <= SS * (CSize - Sec(p))
    BY <1>1, <1>3, <2>1, Sizes
  <2> QED
    BY <2>4, <2>5
<1>5. CASE Of(p) + n = SS
  <2>1. PICK d \in Nat : p = SS * d + Of(p)
    BY Sizes, DivisionExists DEF Of
  <2>2. PICK x, q \in Nat : x = p + n /\ q = d + 1
    OBVIOUS
  <2>3. x = SS * q
    <3>1. SS * (d + 1) = SS * d + SS /\ SS * d \in Nat
      BY <2>1, Sizes
    <3> QED
      BY <1>1, <1>5, <2>1, <2>2, <3>1, Sizes
  <2>4. Of(p + n) = 0
    BY <2>2, <2>3, SectorBegins
  <2> QED
    BY <1>1, <1>2, <1>3, <1>5, <2>4, Sizes
<1> QED
  BY <1>1, <1>2, <1>3, <1>4, <1>5, Sizes

\* The n bytes from position p on are in its cluster.
RoomFor(p, n) == Of(p) + n <= SS * (CSize - Sec(p))

\* Bytes of the object's cluster are taken and the position moves behind them.
LEMMA TakeKeeps ==
  ASSUME FsInv, NEW h, h = call.h, Transfer(h), NEW f, f = fil[h].file, NEW p, p = fil[h].fptr,
         NEW object \in FilType, object.file = f, object.error = FALSE, object.fptr = p,
         object.clust = fil[h].clust, object.clust \in Clusters,
         NEW s, s = Clust2Sect(object.clust) + Sec(p),
         NEW n \in Nat \ {0}, n <= call.btr, RoomFor(p, n),
         Of(p + n) # 0 => object.dsect = Clust2Sect(object.clust) + Sec(p + n),
         Take(object, s, Of(p), n), UNCHANGED <<root, walk>>
  PROVE  FsInv' /\ SeenStep
<1>0. PICK c, start : c = SClust[f] /\ start = call.start
  OBVIOUS
<1>1. /\ call.op = "read" /\ fil[h].clust = ChainFrom(c)[Cl(p)]
  BY <1>0, Loaded
<1>2. /\ h \in Handles /\ call \in ReadCall /\ FSize[f] \in Nat /\ c \in Nat
      /\ start \in Nat /\ call.btr \in Nat /\ p \in Nat
      /\ start <= p /\ p + call.btr <= FSize[f]
      /\ call.buf = BytesFrom(c, start, p - start)
  BY <1>0, <1>1, ReadFacts
<1>3. PICK o : o = [object EXCEPT !.fptr = p + n]
  OBVIOUS
<1>4. /\ o \in FilType /\ o.file = f /\ o.error = FALSE /\ o.fptr = p + n
      /\ o.clust = object.clust /\ o.dsect = object.dsect
  BY <1>2, <1>3 DEF FilType
<1>5. fil' = [fil EXCEPT ![call.h] = o]
  BY <1>3 DEF Take
<1> DEFINE got == Got(s, Of(p), n)
<1>6. /\ call' = [call EXCEPT !.at = "loop", !.btr = @ - n, !.buf = @ \o got]
      /\ UNCHANGED <<frame_start, answer>>
  BY DEF Take, Got
<1>7. got = BytesFrom(c, p, n)
  <2>1. s = Clust2Sect(ChainFrom(c)[Cl(p)]) + Sec(p)
    BY <1>1
  <2>2. Of(p) + n <= SS * (CSize - Sec(p)) /\ n \in Nat
    BY DEF RoomFor
  <2> QED
    BY <1>2, <2>1, <2>2, TakenAreBytes
<1> HIDE DEF got
<1>8. PICK m : m = p + n - start
  OBVIOUS
<1>9. /\ call.buf \o got = BytesFrom(c, start, m)
      /\ call.buf \o got \in Seq(Nat \X Nat)
  <2>1. PICK k : k = p - start
    OBVIOUS
  <2>2. /\ start \in Nat /\ p \in Nat /\ n \in Nat /\ k \in Nat /\ m \in Nat
        /\ Adds(start, k, p) /\ Adds(k, n, m)
    BY <1>2, <1>8, <2>1 DEF Adds
  <2>3. call.buf = BytesFrom(c, start, k) /\ got = BytesFrom(c, p, n)
    BY <1>2, <1>7, <2>1
  <2>4. /\ Joined(BytesFrom(c, start, k), BytesFrom(c, p, n)) = BytesFrom(c, start, m)
        /\ BytesFrom(c, start, m) \in Seq(Nat \X Nat)
    BY <2>2, BytesJoin
  <2> QED
    BY <2>3, <2>4, Zenon DEF Joined
<1>10. /\ call' \in ReadCall /\ call'.h = call.h /\ call'.n = call.n /\ call'.start = call.start
      /\ call'.at = "loop" /\ call'.btr = call.btr - n /\ call'.buf = call.buf \o got
  <2> DEFINE b == call.buf \o got
             left == call.btr - n
  <2>1. left \in Nat /\ b \in Seq(Nat \X Nat)
    BY <1>2, <1>9
  <2>2. call' = [call EXCEPT !.at = "loop", !.btr = left, !.buf = b]
    BY <1>6
  <2> HIDE DEF b, left
  <2>3. /\ call' \in ReadCall /\ call'.h = call.h /\ call'.n = call.n /\ call'.start = call.start
        /\ call'.at = "loop" /\ call'.btr = left /\ call'.buf = b
    BY <1>2, <2>1, <2>2 DEF ReadCall
  <2> QED
    BY <2>3 DEF b, left
<1>11. Stands(o.file, o)
  <2>1. p + n <= FSize[f]
    BY <1>2
  <2>2. o.clust = ChainFrom(c)[Cl(p + n - 1)]
    <3> DEFINE j == n - 1
    <3>1. j \in Nat /\ p + n - 1 = p + j
      BY <1>2
    <3>2. Of(p) + j < SS * (CSize - Sec(p))
      <4>1. Sec(p) \in 0 .. CSize - 1 /\ Of(p) \in 0 .. SS - 1
        BY <1>2, PositionParts
      <4>2. SS * (CSize - Sec(p)) \in Nat
        BY <4>1, Sizes
      <4> QED
        BY <4>1, <4>2, Sizes DEF RoomFor
    <3> HIDE DEF j
    <3>3. Cl(p + j) = Cl(p)
      BY <1>2, <3>1, <3>2, Further
    <3> QED
      BY <1>1, <1>4, <3>1, <3>3
  <2>3. /\ o.fptr <= FSize[o.file] /\ o.fptr > 0
        /\ o.clust = ChainFrom(SClust[o.file])[Cl(o.fptr - 1)] /\ o.clust \in Clusters
    <3>1. o.fptr <= FSize[o.file] /\ o.fptr > 0 /\ o.clust \in Clusters
      BY <1>2, <1>4, <2>1
    <3>2. p + n - 1 = (p + n) - 1
      BY <1>2
    <3>3. o.clust = ChainFrom(c)[Cl(o.fptr - 1)]
      BY <1>4, <2>2, <3>2, Zenon
    <3> QED
      BY <1>0, <1>4, <3>1, <3>3, Zenon
  <2>4. Of(o.fptr) # 0 => o.dsect = Clust2Sect(o.clust) + Sec(o.fptr)
    BY <1>4
  <2> QED
    BY <2>3, <2>4 DEF Stands
<1>12. /\ call.start <= o.fptr
       /\ o.fptr - call.start + call'.btr = fil[call.h].fptr - call.start + call.btr
       /\ call'.buf = BytesFrom(SClust[o.file], call.start, o.fptr - call.start)
  <2>1. o.fptr - call.start + call'.btr = fil[call.h].fptr - call.start + call.btr
    <3>1. PICK b \in Nat : b = call.btr
      BY <1>2
    <3>2. /\ o.fptr = p + n /\ call'.btr = b - n
          /\ fil[call.h].fptr = p /\ call.start = start
      BY <1>0, <1>4, <1>10, <3>1
    <3>3. (p + n) - start + (b - n) = p - start + b
      BY <1>2
    <3> QED
      BY <3>1, <3>2, <3>3, Zenon
  <2>2. call'.buf = BytesFrom(SClust[o.file], call.start, o.fptr - call.start)
    <3>1. /\ call'.buf = BytesFrom(c, start, m)
          /\ SClust[o.file] = c /\ call.start = start
      BY <1>0, <1>4, <1>9, <1>10
    <3>2. o.fptr - start = m
      BY <1>2, <1>4, <1>8
    <3> QED
      BY <3>1, <3>2, Zenon
  <2>3. call.start <= o.fptr
    BY <1>0, <1>2, <1>4
  <2> QED
    BY <2>1, <2>2, <2>3
<1> QED
  BY <1>1, <1>4, <1>5, <1>6, <1>10, <1>11, <1>12, ReadGoesOn

\* Whole sectors at once.
LEMMA DirectKeeps ==
  ASSUME FsInv, FReadDirect, UNCHANGED <<root, walk>>
  PROVE  FsInv' /\ SeenStep
<1>0. PICK h, f, p, m : h = call.h /\ f = fil[h].file /\ p = fil[h].fptr /\ m = Sectors(h)
  OBVIOUS
<1>1. /\ Transfer(h) /\ OnSector(h) /\ Clust2Sect(fil[h].clust) # 0 /\ m > 0
      /\ \/ Take(fil[h], Clust2Sect(fil[h].clust) + CSect(h), 0, m * SS)
         \/ ReadAbort(Abort(call.h))
  BY <1>0 DEF FReadDirect
<1>2. /\ call.op = "read" /\ p \in Nat /\ Of(p) = 0 /\ CSect(h) = Sec(p)
      /\ fil[h].clust \in Clusters
  <2>1. fil[h].clust \in Clusters
    BY <1>1 DEF Clust2Sect
  <2> QED
    BY <1>0, <1>1, <2>1, Loaded
<1>3. /\ call.btr \in Nat /\ fil[h] \in FilType /\ fil[h].error = FALSE
  BY <1>0, <1>2, ReadFacts
<1>4. CASE ReadAbort(Abort(call.h))
  BY <1>2, <1>4, ReadAborts
<1>5. CASE Take(fil[h], Clust2Sect(fil[h].clust) + CSect(h), 0, m * SS)
  <2>1. Sec(p) \in 0 .. CSize - 1
    BY <1>2, PositionParts
  <2>2. PICK q : q = call.btr \div SS /\ q \in Nat /\ SS * q <= call.btr
    <3>0. PICK x, y : x = call.btr \div SS /\ y = call.btr % SS
      OBVIOUS
    <3>1. x = call.btr \div SS /\ x \in Nat /\ y \in Nat /\ call.btr = SS * x + y
      <4>1. x \in Nat /\ y \in 0 .. SS - 1 /\ call.btr = SS * x + y
        BY <1>3, <3>0, Sizes, DivisionExists, Zenon
      <4> QED
        BY <3>0, <4>1, Sizes
    <3>2. SS * x \in Nat
      BY <3>1, Sizes
    <3>3. SS * x <= call.btr
      BY <3>1, <3>2
    <3> QED
      BY <3>1, <3>3
  <2>3. m = Min({q, CSize - Sec(p)})
    BY <1>0, <1>2, <2>2 DEF Sectors
  <2>4. m \in Nat \ {0} /\ m <= q /\ m <= CSize - Sec(p)
    <3>1. m = IF q < CSize - Sec(p) THEN q ELSE CSize - Sec(p)
      BY <2>1, <2>2, <2>3, Sizes, MinIs
    <3> QED
      BY <1>1, <2>1, <2>2, <3>1, Sizes
  <2>5. PICK n : n = m * SS
    OBVIOUS
  <2>6. /\ n \in Nat \ {0} /\ n = SS * m /\ n <= call.btr /\ n <= SS * (CSize - Sec(p))
    <3>1. n = SS * m /\ n \in Nat /\ n # 0
      BY <2>4, <2>5, Sizes
    <3>2. SS * m <= SS * q /\ SS * q \in Nat
      BY <2>2, <2>4, Sizes
    <3>3. SS * m <= SS * (CSize - Sec(p))
      <4>1. CSize - Sec(p) \in Nat
        BY <2>1, Sizes
      <4> QED
        BY <2>4, <4>1, Sizes
    <3> QED
      BY <1>3, <2>2, <3>1, <3>2, <3>3
  <2>7. Of(p + n) = 0
    <3>1. PICK d \in Nat : p = SS * d + Of(p)
      BY <1>2, Sizes, DivisionExists DEF Of
    <3>2. PICK x, k \in Nat : x = p + n /\ k = d + m
      BY <1>2, <2>4, <2>6
    <3>3. x = SS * k
      <4>1. SS * (d + m) = SS * d + SS * m /\ SS * d \in Nat
        BY <2>4, <3>1, Sizes
      <4> QED
        BY <1>2, <2>4, <2>6, <3>1, <3>2, <4>1
    <3> QED
      BY <3>2, <3>3, SectorBegins
  <2>8. RoomFor(p, n)
    BY <1>2, <2>6 DEF RoomFor
  <2>9. Take(fil[h], Clust2Sect(fil[h].clust) + Sec(p), Of(p), n)
    BY <1>2, <1>5, <2>5
  <2> QED
    BY <1>0, <1>1, <1>2, <1>3, <2>6, <2>7, <2>8, <2>9, TakeKeeps
<1> QED
  BY <1>1, <1>4, <1>5

\* Part of a sector, through the window, which every other file and the directory use too.
LEMMA PartialKeeps ==
  ASSUME FsInv, FReadPartial, UNCHANGED <<root, walk>>
  PROVE  FsInv' /\ SeenStep
<1>0. PICK h, f, p, c, b :
        h = call.h /\ f = fil[h].file /\ p = fil[h].fptr /\ c = fil[h].clust /\ b = call.btr
  OBVIOUS
<1>1. PICK object :
        /\ Transfer(h)
        /\ OnSector(h) => /\ Clust2Sect(c) # 0 /\ Sectors(h) = 0
                          /\ object = [fil[h] EXCEPT !.dsect = Clust2Sect(c) + CSect(h)]
        /\ ~OnSector(h) => object = fil[h]
        /\ Partial(object)
  BY <1>0 DEF FReadPartial
<1>2. /\ call.op = "read" /\ b > 0 /\ p \in Nat /\ CSect(h) = Sec(p)
      /\ OnSector(h) <=> Of(p) = 0
      /\ Of(p) # 0 => c \in Clusters /\ fil[h].dsect = Clust2Sect(c) + Sec(p)
  BY <1>0, <1>1, Loaded
<1>3. b \in Nat /\ fil[h] \in FilType /\ fil[h].error = FALSE
  BY <1>0, <1>2, ReadFacts
<1>4. Sec(p) \in 0 .. CSize - 1 /\ Of(p) \in 0 .. SS - 1 /\ Clust2Sect(c) \in Nat
  BY <1>2, PositionParts, ByteType
<1>5. /\ object \in FilType /\ object.file = f /\ object.error = FALSE /\ object.fptr = p
      /\ object.clust = c /\ c \in Clusters
      /\ object.dsect = Clust2Sect(c) + Sec(p)
  <2>1. CASE Of(p) = 0
    <3>1. PICK d \in Nat : d = Clust2Sect(c) + Sec(p)
      BY <1>4, Sizes
    <3>2. object = [fil[h] EXCEPT !.dsect = d]
      BY <1>1, <1>2, <2>1, <3>1
    <3>3. c \in Clusters
      BY <1>1, <1>2, <2>1 DEF Clust2Sect
    <3>4. /\ object \in FilType /\ object.file = f /\ object.error = FALSE /\ object.fptr = p
          /\ object.clust = c /\ object.dsect = d
      BY <1>0, <1>3, <3>2 DEF FilType
    <3> QED
      BY <3>1, <3>3, <3>4
  <2>2. CASE Of(p) # 0
    BY <1>0, <1>1, <1>2, <1>3, <2>2
  <2> QED
    BY <2>1, <2>2
<1>6. CASE ReadAbort(Abort(call.h))
  BY <1>2, <1>6, ReadAborts
<1>7. PICK w, ofs, m :
        w = winsect' /\ ofs = object.fptr % SS /\ m = Min({SS - (object.fptr % SS), call.btr})
  OBVIOUS
<1>8. \/ MoveWindow(object.dsect) /\ Take(object, w, ofs, m)
      \/ ReadAbort(Abort(call.h))
  BY <1>1, <1>7 DEF Partial, Take
<1>9. CASE MoveWindow(object.dsect) /\ Take(object, w, ofs, m)
  <2>1. PICK s, n : s = Clust2Sect(c) + Sec(p) /\ n = Min({SS - Of(p), b})
    OBVIOUS
  <2>2. Take(object, s, Of(p), n)
    <3>1. w = s /\ ofs = Of(p) /\ m = n
      BY <1>0, <1>5, <1>7, <1>9, <2>1 DEF MoveWindow, Of
    <3> QED
      BY <1>9, <3>1
  <2>3. n \in Nat \ {0} /\ n <= b /\ Of(p) + n <= SS
    <3>1. n = IF SS - Of(p) < b THEN SS - Of(p) ELSE b
      BY <1>3, <1>4, <2>1, Sizes, MinIs
    <3> QED
      BY <1>2, <1>3, <1>4, <3>1, Sizes
  <2>4. RoomFor(p, n) /\ (Of(p + n) # 0 => Sec(p + n) = Sec(p))
    BY <1>2, <2>3, InSector DEF RoomFor
  <2>5. Of(p + n) # 0 => object.dsect = Clust2Sect(object.clust) + Sec(p + n)
    BY <1>5, <2>4
  <2>6. n <= call.btr /\ object.clust = fil[h].clust
    BY <1>0, <1>5, <2>3
  <2>7. s = Clust2Sect(object.clust) + Sec(p) /\ object.clust \in Clusters
    BY <1>5, <2>1
  <2> QED
    BY <1>0, <1>1, <1>5, <2>2, <2>3, <2>4, <2>5, <2>6, <2>7, TakeKeeps
<1> QED
  BY <1>6, <1>8, <1>9

\* One turn of f_read's loop.
LEMMA FReadKeeps ==
  ASSUME FsInv, FRead, UNCHANGED <<root, walk>>
  PROVE  FsInv' /\ SeenStep
<1>1. CASE FReadNoSector
  <2>1. call.op = "read" /\ ReadAbort(Abort(call.h))
    BY <1>1 DEF FReadNoSector, Transfer, Reading
  <2> QED
    BY <2>1, ReadAborts
<1> QED
  BY <1>1, ReadReturns, ClusterKeeps, DirectKeeps, PartialKeeps DEF FRead

--------------------------------------------------------------------------------
(* The system                                                              *)

\* At first nothing is open.
LEMMA FsInit == Init => FsInv /\ AsStream!StreamInit
<1> SUFFICES ASSUME Init PROVE FsInv /\ AsStream!StreamInit
  OBVIOUS
<1>1. /\ fil = [h \in Handles |-> Closed] /\ frame_start = [h \in Handles |-> NoPlace]
      /\ answer = Quiet /\ call.op = "none" /\ root \in Roots
  BY DEF Init, FileInit, DirInit, NoCall
<1>2. Closed \in FilType /\ Closed.file = NoFile /\ NoPlace \in PlaceType /\ NoPlace.fptr = 0
  BY DEF Closed, NoPlace, FilType, PlaceType
<1>3. \A h \in Handles : fil[h].file = NoFile /\ ~Ready(h)
  BY <1>1, <1>2 DEF Ready, Valid
<1>4. ObjectsInv
  BY <1>1, <1>2, <1>3 DEF ObjectsInv
<1>5. ReadInv /\ FindInv /\ CallInv
  BY <1>1 DEF ReadInv, FindInv, CallInv
<1>6. /\ Opened = [h \in Handles |-> NoFile] /\ Pos = [h \in Handles |-> 0]
      /\ Noted = [h \in Handles |-> 0]
  BY <1>3 DEF Opened, Pos, Noted
<1> QED
  BY <1>1, <1>4, <1>5, <1>6 DEF FsInv, AsStream!StreamInit, AsStream!NoFile, AsStream!Quiet,
                               Opened, Pos, Noted, NoFile, Quiet

\* FsInv is inductive, and every step is one of the streams or shows nothing.
LEMMA FsNext == FsInv /\ [Next]_vars => FsInv' /\ SeenStep
<1> SUFFICES ASSUME FsInv, [Next]_vars PROVE FsInv' /\ SeenStep
  OBVIOUS
<1>1. CASE UNCHANGED vars
  <2>1. UNCHANGED <<fil, frame_start, answer, call, root, walk>>
    BY <1>1 DEF vars, volVars, fileVars, dirVars, walkVars
  <2>2. ObjectsInv'
    BY <2>1 DEF FsInv, ObjectsInv, Entering, Ready, Valid, Enters, Stands
  <2>3. ReadInv'
    BY <2>1 DEF FsInv, ReadInv, Delivers, Ready, Valid
  <2>4. FindInv' /\ CallInv'
    BY <2>1 DEF FsInv, FindInv, CallInv, DirPlace
  <2>5. Seen' = Seen
    BY <2>1 DEF Seen, Opened, Pos, Noted, Ready, Valid, InCall
  <2> QED
    BY <2>2, <2>3, <2>4, <2>5 DEF FsInv, SeenStep
<1>2. CASE FRead /\ UNCHANGED <<dirVars, walkVars>>
  <2>1. UNCHANGED <<root, walk>>
    BY <1>2 DEF dirVars, walkVars
  <2> QED
    BY <1>2, <2>1, FReadKeeps
<1>3. CASE Proceed
  BY <1>2, <1>3, SearchStep, ListGoesOn, WalkStepKeeps DEF Proceed
<1>4. CASE \E h \in Handles : Use(h) \/ \E p \in Opens[h] : Open(h, p)
  BY <1>4, UseKeeps, OpenKeeps
<1>5. CASE \E index \in 0 .. Cardinality(Shows) : WalkStart(index)
  BY <1>5, WalkStartKeeps
<1> QED
  BY <1>1, <1>3, <1>4, <1>5 DEF Next

\* Files are streams: whatever the calls' interleaving, the volume's damage and the disk's
\* failures, a file object is a position in the bytes of its chain, and neither the
\* boundaries of sectors and clusters nor the one window for all can be seen in what f_read
\* delivers, not behind the player's returns to the beginning of a frame either.
THEOREM FilesAreStreams == Spec => ImplementsStream
<1>1. FsInv /\ [Next]_vars => FsInv'
  BY FsNext
<1>2. FsInv /\ [Next]_vars => [AsStream!StreamNext]_Seen
  BY FsNext DEF SeenStep
<1>3. [AsStream!StreamNext]_Seen => [AsStream!StreamNext]_(AsStream!streamVars)
  BY DEF AsStream!streamVars, Seen, Opened, Pos, Noted
<1> QED
  BY <1>1, <1>2, <1>3, FsInit, PTL DEF Spec, ImplementsStream, AsStream!Stream
================================================================================

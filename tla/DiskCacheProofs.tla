-------------------------- MODULE DiskCacheProofs --------------------------
(***************************************************************************)
(* Proofs about DiskCache, for every number of sectors and of lines, every *)
(* medium and every kind of fault.                                         *)
(***************************************************************************)
EXTENDS DiskCache, TLAPS

\* The line of a sector exists.
LEMMA LineExists ==
    ASSUME NEW s \in Sectors
    PROVE  LineOf(s) \in Lines
BY CacheAssumption DEF LineOf, Lines, Sectors

\* Storing data leaves a medium, and changes the sectors of the span only.
LEMMA StoredMedium ==
    ASSUME NEW m \in [Sectors -> Values], NEW r \in Requests, NEW data \in Buffers(r[2])
    PROVE  /\ Stored(m, r[1], data) \in [Sectors -> Values]
           /\ Len(data) = r[2]
           /\ \A x \in Sectors : Stored(m, r[1], data)[x] =
                 IF x \in Span(r[1], r[2]) THEN data[x - r[1] + 1] ELSE m[x]
<1>1. r[1] \in Nat /\ r[2] \in Nat
  BY CacheAssumption DEF Requests, Sectors
<1>2. Len(data) = r[2] /\ \A k \in 1 .. r[2] : data[k] \in Values
  BY <1>1 DEF Buffers
<1>3. ASSUME NEW x \in Sectors, x \in Span(r[1], r[2])
      PROVE  data[x - r[1] + 1] \in Values
  <2>1. x - r[1] + 1 \in 1 .. r[2]
    BY <1>1, <1>3 DEF Span, Sectors
  <2> QED
    BY <2>1, <1>2
<1> QED
  BY <1>2, <1>3 DEF Stored

\* The sectors of a request are sectors.
LEMMA SpanIsSectors ==
    ASSUME NEW r \in Requests
    PROVE  /\ r[1] \in Sectors /\ r[2] \in 0 .. MaxCount
           /\ Span(r[1], r[2]) \subseteq Sectors
BY CacheAssumption DEF Requests, Span, Sectors

\* The sector of a span that falls into a line.
LEMMA SectorInLine ==
    ASSUME NEW r \in Requests, NEW i \in Touched(r[1], r[2])
    PROVE  /\ SectorIn(i, r[1], r[2]) \in Span(r[1], r[2])
           /\ LineOf(SectorIn(i, r[1], r[2])) = i
BY DEF Touched, SectorIn

\* What the type invariant says of the answer.
Answers == [op : {"none", "read", "write"}, res : {"OK", "ERROR", "NOTRDY", "PARERR"},
            sector : Sectors, data : UNION {Buffers(n) : n \in 0 .. MaxCount}]

\* What Answered notes is an answer.
LEMMA AnswerType ==
    ASSUME NEW op \in {"none", "read", "write"}, NEW res \in {"OK", "ERROR", "NOTRDY", "PARERR"},
           NEW s \in Sectors, NEW n \in 0 .. MaxCount, NEW data \in Buffers(n),
           Answered(op, res, s, data)
    PROVE  answer' \in Answers
BY DEF Answered, Answers

\* A refused call may have an empty buffer.
LEMMA EmptyBuffer == <<>> \in Buffers(0) /\ 0 \in 0 .. MaxCount
BY CacheAssumption DEF Buffers

\* No call made yet is an answer, too.
LEMMA NoAnswer == None \in Answers
<1>1. 0 \in Sectors
  BY CacheAssumption DEF Sectors
<1> QED
  BY <1>1, EmptyBuffer DEF None, Answers

-----------------------------------------------------------------------------
Inv == TypeOK /\ LinesMatchTags

\* After reset no line has a tag.
LEMMA InitInv == Init => Inv
<1> SUFFICES ASSUME Init PROVE Inv
  OBVIOUS
<1>1. answer \in Answers
  BY NoAnswer DEF Init, DevInit
<1>2. 0 \in Sectors
  BY CacheAssumption DEF Sectors
<1>3. TypeOK
  BY <1>1, <1>2 DEF Init, DevInit, TypeOK, Answers
<1>4. LinesMatchTags
  BY DEF Init, DevInit, LinesMatchTags
<1> QED
  BY <1>3, <1>4 DEF Inv

\* disk_initialize keeps the lines that are tagged true.
LEMMA InitializeStep == Inv /\ Initialize => Inv'
<1> SUFFICES ASSUME Inv, Initialize PROVE Inv'
  OBVIOUS
<1>1. answer' \in Answers
  BY NoAnswer DEF Initialize
<1>2. TypeOK'
  BY <1>1 DEF Inv, TypeOK, Initialize, Answers
<1>3. LinesMatchTags'
  BY DEF Inv, LinesMatchTags, Initialize, TypeOK
<1> QED
  BY <1>2, <1>3 DEF Inv

\* After disk_read each tagged line that is not spoilt holds its sector.
LEMMA ReadStep ==
    ASSUME Inv, NEW r \in Requests, Read(r[1], r[2])
    PROVE  Inv'
<1> DEFINE s == r[1]
           n == r[2]
<1>0. s \in Sectors /\ n \in 0 .. MaxCount /\ LineOf(s) \in Lines /\ Span(s, n) \subseteq Sectors
  BY SpanIsSectors, LineExists
<1>1. CASE Refuse("read", s, n, <<>>)
  <2>1. Refusal(n) \in {"OK", "ERROR", "NOTRDY", "PARERR"}
    BY DEF Refusal
  <2>2. answer' \in Answers
    BY <1>0, <1>1, <2>1, EmptyBuffer, AnswerType DEF Refuse
  <2> QED
    BY <1>1, <2>2 DEF Inv, TypeOK, Answers, LinesMatchTags, Refuse
<1>2. CASE n = 1 /\ ReadHit(s)
  <2>1. <<cache_buffer[LineOf(s)]>> \in Buffers(1)
    BY <1>0 DEF Inv, TypeOK, Buffers
  <2>2. answer' \in Answers
    BY <1>0, <1>2, <2>1, AnswerType DEF ReadHit
  <2> QED
    BY <1>2, <2>2 DEF Inv, TypeOK, Answers, LinesMatchTags, ReadHit
<1>3. CASE n = 1 /\ ReadMiss(s)
  <2>1. medium[s] \in Values /\ <<medium[s]>> \in Buffers(1)
    BY <1>0 DEF Inv, TypeOK, Buffers
  <2>2. answer' \in Answers
    BY <1>0, <1>3, <2>1, AnswerType DEF ReadMiss
  <2>3. TypeOK'
    BY <1>0, <1>3, <2>1, <2>2 DEF Inv, TypeOK, Answers, ReadMiss
  <2>4. ASSUME ready', ~changed', NEW i \in Lines \ spoilt', cached_blocks'[i] # NoBlock
        PROVE  LineOf(cached_blocks'[i]) = i /\ cache_buffer'[i] = medium'[cached_blocks'[i]]
    <3>1. CASE i = LineOf(s)
      BY <1>0, <1>3, <3>1 DEF Inv, TypeOK, ReadMiss
    <3>2. CASE i # LineOf(s)
      BY <1>0, <1>3, <2>4, <3>2 DEF Inv, TypeOK, LinesMatchTags, ReadMiss
    <3> QED
      BY <3>1, <3>2
  <2> QED
    BY <2>3, <2>4 DEF Inv, LinesMatchTags
<1>4. CASE n = 1 /\ ReadMissFails(s)
  <2>1. answer' \in Answers
    BY <1>0, <1>4, EmptyBuffer, AnswerType DEF ReadMissFails
  <2>2. cache_buffer' \in [Lines -> Values] /\ spoilt' \subseteq Lines
    BY <1>0, <1>4 DEF Inv, TypeOK, ReadMissFails
  <2>3. TypeOK'
    BY <1>4, <2>1, <2>2 DEF Inv, TypeOK, Answers, ReadMissFails
  <2>4. LinesMatchTags'
    BY <1>0, <1>4 DEF Inv, TypeOK, LinesMatchTags, ReadMissFails
  <2> QED
    BY <2>3, <2>4 DEF Inv
<1>5. CASE ReadMany(s, n)
  <2>1. Contents(medium, s, n) \in Buffers(n)
    <3>1. ASSUME NEW i \in 1 .. n PROVE medium[s + i - 1] \in Values
      <4>1. s + i - 1 \in Span(s, n)
        BY <1>0, CacheAssumption DEF Span, Sectors
      <4> QED
        BY <1>0, <4>1 DEF Inv, TypeOK
    <3> QED
      BY <3>1 DEF Contents, Buffers
  <2>2. answer' \in Answers
    BY <1>0, <1>5, <2>1, EmptyBuffer, AnswerType DEF ReadMany
  <2> QED
    BY <1>5, <2>2 DEF Inv, TypeOK, Answers, LinesMatchTags, ReadMany
<1> QED
  BY <1>1, <1>2, <1>3, <1>4, <1>5 DEF Read

\* So it does after disk_write.
LEMMA WriteStep ==
    ASSUME Inv, NEW r \in Requests, NEW data \in Buffers(r[2]), Write(r[1], data)
    PROVE  Inv'
<1> DEFINE s == r[1]
           n == r[2]
           Hit == Touched(s, n)
           Right == {i \in Hit : cached_blocks[i] = SectorIn(i, s, n)}
<1>0. s \in Sectors /\ n \in 0 .. MaxCount /\ Span(s, n) \subseteq Sectors
  BY SpanIsSectors
<1>1. Len(data) = n /\ Stored(medium, s, data) \in [Sectors -> Values]
  BY StoredMedium DEF Inv, TypeOK
<1>2. ASSUME NEW i \in Hit
      PROVE  /\ SectorIn(i, s, n) \in Span(s, n)
             /\ LineOf(SectorIn(i, s, n)) = i
             /\ data[SectorIn(i, s, n) - s + 1] \in Values
  <2>1. SectorIn(i, s, n) \in Span(s, n) /\ LineOf(SectorIn(i, s, n)) = i
    BY SectorInLine
  <2>2. SectorIn(i, s, n) - s + 1 \in 1 .. n
    BY <1>0, <2>1 DEF Span, Sectors
  <2> QED
    BY <2>1, <2>2 DEF Buffers
<1>3. Hit \subseteq Lines
  BY <1>0, LineExists DEF Touched
<1>4. cache_buffer' = [i \in Lines |->
          IF i \in Hit THEN data[SectorIn(i, s, n) - s + 1] ELSE cache_buffer[i]]
  BY <1>1 DEF Write
<1>5. \/ medium' = Stored(medium, s, data) /\ spoilt' = (spoilt \cup Hit) \ Right
      \/ medium' = medium /\ spoilt' = spoilt \cup Hit
  BY <1>1 DEF Write
<1>6. UNCHANGED <<ready, changed, cached_blocks>> /\ Answered("write", "OK", s, data)
  BY DEF Write
<1>7. TypeOK'
  <2>1. answer' \in Answers
    BY <1>0, <1>6, AnswerType
  <2>2. cache_buffer' \in [Lines -> Values]
    BY <1>2, <1>4 DEF Inv, TypeOK
  <2>3. medium' \in [Sectors -> Values] /\ spoilt' \subseteq Lines
    BY <1>1, <1>3, <1>5 DEF Inv, TypeOK
  <2> QED
    BY <1>6, <2>1, <2>2, <2>3 DEF Inv, TypeOK, Answers
<1>8. ASSUME ready', ~changed', NEW i \in Lines \ spoilt', cached_blocks'[i] # NoBlock
      PROVE  LineOf(cached_blocks'[i]) = i /\ cache_buffer'[i] = medium'[cached_blocks'[i]]
  <2>1. cached_blocks[i] \in Sectors
    BY <1>6, <1>8 DEF Inv, TypeOK
  <2>2. CASE i \in Hit
    <3>1. i \in Right /\ medium' = Stored(medium, s, data)
      BY <1>5, <1>8, <2>2
    <3>2. medium'[cached_blocks[i]] = data[cached_blocks[i] - s + 1]
      BY <1>2, <2>1, <2>2, <3>1, StoredMedium DEF Inv, TypeOK
    <3> QED
      BY <1>2, <1>4, <1>6, <2>2, <3>1, <3>2
  <2>3. CASE i \notin Hit
    <3>1. i \notin spoilt
      BY <1>5, <1>8, <2>3
    <3>2. LineOf(cached_blocks[i]) = i /\ cache_buffer[i] = medium[cached_blocks[i]]
      BY <1>6, <1>8, <3>1 DEF Inv, LinesMatchTags
    <3>3. cached_blocks[i] \notin Span(s, n)
      BY <2>3, <3>2 DEF Touched
    <3>4. medium'[cached_blocks[i]] = medium[cached_blocks[i]]
      BY <1>5, <2>1, <3>3, StoredMedium DEF Inv, TypeOK
    <3> QED
      BY <1>4, <1>6, <2>3, <3>2, <3>4
  <2> QED
    BY <2>2, <2>3
<1> QED
  BY <1>7, <1>8 DEF Inv, LinesMatchTags

\* A refused write changes nothing.
LEMMA RefuseWriteStep ==
    ASSUME Inv, NEW r \in Requests, NEW data \in Buffers(r[2]), Refuse("write", r[1], r[2], data)
    PROVE  Inv'
<1>1. Refusal(r[2]) \in {"OK", "ERROR", "NOTRDY", "PARERR"}
  BY DEF Refusal
<1>2. answer' \in Answers
  BY <1>1, SpanIsSectors, AnswerType DEF Refuse
<1> QED
  BY <1>2 DEF Inv, TypeOK, Answers, LinesMatchTags, Refuse

\* No step makes a tagged line untrue.
LEMMA NextInv == Inv /\ [Next]_vars => Inv'
<1> SUFFICES ASSUME Inv, [Next]_vars PROVE Inv'
  OBVIOUS
<1>1. CASE Initialize
  BY <1>1, InitializeStep
<1>2. ASSUME NEW r \in Requests, Read(r[1], r[2]) PROVE Inv'
  BY <1>2, ReadStep
<1>3. ASSUME NEW r \in Requests, NEW data \in Buffers(r[2]), Refuse("write", r[1], r[2], data)
      PROVE  Inv'
  BY <1>3, RefuseWriteStep
<1>4. ASSUME NEW r \in Requests, NEW data \in Buffers(r[2]), Write(r[1], data)
      PROVE  Inv'
  BY <1>4, WriteStep
<1>5. CASE Exchange
  BY <1>5 DEF Inv, TypeOK, LinesMatchTags, Exchange
<1>6. CASE UNCHANGED vars
  BY <1>6 DEF Inv, TypeOK, LinesMatchTags, vars
<1> QED
  BY <1>1, <1>2, <1>3, <1>4, <1>5, <1>6 DEF Next

\* diskio.c keeps its variables in their types, for every size of disk and cache: no
\* tag but a sector's or the invalid one, no answer longer than what was asked for.
THEOREM DiskTypes == Spec => []TypeOK
<1>1. Inv => TypeOK
  BY DEF Inv
<1> QED
  BY <1>1, InitInv, NextInv, PTL DEF Spec

\* A tagged line is the sector of its tag unless a failed read or a write spoilt it, for
\* every size of disk and cache.
THEOREM TaggedLinesAreTrue == Spec => []LinesMatchTags
<1>1. Inv => LinesMatchTags
  BY DEF Inv
<1> QED
  BY <1>1, InitInv, NextInv, PTL DEF Spec

-----------------------------------------------------------------------------
\* While no line is spoilt, a read returns what the disk holds, or fails.
LEMMA ReadIsDevRead ==
    ASSUME Inv, spoilt = {}, spoilt' = {}, NEW r \in Requests, Read(r[1], r[2])
    PROVE  DevRead(r[1], r[2])
<1> DEFINE s == r[1]
           n == r[2]
<1>0. s \in Sectors /\ LineOf(s) \in Lines /\ n \in Nat
  BY SpanIsSectors, LineExists, CacheAssumption
<1>1. CASE Refuse("read", s, n, <<>>)
  BY <1>1 DEF Refuse, Refusal, DevRead
<1>2. CASE n = 1 /\ ReadHit(s)
  <2> DEFINE d == <<cache_buffer[LineOf(s)]>>
  <2>1. d \in Buffers(n)
    BY <1>0, <1>2 DEF Inv, TypeOK, Buffers
  <2>2. changed \/ d = Contents(medium, s, n)
    <3>1. SUFFICES ASSUME ~changed PROVE d = Contents(medium, s, n)
      OBVIOUS
    <3>2. cached_blocks[LineOf(s)] # NoBlock
      BY <1>0, <1>2 DEF ReadHit, NoBlock, Sectors
    <3>3. cache_buffer[LineOf(s)] = medium[s]
      BY <1>0, <1>2, <3>1, <3>2 DEF Inv, LinesMatchTags, ReadHit
    <3>4. \A i \in 1 .. 1 : s + i - 1 = s
      BY <1>0 DEF Sectors
    <3> QED
      BY <1>2, <3>3, <3>4 DEF Contents
  <2> QED
    BY <1>2, <2>1, <2>2 DEF DevRead, ReadHit
<1>3. CASE n = 1 /\ ReadMiss(s)
  <2>1. <<medium[s]>> \in Buffers(n)
    BY <1>0, <1>3 DEF Inv, TypeOK, Buffers
  <2>2. \A i \in 1 .. 1 : s + i - 1 = s
    BY <1>0 DEF Sectors
  <2>3. <<medium[s]>> = Contents(medium, s, n)
    BY <1>3, <2>2 DEF Contents
  <2> QED
    BY <1>3, <2>1, <2>3 DEF DevRead, ReadMiss
<1>4. CASE n = 1 /\ ReadMissFails(s)
  BY <1>4 DEF DevRead, ReadMissFails
<1>5. CASE ReadMany(s, n)
  <2>1. Contents(medium, s, n) \in Buffers(n)
    <3>1. ASSUME NEW i \in 1 .. n PROVE medium[s + i - 1] \in Values
      <4>1. s + i - 1 \in Span(s, n)
        BY <1>0 DEF Span, Sectors
      <4> QED
        BY <4>1, SpanIsSectors DEF Inv, TypeOK
    <3> QED
      BY <3>1 DEF Contents, Buffers
  <2> QED
    BY <1>5, <2>1 DEF DevRead, ReadMany
<1> QED
  BY <1>1, <1>2, <1>3, <1>4, <1>5 DEF Read

\* A write that fails spoils the lines it went through.
LEMMA WriteIsDevWrite ==
    ASSUME spoilt' = {}, NEW r \in Requests, NEW data \in Buffers(r[2]), Write(r[1], data)
    PROVE  DevWrite(r[1], data)
<1>1. r[1] \in Nat /\ r[2] \in Nat /\ Len(data) = r[2]
  BY SpanIsSectors, CacheAssumption DEF Sectors, Buffers
<1>2. LineOf(r[1]) \in Touched(r[1], Len(data))
  BY <1>1 DEF Write, Touched, Span
<1>3. medium' = Stored(medium, r[1], data)
  BY <1>2 DEF Write
<1> QED
  BY <1>3 DEF Write, DevWrite

\* A refused write is a write of the disk that failed.
LEMMA RefusedIsDevWrite ==
    ASSUME NEW r \in Requests, NEW data \in Buffers(r[2]), Refuse("write", r[1], r[2], data)
    PROVE  DevWrite(r[1], data)
BY DEF Refuse, Refusal, DevWrite

\* The cached disk is the disk of diskio.h while no line is spoilt: a refinement, for
\* every size of disk and cache, with every fault of the driver below.
THEOREM CacheIsTransparent == Spec => ImplementsDisk
<1>1. Init => DevInit /\ Inv
  BY InitInv DEF Init
<1>2. Inv /\ [Next]_vars => [spoilt = {} /\ spoilt' = {} => DevNext]_diskVars
  <2> SUFFICES ASSUME Inv, [Next]_vars, spoilt = {}, spoilt' = {} PROVE [DevNext]_diskVars
    OBVIOUS
  <2>1. CASE Initialize
    BY <2>1 DEF Initialize, DevNext, DevInitialize
  <2>2. ASSUME NEW r \in Requests, Read(r[1], r[2]) PROVE DevNext
    BY <2>2, ReadIsDevRead DEF DevNext
  <2>3. ASSUME NEW r \in Requests, NEW data \in Buffers(r[2]),
               Refuse("write", r[1], r[2], data) \/ Write(r[1], data)
        PROVE  DevNext
    <3>1. DevWrite(r[1], data)
      BY <2>3, WriteIsDevWrite, RefusedIsDevWrite
    <3> QED
      BY <3>1 DEF DevNext
  <2>4. CASE Exchange
    BY <2>4 DEF Exchange, DevNext, DevExchange
  <2>5. CASE UNCHANGED vars
    BY <2>5 DEF vars, diskVars
  <2> QED
    BY <2>1, <2>2, <2>3, <2>4, <2>5 DEF Next
<1>3. Inv /\ [Next]_vars => Inv'
  BY NextInv
<1> QED
  BY <1>1, <1>2, <1>3, PTL DEF Spec, ImplementsDisk
=============================================================================

----------------------------- MODULE UartRxProofs -----------------------------
(***************************************************************************)
(* Proofs about UartRx for every size of the ring and of its buffers, every *)
(* set of payloads, with and without losses on the line.  That aux_poll     *)
(* hands over what was sent is not inductive: Inv says where in the ring    *)
(* each waiting packet lies, and how much of the one on the line is in it.  *)
(***************************************************************************)
EXTENDS UartRx, SequenceTheorems, TLAPS

\* Payload p lies whole in buffer i.
Stored(i, p) ==
  /\ i # Outside
  /\ Len(p) < Offsets
  /\ buffers[i][DataLen] = Len(p)
  /\ \A j \in 1 .. Len(p) : buffers[i][j - 1] = p[j]

\* The indices count the waiting packets, and each of them is in its buffer.  The
\* one aux_poll works on is still among them; if they fill the ring it is spoilt.
QueueInv ==
  /\ EveryPacketOnce
  /\ pc = "poll" => Len(expected) < Indices
  /\ pc # "poll" => Len(expected) > 0
  /\ Len(expected) = Indices => ~expected[1].whole
  /\ \A k \in 1 .. Len(expected) :
       expected[k].whole => Stored(Ahead(rxitail, k - 1), expected[k].payload)

\* What the handler has seen of a clean packet is in the buffer it fills.
LineInv ==
  line.clean =>
    /\ Framable(line.payload)
    /\ line.next > 0 =>
         /\ rxhead = line.next - 1
         /\ rxihead # Outside =>
              \A j \in 1 .. line.next - 1 : buffers[rxihead][j - 1] = line.payload[j]

\* What aux_poll has copied is the beginning of the packet.
ReaderInv ==
  /\ pc \in {"poll", "alloc"} => pbuf = <<>>
  /\ pc \in {"copy", "recv"} /\ expected[1].whole =>
       LET p == expected[1].payload IN
       /\ room = Len(p)
       /\ Len(pbuf) <= Len(p)
       /\ \A j \in 1 .. Len(pbuf) : pbuf[j] = p[j]
       /\ pc = "recv" => Len(pbuf) = Len(p)

Inv == TypeOK /\ QueueInv /\ LineInv /\ ReaderInv

--------------------------------------------------------------------------------
(* Counting around the ring *)

Index == 0 .. Indices - 1

\* Going nowhere, one further, and once around.
LEMMA AheadSteps ==
  ASSUME NEW i \in Index, NEW k \in 0 .. Indices
  PROVE  /\ Ahead(i, k) \in Index
         /\ Ahead(i, 0) = i
         /\ Wrap(i, Indices) \in Index
         /\ k < Indices => /\ Wrap(Ahead(i, k), Indices) = Ahead(i, k + 1)
                          /\ Ahead(Wrap(i, Indices), k) = Ahead(i, k + 1)
         /\ Ahead(i, Indices) = i
BY UartAssumption DEF Ahead, Wrap, Index

\* The handler's buffer is not that of a waiting packet, unless the ring is full
\* and the packet is the oldest.
LEMMA AheadDiffers ==
  ASSUME NEW i \in Index, NEW k \in Nat, NEW n \in 0 .. Indices,
         k < n, n = Indices => k # 0
  PROVE  Ahead(i, k) # Ahead(i, n)
BY UartAssumption DEF Ahead, Index

\* Every payload is a sequence of bytes and frame bytes.
LEMMA PayloadType ==
  ASSUME NEW p \in Payloads \union {<<>>}
  PROVE  /\ p \in Seq(Bytes \union {Open, Close})
         /\ Len(p) \in Nat
         /\ DOMAIN p = 1 .. Len(p)
<1>1. p \in Seq(Bytes \union {Open, Close})
  <2>1. CASE p \in Payloads
    BY <2>1, UartAssumption
  <2>2. CASE p = <<>>
    BY <2>2, EmptySeq
  <2>3. QED
    BY <2>1, <2>2
<1>2. QED
  BY <1>1, LenProperties

\* Spoiling the oldest packet leaves the others.
LEMMA SpoilFirst ==
  ASSUME NEW s \in Seq(Packet), Len(s) > 0
  PROVE  /\ [s EXCEPT ![1] = Spoilt] \in Seq(Packet)
         /\ Len([s EXCEPT ![1] = Spoilt]) = Len(s)
         /\ \A j \in 1 .. Len(s) :
              [s EXCEPT ![1] = Spoilt][j] = IF j = 1 THEN Spoilt ELSE s[j]
<1>1. Spoilt \in Packet
  BY DEF Spoilt, Packet
<1>2. 1 \in 1 .. Len(s)
  BY LenProperties
<1>3. QED
  BY <1>1, <1>2, ExceptSeq

\* What completing a packet makes of the waiting ones: it is the last of them, or
\* they are lost; nothing becomes whole that was not.
LEMMA CompletedShape ==
  ASSUME TypeOK, QueueInv, NEW p \in Packet, pc # "lost"
  PROVE  LET q == Completed(p) IN
         /\ q \in Seq(Packet)
         /\ Len(q) \in 0 .. Indices
         /\ Ahead(rxitail, Len(q)) = Wrap(rxihead, Indices)
         /\ pc = "poll" => Len(q) < Indices
         /\ pc # "poll" => Len(q) > 0
         /\ Len(q) = Indices => ~q[1].whole
         /\ \A k \in 1 .. Len(q) : q[k].whole =>
              \/ k <= Len(expected) /\ q[k] = expected[k]
              \/ k = Len(expected) + 1 /\ k <= Indices /\ q[k] = p
<1> DEFINE all == Append(expected, p)
           q == Completed(p)
<1>1. /\ expected \in Seq(Packet) /\ Len(expected) \in 0 .. Indices
      /\ rxitail \in Index /\ rxihead \in Index
      /\ rxihead = Ahead(rxitail, Len(expected))
      /\ Indices \in Nat /\ Indices > 1
  <2>1. expected \in Seq(Packet) /\ Len(expected) <= Indices
    BY DEF TypeOK
  <2>2. Len(expected) \in Nat
    BY <2>1, LenProperties
  <2>3. rxitail \in Index /\ rxihead \in Index
    BY DEF TypeOK, Index
  <2>4. rxihead = Ahead(rxitail, Len(expected))
    BY DEF QueueInv, EveryPacketOnce
  <2>5. QED
    BY <2>1, <2>2, <2>3, <2>4, UartAssumption
<1>2. /\ all \in Seq(Packet)
      /\ Len(all) = Len(expected) + 1
      /\ \A k \in 1 .. Len(expected) : all[k] = expected[k]
      /\ all[Len(expected) + 1] = p
  BY <1>1, AppendProperties
<1>3. Spoilt \in Packet /\ ~Spoilt.whole
  BY DEF Spoilt, Packet
<1>4. CASE Len(all) < Indices
  <2>1. q = all
    BY <1>4 DEF Completed
  <2>2. Ahead(rxitail, Len(all)) = Wrap(rxihead, Indices)
    BY <1>1, <1>2, <1>4 DEF Ahead, Wrap, Index
  <2>3. QED
    BY <1>1, <1>2, <1>4, <2>1, <2>2
<1>5. CASE Len(all) >= Indices /\ pc = "poll"
  <2>1. q = <<>>
    BY <1>1, <1>2, <1>5 DEF Completed
  <2>2. Len(expected) = Indices - 1
    BY <1>1, <1>2, <1>5 DEF QueueInv
  <2>3. Wrap(rxihead, Indices) = rxitail
    BY <1>1, <2>2 DEF Ahead, Wrap, Index
  <2>4. Ahead(rxitail, 0) = rxitail
    BY <1>1, AheadSteps
  <2>5. q \in Seq(Packet) /\ Len(q) = 0
    BY <2>1, EmptySeq
  <2>6. QED
    BY <1>1, <1>5, <2>3, <2>4, <2>5
<1>6. CASE Len(all) = Indices /\ pc # "poll"
  <2>1. q = [all EXCEPT ![1] = Spoilt]
    BY <1>1, <1>2, <1>6 DEF Completed
  <2>2. /\ q \in Seq(Packet)
        /\ Len(q) = Indices
        /\ \A j \in 1 .. Indices : q[j] = IF j = 1 THEN Spoilt ELSE all[j]
    <3>1. Len(all) > 0
      BY <1>1, <1>2
    <3>2. /\ [all EXCEPT ![1] = Spoilt] \in Seq(Packet)
          /\ Len([all EXCEPT ![1] = Spoilt]) = Len(all)
          /\ \A j \in 1 .. Len(all) :
               [all EXCEPT ![1] = Spoilt][j] = IF j = 1 THEN Spoilt ELSE all[j]
      BY <1>2, <3>1, SpoilFirst
    <3>3. QED
      BY <1>6, <2>1, <3>2
  <2>3. Ahead(rxitail, Indices) = Wrap(rxihead, Indices)
    BY <1>1, <1>2, <1>6 DEF Ahead, Wrap, Index
  <2>4. Len(expected) > 0
    BY <1>6 DEF QueueInv
  <2>5. ASSUME NEW k \in 1 .. Len(q), q[k].whole
        PROVE  \/ k <= Len(expected) /\ q[k] = expected[k]
               \/ k = Len(expected) + 1 /\ k <= Indices /\ q[k] = p
    <3>1. k # 1 /\ q[k] = all[k]
      BY <1>1, <1>3, <2>2, <2>5
    <3>2. CASE k <= Len(expected)
      BY <1>2, <3>1, <3>2, <1>1
    <3>3. CASE k > Len(expected)
      <4>1. k = Indices
        BY <1>1, <1>2, <1>6, <2>2, <3>3
      <4>2. all[k] = p /\ k = Len(expected) + 1
        BY <1>1, <1>2, <1>6, <4>1
      <4>3. QED
        BY <4>1, <4>2, <3>1
    <3>4. QED
      BY <3>2, <3>3, <1>1
  <2>6. QED
    BY <1>1, <1>3, <1>6, <2>2, <2>3, <2>5
<1>7. CASE Len(all) > Indices /\ pc # "poll"
  <2>1. q = <<Spoilt>>
    BY <1>1, <1>2, <1>7 DEF Completed
  <2>2. q \in Seq(Packet) /\ Len(q) = 1 /\ q[1] = Spoilt
    BY <1>3, <2>1
  <2>3. rxihead = rxitail
    <3>1. Len(expected) = Indices
      BY <1>1, <1>2, <1>7
    <3>2. QED
      BY <1>1, <3>1, AheadSteps
  <2>4. Ahead(rxitail, 1) = Wrap(rxihead, Indices)
    BY <1>1, <2>3 DEF Ahead, Wrap, Index
  <2>5. QED
    BY <1>1, <1>3, <1>7, <2>2, <2>4
<1>8. QED
  BY <1>1, <1>2, <1>4, <1>5, <1>6, <1>7

--------------------------------------------------------------------------------
(* What a step may assume *)

\* The waiting packets and the indices, as far as every step needs them.
LEMMA QueueFacts ==
  ASSUME TypeOK
  PROVE  /\ expected \in Seq(Packet) /\ Len(expected) \in 0 .. Indices
         /\ \A k \in 1 .. Len(expected) :
              /\ expected[k] \in Packet
              /\ expected[k].payload \in Payloads \union {<<>>}
              /\ Len(expected[k].payload) \in Nat
         /\ rxitail \in Index /\ rxihead \in Index
         /\ Indices \in Nat /\ Indices > 1
<1>1. expected \in Seq(Packet) /\ Len(expected) <= Indices
  BY DEF TypeOK
<1>2. Len(expected) \in Nat
  BY <1>1, LenProperties
<1>3. ASSUME NEW k \in 1 .. Len(expected)
      PROVE  /\ expected[k] \in Packet
             /\ expected[k].payload \in Payloads \union {<<>>}
             /\ Len(expected[k].payload) \in Nat
  <2>1. expected[k] \in Packet
    BY <1>1, <1>3, ElementOfSeq
  <2>2. expected[k].payload \in Payloads \union {<<>>}
    BY <2>1 DEF Packet
  <2>3. QED
    BY <2>1, <2>2, PayloadType
<1>4. QED
  BY <1>1, <1>2, <1>3, UartAssumption DEF TypeOK, Index

\* The handler fills a buffer in which no whole packet waits.
LEMMA HandlerOwnsBuffer ==
  ASSUME TypeOK, QueueInv, NEW k \in 1 .. Len(expected), expected[k].whole
  PROVE  Ahead(rxitail, k - 1) # rxihead
<1>1. Len(expected) = Indices => k - 1 # 0
  BY DEF QueueInv
<1>2. rxihead = Ahead(rxitail, Len(expected))
  BY DEF QueueInv, EveryPacketOnce
<1>3. QED
  BY <1>1, <1>2, QueueFacts, AheadDiffers

\* A write to the handler's buffer leaves the packets that wait.
LEMMA WaitingKept ==
  ASSUME TypeOK, QueueInv, NEW k \in 1 .. Len(expected), expected[k].whole,
         rxitail' = rxitail, expected'[k] = expected[k],
         \A i \in Index : i # rxihead /\ i # Outside => buffers'[i] = buffers[i]
  PROVE  Stored(Ahead(rxitail, k - 1), expected[k].payload)'
<1> DEFINE i == Ahead(rxitail, k - 1)
           p == expected[k].payload
<1>1. i \in Index /\ i # rxihead
  BY HandlerOwnsBuffer, QueueFacts, AheadSteps
<1>2. Stored(i, p) /\ i # Outside
  BY DEF QueueInv, Stored
<1>3. buffers'[i] = buffers[i] /\ Len(p) \in Nat
  BY <1>1, <1>2, QueueFacts
<1>4. QED
  BY <1>2, <1>3 DEF Stored, Ahead

\* A byte arrives.  Of a clean packet it is the one in its place, and after it the
\* packet is still clean unless it was the last.
LEMMA ArrivalFacts ==
  ASSUME TypeOK, LineInv, NEW b, Arrives(b)
  PROVE  /\ line' \in [payload : Payloads \union {<<>>}, next : Nat, clean : BOOLEAN]
         /\ line'.next <= Len(line'.payload) + 1 \/ line' = Idle
         /\ pc # "lost"
         /\ line.clean =>
              /\ Len(line.payload) \in 0 .. Offsets - 1
              /\ b = Open => line.next = 0
              /\ b = Close => line.next = Len(line.payload) + 1
              /\ b \in Bytes => /\ line.next \in 1 .. Len(line.payload)
                               /\ line.payload[line.next] = b
         /\ line'.clean => /\ line.clean
                           /\ line'.payload = line.payload
                           /\ line'.next = line.next + 1
                           /\ line.next <= Len(line.payload)
<1>1. /\ line.payload \in Payloads \union {<<>>}
      /\ line.next \in Nat /\ line.clean \in BOOLEAN
      /\ line \in [payload : Payloads \union {<<>>}, next : Nat, clean : BOOLEAN]
  BY DEF TypeOK
<1>2. /\ line.payload \in Seq(Bytes \union {Open, Close})
      /\ Len(line.payload) \in Nat
      /\ DOMAIN line.payload = 1 .. Len(line.payload)
  BY <1>1, PayloadType
<1>3. /\ line' = Shifted /\ b = ByteOnLine /\ pc # "lost"
      /\ line.next < Len(line.payload) + 2
  BY DEF Arrives
<1>4. Idle \in [payload : Payloads \union {<<>>}, next : Nat, clean : BOOLEAN]
      /\ ~Idle.clean
  BY DEF Idle
<1>5. /\ line' \in [payload : Payloads \union {<<>>}, next : Nat, clean : BOOLEAN]
      /\ line'.next <= Len(line'.payload) + 1 \/ line' = Idle
      /\ line'.clean => /\ line.clean
                        /\ line'.payload = line.payload
                        /\ line'.next = line.next + 1
                        /\ line.next <= Len(line.payload)
  <2>1. CASE line.next > Len(line.payload)
    BY <1>1, <1>2, <1>3, <1>4, <2>1 DEF Shifted
  <2>2. CASE line.next <= Len(line.payload)
    <3>1. line' = [line EXCEPT !.next = line.next + 1]
      BY <1>1, <1>2, <1>3, <2>2 DEF Shifted
    <3>2. /\ line'.payload = line.payload /\ line'.next = line.next + 1
          /\ line'.clean = line.clean
          /\ line' \in [payload : Payloads \union {<<>>}, next : Nat, clean : BOOLEAN]
      BY <1>1, <3>1
    <3>3. QED
      BY <1>1, <1>2, <2>2, <3>2
  <2>3. QED
    BY <1>1, <1>2, <2>1, <2>2
<1>7. ASSUME line.clean
      PROVE  /\ Len(line.payload) \in 0 .. Offsets - 1
             /\ b = Open => line.next = 0
             /\ b = Close => line.next = Len(line.payload) + 1
             /\ b \in Bytes => /\ line.next \in 1 .. Len(line.payload)
                              /\ line.payload[line.next] = b
  <2>1. /\ Len(line.payload) < Offsets
        /\ \A k \in 1 .. Len(line.payload) : line.payload[k] \notin {Open, Close}
    BY <1>2, <1>7 DEF LineInv, Framable
  <2>2. Open \notin Bytes /\ Close \notin Bytes /\ Open # Close
    BY UartAssumption
  <2>3. CASE line.next = 0
    BY <1>2, <1>3, <2>1, <2>2, <2>3, UartAssumption DEF ByteOnLine
  <2>4. CASE line.next \in 1 .. Len(line.payload)
    <3>1. b = line.payload[line.next]
      BY <1>2, <1>3, <2>4 DEF ByteOnLine
    <3>2. QED
      BY <1>2, <2>1, <2>4, <3>1, UartAssumption
  <2>5. CASE line.next = Len(line.payload) + 1
    <3>1. b = Close
      BY <1>2, <1>3, <2>5 DEF ByteOnLine
    <3>2. QED
      BY <1>2, <2>1, <2>2, <2>5, <3>1, UartAssumption
  <2>6. QED
    BY <1>1, <1>2, <1>3, <2>3, <2>4, <2>5
<1>8. QED
  BY <1>3, <1>5, <1>7

\* A write of one byte: the buffers keep their type and every other byte.
LEMMA WriteFacts ==
  ASSUME TypeOK, NEW o \in Bytes, NEW c \in Bytes,
         buffers' = IF rxihead = Outside THEN buffers
                                         ELSE [buffers EXCEPT ![rxihead][o] = c]
  PROVE  /\ buffers' \in [0 .. Indices - 2 -> [Bytes -> Bytes]]
         /\ \A i \in Index : i # rxihead /\ i # Outside => buffers'[i] = buffers[i]
         /\ rxihead # Outside =>
              \A x \in Bytes : buffers'[rxihead][x] = IF x = o THEN c ELSE buffers[rxihead][x]
<1>1. buffers \in [0 .. Indices - 2 -> [Bytes -> Bytes]] /\ rxihead \in Index
  BY DEF TypeOK, Index
<1>2. Indices \in Nat /\ Indices > 1 /\ Outside = Indices - 1
  BY UartAssumption DEF Outside
<1>3. CASE rxihead = Outside
  BY <1>1, <1>3
<1>4. CASE rxihead # Outside
  <2>1. rxihead \in 0 .. Indices - 2
    BY <1>1, <1>2, <1>4 DEF Index
  <2>2. buffers' = [buffers EXCEPT ![rxihead] = [buffers[rxihead] EXCEPT ![o] = c]]
    BY <1>4
  <2>3. [buffers[rxihead] EXCEPT ![o] = c] \in [Bytes -> Bytes]
    BY <1>1, <2>1
  <2>4. \A i \in Index : i # Outside => i \in 0 .. Indices - 2
    BY <1>2 DEF Index
  <2>5. QED
    BY <1>1, <2>1, <2>2, <2>3, <2>4
<1>5. QED
  BY <1>3, <1>4

\* The bytes the handler and aux_poll handle are in range.
LEMMA ByteFacts ==
  ASSUME TypeOK
  PROVE  /\ DataLen \in Bytes
         /\ 0 \in Bytes
         /\ Wrap(rxhead, Offsets) \in Bytes
         /\ \A i \in Index, o \in Bytes : Reads(i, o) \subseteq Bytes
<1>1. /\ buffers \in [0 .. Indices - 2 -> [Bytes -> Bytes]]
      /\ rxhead \in Bytes
      /\ Offsets \in Nat /\ Offsets > 1 /\ Indices \in Nat
  BY UartAssumption DEF TypeOK
<1>2. DataLen \in Bytes /\ 0 \in Bytes /\ Wrap(rxhead, Offsets) \in Bytes
  BY <1>1 DEF DataLen, Bytes, Wrap
<1>3. ASSUME NEW i \in Index, NEW o \in Bytes
      PROVE  Reads(i, o) \subseteq Bytes
  <2>1. CASE i = Outside
    BY <1>2, <2>1 DEF Reads
  <2>2. CASE i # Outside
    <3>1. i \in 0 .. Indices - 2
      BY <1>1, <2>2 DEF Index, Outside
    <3>2. buffers[i][o] \in Bytes
      BY <1>1, <3>1
    <3>3. QED
      BY <2>2, <3>2 DEF Reads
  <2>3. QED
    BY <2>1, <2>2
<1>4. QED
  BY <1>2, <1>3

\* What the handler completes counts as a packet of the queue.
LEMMA ClosedIsPacket ==
  ASSUME TypeOK, ReceiveClose
  PROVE  \E p \in Packet :
           /\ expected' = Completed(p)
           /\ p.whole => line.clean /\ rxihead # Outside /\ p.payload = line.payload
<1> DEFINE p == IF line.clean /\ rxihead # Outside
                THEN [payload |-> line.payload, whole |-> TRUE] ELSE Spoilt
<1>1. p \in Packet
  BY DEF TypeOK, Packet, Spoilt
<1>2. p.whole => line.clean /\ rxihead # Outside /\ p.payload = line.payload
  BY DEF Spoilt
<1>3. expected' = Completed(p)
  BY DEF ReceiveClose
<1>4. QED
  BY <1>1, <1>2, <1>3

--------------------------------------------------------------------------------
(* Types *)

\* The program starts with empty buffers and indices at 0.
LEMMA InitInv == Init => Inv
<1> SUFFICES ASSUME Init PROVE Inv
  OBVIOUS
<1>1. expected = <<>> /\ Len(expected) = 0 /\ expected \in Seq(Packet)
  BY EmptySeq DEF Init
<1>2. TypeOK
  <2>1. pbuf \in Seq(Bytes)
    BY EmptySeq DEF Init
  <2>2. line = Idle
        /\ line \in [payload : Payloads \union {<<>>}, next : Nat, clean : BOOLEAN]
    BY DEF Init, Idle
  <2>3. 0 \in Bytes /\ 0 \in 0 .. Indices - 1
    BY UartAssumption DEF Bytes
  <2>4. buffers \in [0 .. Indices - 2 -> [Bytes -> Bytes]]
    BY <2>3 DEF Init, Blank
  <2>5. QED
    BY <1>1, <2>1, <2>2, <2>3, <2>4, UartAssumption DEF Init, TypeOK
<1>3. QueueInv
  <2>1. EveryPacketOnce
    BY <1>1, UartAssumption DEF Init, EveryPacketOnce, Ahead
  <2>2. QED
    BY <1>1, <2>1, UartAssumption DEF Init, QueueInv
<1>4. LineInv
  BY DEF Init, LineInv, Idle
<1>5. ReaderInv
  BY DEF Init, ReaderInv
<1>6. QED
  BY <1>2, <1>3, <1>4, <1>5 DEF Inv

\* One step keeps every index in its mask, however the ring stands.
LEMMA NextTypeOK ==
  ASSUME Inv, [Next]_vars
  PROVE  TypeOK'
<1> USE DEF At
<1>1. TypeOK /\ QueueInv /\ LineInv
  BY DEF Inv
<1>2. CASE StartPacket
  <2>1. PICK p \in Payloads : line' = [payload |-> p, next |-> 0, clean |-> Framable(p)]
    BY <1>2 DEF StartPacket
  <2>2. Len(p) \in Nat
    BY PayloadType
  <2>3. Framable(p) \in BOOLEAN
    BY DEF Framable
  <2>4. /\ line' \in [payload : Payloads \union {<<>>}, next : Nat, clean : BOOLEAN]
        /\ line'.next <= Len(line'.payload) + 1
    BY <2>1, <2>2, <2>3
  <2>5. QED
    BY <1>1, <1>2, <2>4 DEF StartPacket, TypeOK, ring, past, poll
<1>3. CASE LoseByte
  <2>1. /\ line' \in [payload : Payloads \union {<<>>}, next : Nat, clean : BOOLEAN]
        /\ line'.next <= Len(line'.payload) + 1 \/ line' = Idle
    <3>1. Len(line.payload) \in Nat
      BY <1>1, PayloadType DEF TypeOK
    <3>2. line' = [Shifted EXCEPT !.clean = FALSE]
      BY <1>3 DEF LoseByte
    <3>3. CASE line.next > Len(line.payload)
      <4>1. Shifted = Idle
        BY <3>3 DEF Shifted
      <4>2. line' = Idle
        BY <3>2, <4>1 DEF Idle
      <4>3. QED
        BY <4>2 DEF Idle
    <3>4. CASE line.next <= Len(line.payload)
      <4>1. Shifted = [line EXCEPT !.next = line.next + 1]
        BY <1>1, <3>1, <3>4 DEF Shifted, TypeOK
      <4>2. /\ line' \in [payload : Payloads \union {<<>>}, next : Nat, clean : BOOLEAN]
            /\ line'.payload = line.payload /\ line'.next = line.next + 1
        <5>1. Shifted \in [payload : Payloads \union {<<>>}, next : Nat, clean : BOOLEAN]
              /\ Shifted.payload = line.payload /\ Shifted.next = line.next + 1
          BY <1>1, <4>1 DEF TypeOK
        <5>2. QED
          BY <3>2, <5>1
      <4>3. QED
        BY <1>1, <3>1, <3>4, <4>2 DEF TypeOK
    <3>5. QED
      BY <1>1, <3>1, <3>3, <3>4 DEF TypeOK
  <2>2. QED
    BY <1>1, <1>3, <2>1 DEF LoseByte, TypeOK, ring, past, poll
<1>4. CASE ReceiveOpen
  BY <1>1, <1>4, ArrivalFacts, ByteFacts DEF ReceiveOpen, TypeOK, past, poll
<1>5. CASE ReceiveData
  <2>1. PICK c \in Bytes : Arrives(c) /\ Store(c) /\ rxhead' = Wrap(rxhead, Offsets)
    BY <1>5 DEF ReceiveData
  <2>2. UNCHANGED <<rxihead, rxitail, poll, expected>>
    BY <1>5 DEF ReceiveData
  <2>3. rxhead \in Bytes /\ leState \in Bytes /\ recvOk \in BOOLEAN
    BY <1>1 DEF TypeOK
  <2>4. buffers' = IF rxihead = Outside THEN buffers
                                        ELSE [buffers EXCEPT ![rxihead][rxhead] = c]
    BY <2>1 DEF Store
  <2>5. leState' \in Bytes /\ recvOk' \in BOOLEAN
    BY <2>1, <2>3 DEF Store, past
  <2>6. buffers' \in [0 .. Indices - 2 -> [Bytes -> Bytes]]
    BY <1>1, <2>3, <2>4, WriteFacts
  <2>7. /\ line' \in [payload : Payloads \union {<<>>}, next : Nat, clean : BOOLEAN]
        /\ line'.next <= Len(line'.payload) + 1 \/ line' = Idle
    BY <1>1, <2>1, ArrivalFacts
  <2>8. QED
    BY <1>1, <2>1, <2>2, <2>5, <2>6, <2>7, ByteFacts DEF TypeOK, poll
<1>6. CASE ReceiveClose
  <2>1. /\ line' \in [payload : Payloads \union {<<>>}, next : Nat, clean : BOOLEAN]
        /\ line'.next <= Len(line'.payload) + 1 \/ line' = Idle
        /\ pc # "lost"
    BY <1>1, <1>6, ArrivalFacts DEF ReceiveClose
  <2>2. buffers' \in [0 .. Indices - 2 -> [Bytes -> Bytes]]
    BY <1>1, <1>6, WriteFacts, ByteFacts DEF ReceiveClose, TypeOK
  <2>3. rxihead' \in 0 .. Indices - 1
    BY <1>1, <1>6, AheadSteps, UartAssumption DEF ReceiveClose, TypeOK, Index
  <2>4. expected' \in Seq(Packet) /\ Len(expected') <= Indices
    <3>1. PICK p \in Packet : expected' = Completed(p)
      BY <1>1, <1>6, ClosedIsPacket DEF ReceiveClose
    <3>2. QED
      BY <1>1, <2>1, <3>1, CompletedShape
  <2>5. QED
    BY <1>1, <1>6, <2>1, <2>2, <2>3, <2>4 DEF ReceiveClose, TypeOK, past, poll
<1>7. CASE AuxTest
  BY <1>1, <1>7 DEF AuxTest, TypeOK, ring, past
<1>8. CASE AuxAlloc
  <2>1. room' \in Bytes
    BY <1>1, <1>8, ByteFacts, QueueFacts DEF AuxAlloc
  <2>2. QED
    BY <1>1, <1>8, <2>1 DEF AuxAlloc, TypeOK, ring, past
<1>9. CASE AuxCopy
  <2>1. Len(pbuf) \in Nat /\ pbuf \in Seq(Bytes)
    BY <1>1, LenProperties DEF TypeOK
  <2>2. PICK n \in Reads(rxitail, DataLen) : Len(pbuf) < n
    BY <1>9 DEF AuxCopy
  <2>3. n \in Bytes
    BY <1>1, <2>2, ByteFacts, QueueFacts
  <2>4. Len(pbuf) \in Bytes
    BY <2>1, <2>2, <2>3, UartAssumption DEF Bytes
  <2>5. PICK c \in Reads(rxitail, Len(pbuf)) : pbuf' = Append(pbuf, c)
    BY <1>9 DEF AuxCopy
  <2>6. c \in Bytes
    BY <1>1, <2>4, <2>5, ByteFacts, QueueFacts
  <2>7. pbuf' \in Seq(Bytes)
    BY <2>1, <2>5, <2>6, AppendProperties
  <2>8. QED
    BY <1>1, <1>9, <2>7 DEF AuxCopy, TypeOK, ring, past
<1>10. CASE AuxCopied
  BY <1>1, <1>10 DEF AuxCopied, TypeOK, ring, past
<1>11. CASE AuxRecv
  BY <1>1, <1>11 DEF AuxRecv, TypeOK, ring, past
<1>12. CASE AuxDerails
  BY <1>1, <1>12 DEF AuxDerails, TypeOK, ring, past
<1>13. CASE AuxAdvance
  <2>1. expected # <<>>
    BY <1>1, <1>13, EmptySeq DEF AuxAdvance, QueueInv
  <2>2. expected' \in Seq(Packet) /\ Len(expected') = Len(expected) - 1
    BY <1>1, <1>13, <2>1, QueueFacts, HeadTailProperties DEF AuxAdvance
  <2>3. Len(expected') <= Indices
    BY <1>1, <2>2, QueueFacts
  <2>4. rxitail' \in 0 .. Indices - 1
    BY <1>1, <1>13, AheadSteps, UartAssumption DEF AuxAdvance, TypeOK, Index
  <2>5. pbuf' \in Seq(Bytes) /\ room' \in Bytes
    BY <1>1, <1>13, EmptySeq, ByteFacts DEF AuxAdvance
  <2>6. QED
    BY <1>1, <1>13, <2>2, <2>3, <2>4, <2>5 DEF AuxAdvance, TypeOK, past
<1>14. CASE WatchdogReset
  <2>1. pbuf' \in Seq(Bytes) /\ expected' \in Seq(Packet) /\ Len(expected') = 0
    BY <1>14, EmptySeq DEF WatchdogReset
  <2>2. 0 \in Bytes /\ 0 \in 0 .. Indices - 1 /\ 0 <= Indices
    BY UartAssumption DEF Bytes
  <2>3. buffers' \in [0 .. Indices - 2 -> [Bytes -> Bytes]]
    BY <1>14, <2>2 DEF WatchdogReset, Blank
  <2>4. /\ line' \in [payload : Payloads \union {<<>>}, next : Nat, clean : BOOLEAN]
        /\ line'.next <= Len(line'.payload) + 1 \/ line' = Idle
    <3>1. /\ line' \in [payload : Payloads \union {<<>>}, next : Nat, clean : BOOLEAN]
          /\ line'.payload = line.payload /\ line'.next = line.next
      BY <1>1, <1>14 DEF WatchdogReset, TypeOK
    <3>2. ASSUME line = Idle
          PROVE  line' = Idle
      <4>1. line' = [Idle EXCEPT !.clean = FALSE]
        BY <1>14, <3>2 DEF WatchdogReset
      <4>2. QED
        BY ONLY <4>1 DEF Idle
    <3>3. QED
      BY <1>1, <3>1, <3>2 DEF TypeOK
  <2>5. QED
    BY <1>14, <2>1, <2>2, <2>3, <2>4 DEF WatchdogReset, TypeOK
<1>15. CASE UNCHANGED vars
  BY <1>1, <1>15 DEF vars, ring, past, poll, TypeOK
<1>16. QED
  BY <1>2, <1>3, <1>4, <1>5, <1>6, <1>7, <1>8, <1>9, <1>10, <1>11, <1>12, <1>13,
     <1>14, <1>15 DEF Next, AuxPoll

--------------------------------------------------------------------------------
(* The waiting packets stay in their buffers *)

\* The steps that neither write a buffer nor move an index nor end a poll.
LEMMA QueueUntouched ==
  ASSUME QueueInv, UNCHANGED <<expected, rxitail, rxihead, buffers>>,
         pc' = "poll" <=> pc = "poll"
  PROVE  QueueInv'
BY DEF QueueInv, EveryPacketOnce, Stored

\* One step leaves every whole waiting packet as it was received, and the indices
\* around them.
LEMMA NextQueueInv ==
  ASSUME Inv, [Next]_vars
  PROVE  QueueInv'
<1> USE DEF At
<1>1. TypeOK /\ QueueInv /\ LineInv
  BY DEF Inv
<1>2. CASE StartPacket \/ LoseByte \/ ReceiveOpen \/ UNCHANGED vars
  <2>1. UNCHANGED <<expected, rxitail, rxihead, buffers, pc>>
    BY <1>2 DEF StartPacket, LoseByte, ReceiveOpen, vars, ring, poll
  <2>2. QED
    BY <1>1, <2>1, QueueUntouched
<1>3. CASE AuxAlloc \/ AuxCopy \/ AuxCopied \/ AuxRecv \/ AuxDerails
  <2>1. /\ UNCHANGED <<expected, rxitail, rxihead, buffers>>
        /\ pc # "poll" /\ pc' # "poll"
    BY <1>3 DEF AuxAlloc, AuxCopy, AuxCopied, AuxRecv, AuxDerails, ring
  <2>2. QED
    BY <1>1, <2>1, QueueUntouched
<1>4. CASE AuxTest
  <2>1. UNCHANGED <<expected, rxitail, rxihead, buffers>> /\ pc' = "alloc"
    BY <1>4 DEF AuxTest, ring
  <2>2. Len(expected) > 0
    <3>1. rxihead = Ahead(rxitail, Len(expected)) /\ rxihead # rxitail
      BY <1>1, <1>4 DEF QueueInv, EveryPacketOnce, AuxTest
    <3>2. Ahead(rxitail, 0) = rxitail
      BY <1>1, QueueFacts DEF Ahead, Index
    <3>3. QED
      BY <1>1, <3>1, <3>2, QueueFacts
  <2>3. QED
    BY <1>1, <2>1, <2>2 DEF QueueInv, EveryPacketOnce, Stored
<1>5. CASE ReceiveData
  <2>1. PICK c \in Bytes : Store(c)
    BY <1>5 DEF ReceiveData
  <2>2. UNCHANGED <<expected, rxitail, rxihead, pc>>
    BY <1>5 DEF ReceiveData, poll
  <2>3. buffers' = IF rxihead = Outside THEN buffers
                                        ELSE [buffers EXCEPT ![rxihead][rxhead] = c]
    BY <2>1 DEF Store
  <2>4. \A i \in Index : i # rxihead /\ i # Outside => buffers'[i] = buffers[i]
    BY <1>1, <2>3, WriteFacts DEF TypeOK
  <2>5. ASSUME NEW k \in 1 .. Len(expected), expected[k].whole
        PROVE  Stored(Ahead(rxitail, k - 1), expected[k].payload)'
    BY <1>1, <2>2, <2>4, <2>5, WaitingKept
  <2>6. QED
    BY <1>1, <2>2, <2>5 DEF QueueInv, EveryPacketOnce
<1>6. CASE ReceiveClose
  <2>1. PICK p \in Packet :
          /\ expected' = Completed(p)
          /\ p.whole => line.clean /\ rxihead # Outside /\ p.payload = line.payload
    BY <1>1, <1>6, ClosedIsPacket
  <2>2. /\ UNCHANGED <<rxitail, pc>> /\ pc # "lost"
        /\ rxihead' = Wrap(rxihead, Indices)
        /\ buffers' = IF rxihead = Outside THEN buffers
                      ELSE [buffers EXCEPT ![rxihead][DataLen] = rxhead]
    BY <1>6 DEF ReceiveClose, Arrives, poll
  <2>3. rxhead \in Bytes /\ DataLen \in Bytes
    BY <1>1, ByteFacts DEF TypeOK
  <2>4. /\ \A i \in Index : i # rxihead /\ i # Outside => buffers'[i] = buffers[i]
        /\ rxihead # Outside =>
             \A x \in Bytes : buffers'[rxihead][x] =
                               IF x = DataLen THEN rxhead ELSE buffers[rxihead][x]
    BY <1>1, <2>2, <2>3, WriteFacts
  <2>5. /\ Len(expected') \in 0 .. Indices
        /\ Ahead(rxitail, Len(expected')) = Wrap(rxihead, Indices)
        /\ pc = "poll" => Len(expected') < Indices
        /\ pc # "poll" => Len(expected') > 0
        /\ Len(expected') = Indices => ~expected'[1].whole
        /\ \A k \in 1 .. Len(expected') : expected'[k].whole =>
             \/ k <= Len(expected) /\ expected'[k] = expected[k]
             \/ k = Len(expected) + 1 /\ k <= Indices /\ expected'[k] = p
    BY <1>1, <2>1, <2>2, CompletedShape
  <2>6. ASSUME NEW k \in 1 .. Len(expected'), expected'[k].whole
        PROVE  Stored(Ahead(rxitail, k - 1), expected[k].payload)'
    <3>1. CASE k <= Len(expected) /\ expected'[k] = expected[k]
      <4>1. k \in 1 .. Len(expected) /\ expected[k].whole
        BY <1>1, <2>5, <2>6, <3>1, QueueFacts
      <4>2. QED
        BY <1>1, <2>2, <2>4, <3>1, <4>1, WaitingKept
    <3>2. CASE k = Len(expected) + 1 /\ expected'[k] = p
      <4>1. line.clean /\ rxihead # Outside /\ p.payload = line.payload
        BY <2>1, <2>6, <3>2
      <4>2. Ahead(rxitail, k - 1) = rxihead
        BY <1>1, <3>2, QueueFacts DEF QueueInv, EveryPacketOnce
      <4>3. line.next = Len(line.payload) + 1 /\ Len(line.payload) \in 0 .. Offsets - 1
        BY <1>1, <1>6, <4>1, ArrivalFacts DEF ReceiveClose
      <4>4. /\ rxhead = Len(line.payload)
            /\ \A j \in 1 .. Len(line.payload) :
                 buffers[rxihead][j - 1] = line.payload[j]
        BY <1>1, <4>1, <4>3 DEF LineInv
      <4>5. \A j \in 1 .. Len(line.payload) : j - 1 \in Bytes /\ j - 1 # DataLen
        BY <4>3, UartAssumption DEF Bytes, DataLen
      <4>6. /\ buffers'[rxihead][DataLen] = Len(line.payload)
            /\ \A j \in 1 .. Len(line.payload) :
                 buffers'[rxihead][j - 1] = line.payload[j]
        BY <2>3, <2>4, <4>1, <4>4, <4>5
      <4>7. Len(line.payload) < Offsets
        BY <4>3, UartAssumption
      <4>8. QED
        BY <2>2, <3>2, <4>1, <4>2, <4>6, <4>7 DEF Stored, Ahead
    <3>3. QED
      BY <2>5, <2>6, <3>1, <3>2
  <2>7. QED
    BY <2>2, <2>5, <2>6 DEF QueueInv, EveryPacketOnce, Ahead
<1>7. CASE AuxAdvance
  <2>1. expected \in Seq(Packet) /\ expected # <<>> /\ Len(expected) \in 1 .. Indices
    BY <1>1, <1>7, QueueFacts, EmptySeq DEF AuxAdvance, QueueInv
  <2>2. /\ expected' = Tail(expected) /\ rxitail' = Wrap(rxitail, Indices)
        /\ UNCHANGED <<buffers, rxihead>> /\ pc' = "poll"
    BY <1>7 DEF AuxAdvance
  <2>3. /\ Len(expected') = Len(expected) - 1
        /\ \A k \in 1 .. Len(expected') : expected'[k] = expected[k + 1]
    BY <2>1, <2>2, HeadTailProperties
  <2>4. \A k \in 0 .. Indices - 1 : Ahead(rxitail, k)' = Ahead(rxitail, k + 1)
    BY <1>1, <2>2, QueueFacts DEF Ahead, Wrap, Index
  <2>5. EveryPacketOnce'
    <3>1. /\ Len(expected') \in 0 .. Indices - 1
          /\ Len(expected') + 1 = Len(expected)
      BY <2>1, <2>3, UartAssumption
    <3>2. rxihead' = Ahead(rxitail, Len(expected))
      BY <1>1, <2>2 DEF QueueInv, EveryPacketOnce
    <3>3. Ahead(rxitail', Len(expected')) = Ahead(rxitail, Len(expected') + 1)
      BY <1>1, <2>2, <3>1, QueueFacts DEF Ahead, Wrap, Index
    <3>4. QED
      BY <3>1, <3>2, <3>3 DEF EveryPacketOnce, Ahead
  <2>6. ASSUME NEW k \in 1 .. Len(expected'), expected'[k].whole
        PROVE  Stored(Ahead(rxitail, k - 1), expected[k].payload)'
    <3>1. k + 1 \in 1 .. Len(expected) /\ expected'[k] = expected[k + 1]
      BY <2>1, <2>3
    <3>2. Stored(Ahead(rxitail, k), expected[k + 1].payload)
      <4>1. Stored(Ahead(rxitail, (k + 1) - 1), expected[k + 1].payload)
        BY <1>1, <2>6, <3>1 DEF QueueInv
      <4>2. QED
        BY <4>1
    <3>3. Ahead(rxitail, k - 1)' = Ahead(rxitail, k)
      <4>1. k - 1 \in 0 .. Indices - 1
        BY <2>1, <2>3, UartAssumption
      <4>2. Ahead(rxitail, k - 1)' = Ahead(rxitail, (k - 1) + 1)
        BY <2>4, <4>1
      <4>3. QED
        BY <4>2
    <3>4. QED
      BY <2>2, <3>1, <3>2, <3>3 DEF Stored
  <2>7. QED
    <3>1. Len(expected') < Indices /\ Len(expected') # Indices
      BY <2>1, <2>3, UartAssumption
    <3>2. QED
      BY <2>2, <2>5, <2>6, <3>1 DEF QueueInv, Ahead, Stored
<1>8. CASE WatchdogReset
  <2>1. /\ expected' = <<>> /\ Len(expected') = 0
        /\ rxitail' = 0 /\ rxihead' = 0 /\ pc' = "poll"
    BY <1>8, EmptySeq DEF WatchdogReset
  <2>2. EveryPacketOnce'
    BY <2>1, UartAssumption DEF EveryPacketOnce, Ahead
  <2>3. QED
    BY <2>1, <2>2, UartAssumption DEF QueueInv
<1>9. QED
  BY <1>2, <1>3, <1>4, <1>5, <1>6, <1>7, <1>8 DEF Next, AuxPoll

--------------------------------------------------------------------------------
(* The packet on the line *)

\* One step stores each byte of a clean packet in its place, and the start of a
\* packet forgets what a broken one before it left behind.
LEMMA NextLineInv ==
  ASSUME Inv, [Next]_vars
  PROVE  LineInv'
<1>1. TypeOK /\ QueueInv /\ LineInv
  BY DEF Inv
<1>2. CASE StartPacket
  <2>1. PICK p \in Payloads : line' = [payload |-> p, next |-> 0, clean |-> Framable(p)]
    BY <1>2 DEF StartPacket
  <2>2. /\ line'.payload = p /\ line'.next = 0
        /\ line'.clean => Framable(p)
    BY <2>1
  <2>3. QED
    BY <2>2 DEF LineInv, Framable
<1>3. CASE LoseByte \/ WatchdogReset
  <2>1. line \in [payload : Payloads \union {<<>>}, next : Nat, clean : BOOLEAN]
    BY <1>1 DEF TypeOK
  <2>2. Shifted \in [payload : Payloads \union {<<>>}, next : Nat, clean : BOOLEAN]
    BY <2>1 DEF Shifted, Idle
  <2>3. ~line'.clean
    BY <1>3, <2>1, <2>2 DEF LoseByte, WatchdogReset
  <2>4. QED
    BY <2>3 DEF LineInv
<1>4. CASE ReceiveOpen
  <2>1. SUFFICES ASSUME line'.clean
                 PROVE  LineInv'
    BY DEF LineInv
  <2>2. /\ line.clean /\ line'.payload = line.payload
        /\ line'.next = line.next + 1 /\ line.next = 0
    BY <1>1, <1>4, <2>1, ArrivalFacts DEF ReceiveOpen
  <2>3. rxhead' = 0
    BY <1>4 DEF ReceiveOpen
  <2>4. Framable(line.payload)
    BY <1>1, <2>2 DEF LineInv
  <2>5. QED
    BY <2>2, <2>3, <2>4 DEF LineInv, Framable
<1>5. CASE ReceiveData
  <2>1. SUFFICES ASSUME line'.clean
                 PROVE  LineInv'
    BY DEF LineInv
  <2>2. PICK c \in Bytes : Arrives(c) /\ Store(c) /\ rxhead' = Wrap(rxhead, Offsets)
    BY <1>5 DEF ReceiveData
  <2>3. /\ line.clean /\ line'.payload = line.payload /\ line'.next = line.next + 1
        /\ Len(line.payload) \in 0 .. Offsets - 1
        /\ line.next \in 1 .. Len(line.payload) /\ line.payload[line.next] = c
    BY <1>1, <2>1, <2>2, ArrivalFacts
  <2>4. /\ Framable(line.payload)
        /\ rxhead = line.next - 1
        /\ rxihead # Outside =>
             \A j \in 1 .. line.next - 1 : buffers[rxihead][j - 1] = line.payload[j]
    BY <1>1, <2>3 DEF LineInv
  <2>5. rxhead' = line.next /\ rxihead' = rxihead
    BY <1>5, <2>2, <2>3, <2>4, UartAssumption DEF ReceiveData, Wrap
  <2>6. ASSUME rxihead # Outside, NEW j \in 1 .. line.next
        PROVE  buffers'[rxihead][j - 1] = line.payload[j]
    <3>1. buffers' = IF rxihead = Outside THEN buffers
                                          ELSE [buffers EXCEPT ![rxihead][rxhead] = c]
      BY <2>2 DEF Store
    <3>2. \A x \in Bytes : buffers'[rxihead][x] =
                            IF x = rxhead THEN c ELSE buffers[rxihead][x]
      BY <1>1, <2>6, <3>1, WriteFacts DEF TypeOK
    <3>3. j - 1 \in Bytes
      BY <2>3, <2>6, UartAssumption DEF Bytes
    <3>4. CASE j = line.next
      BY <2>3, <2>4, <3>2, <3>3, <3>4
    <3>5. CASE j # line.next
      <4>1. j \in 1 .. line.next - 1 /\ j - 1 # rxhead
        BY <2>3, <2>4, <3>5
      <4>2. QED
        BY <2>4, <2>6, <3>2, <3>3, <4>1
    <3>6. QED
      BY <3>4, <3>5
  <2>7. (line.next + 1) - 1 = line.next
    BY <2>3
  <2>8. QED
    BY <2>3, <2>4, <2>5, <2>6, <2>7 DEF LineInv, Framable, Outside
<1>6. CASE ReceiveClose
  <2>1. SUFFICES ASSUME line'.clean
                 PROVE  FALSE
    BY DEF LineInv
  <2>2. /\ line.next <= Len(line.payload) /\ line.next = Len(line.payload) + 1
        /\ Len(line.payload) \in 0 .. Offsets - 1
    BY <1>1, <1>6, <2>1, ArrivalFacts DEF ReceiveClose
  <2>3. QED
    BY <2>2, UartAssumption
<1>7. CASE AuxPoll \/ UNCHANGED vars
  <2>1. UNCHANGED <<line, buffers, rxhead, rxihead>>
    BY <1>7 DEF AuxPoll, AuxTest, AuxAlloc, AuxCopy, AuxCopied, AuxRecv, AuxDerails,
               AuxAdvance, vars, ring
  <2>2. QED
    BY <1>1, <2>1 DEF LineInv, Framable
<1>8. QED
  BY <1>2, <1>3, <1>4, <1>5, <1>6, <1>7 DEF Next

--------------------------------------------------------------------------------
(* The packet aux_poll copies *)

\* The oldest packet, if whole, is what the main loop reads at rxitail.
LEMMA OldestFacts ==
  ASSUME TypeOK, QueueInv, pc # "poll", expected[1].whole
  PROVE  LET p == expected[1].payload IN
         /\ Len(p) \in Nat /\ Len(p) < Offsets
         /\ Reads(rxitail, DataLen) = {Len(p)}
         /\ \A j \in 1 .. Len(p) : Reads(rxitail, j - 1) = {p[j]}
<1>1. 1 \in 1 .. Len(expected)
  BY QueueFacts DEF QueueInv
<1>2. Stored(Ahead(rxitail, 1 - 1), expected[1].payload)
  BY <1>1 DEF QueueInv
<1>3. Ahead(rxitail, 1 - 1) = rxitail
  BY QueueFacts DEF Ahead, Index
<1>4. Len(expected[1].payload) \in Nat
  BY <1>1, QueueFacts
<1>5. QED
  BY <1>2, <1>3, <1>4 DEF Stored, Reads

\* One step copies the next byte of the packet and no more of them than it has.
LEMMA NextReaderInv ==
  ASSUME Inv, [Next]_vars
  PROVE  ReaderInv'
<1> USE DEF At
<1>1. TypeOK /\ QueueInv /\ LineInv /\ ReaderInv
  BY DEF Inv
<1>2. Len(pbuf) \in Nat /\ pbuf \in Seq(Bytes)
  BY <1>1, LenProperties DEF TypeOK
<1>3. CASE StartPacket \/ LoseByte \/ ReceiveOpen \/ ReceiveData \/ UNCHANGED vars
  <2>1. UNCHANGED <<expected, pc, room, pbuf>>
    BY <1>3 DEF StartPacket, LoseByte, ReceiveOpen, ReceiveData, vars, poll
  <2>2. QED
    BY <1>1, <2>1 DEF ReaderInv
<1>4. CASE ReceiveClose
  <2>1. PICK p \in Packet : expected' = Completed(p)
    BY <1>1, <1>4, ClosedIsPacket
  <2>2. UNCHANGED <<pc, room, pbuf>> /\ pc # "lost"
    BY <1>4 DEF ReceiveClose, Arrives, poll
  <2>3. ASSUME pc # "poll", expected'[1].whole
        PROVE  expected'[1] = expected[1]
    <3>1. Len(expected) > 0 /\ Len(expected) \in 0 .. Indices
      BY <1>1, <2>3, QueueFacts DEF QueueInv
    <3>2. Len(expected') > 0 /\ Len(expected') \in 0 .. Indices
      BY <1>1, <2>1, <2>2, <2>3, CompletedShape
    <3>3. 1 \in 1 .. Len(expected')
      BY <3>2, UartAssumption
    <3>4. \/ 1 <= Len(expected) /\ expected'[1] = expected[1]
          \/ 1 = Len(expected) + 1
      BY <1>1, <2>1, <2>2, <2>3, <3>3, CompletedShape
    <3>5. QED
      BY <3>1, <3>4, UartAssumption
  <2>4. QED
    BY <1>1, <2>2, <2>3 DEF ReaderInv
<1>5. CASE AuxTest
  BY <1>1, <1>5 DEF AuxTest, ReaderInv
<1>6. CASE AuxAlloc
  <2>1. /\ pc = "alloc" /\ pc' = "copy" /\ UNCHANGED <<expected, pbuf>>
        /\ room' \in Reads(rxitail, DataLen)
    BY <1>6 DEF AuxAlloc
  <2>2. pbuf' = <<>> /\ Len(pbuf') = 0
    BY <1>1, <2>1, EmptySeq DEF ReaderInv
  <2>3. ASSUME expected[1].whole
        PROVE  Len(expected[1].payload) \in Nat /\ room' = Len(expected[1].payload)
    BY <1>1, <2>1, <2>3, OldestFacts
  <2>4. QED
    BY <2>1, <2>2, <2>3 DEF ReaderInv
<1>7. CASE AuxCopy
  <2>1. /\ pc = "copy" /\ pc' = "copy" /\ UNCHANGED <<expected, room>>
    BY <1>7 DEF AuxCopy
  <2>2. PICK n \in Reads(rxitail, DataLen), c \in Reads(rxitail, Len(pbuf)) :
          Len(pbuf) < n /\ pbuf' = Append(pbuf, c)
    BY <1>7 DEF AuxCopy
  <2>3. SUFFICES ASSUME expected[1].whole
                 PROVE  ReaderInv'
    BY <2>1 DEF ReaderInv
  <2>4. LET p == expected[1].payload IN
        /\ room = Len(p) /\ Len(p) \in Nat
        /\ n = Len(p)
        /\ \A j \in 1 .. Len(p) : Reads(rxitail, j - 1) = {p[j]}
        /\ \A j \in 1 .. Len(pbuf) : pbuf[j] = p[j]
    BY <1>1, <2>1, <2>2, <2>3, OldestFacts DEF ReaderInv
  <2>5. c = expected[1].payload[Len(pbuf) + 1]
    <3>1. Len(pbuf) + 1 \in 1 .. Len(expected[1].payload)
      BY <1>2, <2>2, <2>4
    <3>2. (Len(pbuf) + 1) - 1 = Len(pbuf)
      BY <1>2
    <3>3. Reads(rxitail, Len(pbuf)) = {expected[1].payload[Len(pbuf) + 1]}
      BY <2>4, <3>1, <3>2
    <3>4. QED
      BY <2>2, <3>3
  <2>6. c \in Bytes
    <3>1. n \in Bytes
      BY <1>1, <2>2, ByteFacts, QueueFacts
    <3>2. Len(pbuf) \in Bytes
      BY <1>2, <2>2, <3>1, UartAssumption DEF Bytes
    <3>3. QED
      BY <1>1, <2>2, <3>2, ByteFacts, QueueFacts
  <2>7. /\ Len(pbuf') = Len(pbuf) + 1
        /\ \A j \in 1 .. Len(pbuf) : pbuf'[j] = pbuf[j]
        /\ pbuf'[Len(pbuf) + 1] = c
    BY <1>2, <2>2, <2>6, AppendProperties
  <2>8. \A j \in 1 .. Len(pbuf') : pbuf'[j] = expected[1].payload[j]
    BY <1>2, <2>4, <2>5, <2>7
  <2>9. Len(pbuf') <= Len(expected[1].payload)
    BY <1>2, <2>2, <2>4, <2>7
  <2>10. QED
    BY <2>1, <2>4, <2>8, <2>9 DEF ReaderInv
<1>8. CASE AuxCopied
  <2>1. /\ pc = "copy" /\ pc' = "recv" /\ UNCHANGED <<expected, room, pbuf>>
        /\ \E n \in Reads(rxitail, DataLen) : Len(pbuf) >= n
    BY <1>8 DEF AuxCopied
  <2>2. ASSUME expected[1].whole
        PROVE  Len(pbuf) = Len(expected[1].payload)
    <3>1. Len(pbuf) <= Len(expected[1].payload)
      BY <1>1, <2>1, <2>2 DEF ReaderInv
    <3>2. /\ Len(expected[1].payload) \in Nat
          /\ Len(pbuf) >= Len(expected[1].payload)
      BY <1>1, <2>1, <2>2, OldestFacts
    <3>3. QED
      BY <1>2, <3>1, <3>2
  <2>3. QED
    BY <1>1, <2>1, <2>2 DEF ReaderInv
<1>9. CASE AuxRecv \/ AuxDerails
  BY <1>9 DEF AuxRecv, AuxDerails, ReaderInv
<1>10. CASE AuxAdvance \/ WatchdogReset
  BY <1>10 DEF AuxAdvance, WatchdogReset, ReaderInv
<1>11. QED
  BY <1>3, <1>4, <1>5, <1>6, <1>7, <1>8, <1>9, <1>10 DEF Next, AuxPoll

--------------------------------------------------------------------------------
(* Theorems *)

\* c_irq_handler and aux_poll keep every packet where the indices say it is, from
\* its first byte to its delivery.
THEOREM UartInvariance == Spec => []Inv
<1>1. Inv /\ [Next]_vars => Inv'
  BY NextTypeOK, NextQueueInv, NextLineInv, NextReaderInv DEF Inv
<1>2. QED
  BY InitInv, <1>1, PTL DEF Spec

\* For every ring and every set of payloads, rxhead, rxihead and rxitail stay in
\* their masks and no more packets wait than the ring has buffers.
THEOREM UartTypeCorrect == Spec => []TypeOK
<1>1. Inv => TypeOK
  BY DEF Inv
<1>2. QED
  BY UartInvariance, <1>1, PTL

\* For every ring, the packets between rxitail and rxihead are those that were
\* completed and not taken: aux_poll takes each once and skips none.
THEOREM NoPacketSkipped == Spec => []EveryPacketOnce
<1>1. Inv => EveryPacketOnce
  BY DEF Inv, QueueInv
<1>2. QED
  BY UartInvariance, <1>1, PTL

\* For every ring and every line, good or bad, aux_poll hands over each packet
\* that arrived whole exactly as it was sent.
THEOREM WholePacketsArrive == Spec => []PacketsIntact
<1>1. Inv => PacketsIntact
  <2> SUFFICES ASSUME Inv, pc \in {"copy", "recv"}, expected[1].whole
               PROVE  /\ room = Len(expected[1].payload)
                      /\ Len(pbuf) <= room
                      /\ pc = "recv" => pbuf = expected[1].payload
    BY DEF PacketsIntact
  <2>1. TypeOK /\ QueueInv /\ ReaderInv
    BY DEF Inv
  <2>2. /\ room = Len(expected[1].payload)
        /\ Len(pbuf) <= Len(expected[1].payload)
        /\ \A j \in 1 .. Len(pbuf) : pbuf[j] = expected[1].payload[j]
        /\ pc = "recv" => Len(pbuf) = Len(expected[1].payload)
    BY <2>1 DEF ReaderInv
  <2>3. expected[1].payload \in Seq(Bytes \union {Open, Close})
    <3>1. 1 \in 1 .. Len(expected)
      BY <2>1, QueueFacts DEF QueueInv
    <3>2. expected[1].payload \in Payloads \union {<<>>}
      BY <2>1, <3>1, QueueFacts
    <3>3. QED
      BY <3>2, PayloadType
  <2>4. pbuf \in Seq(Bytes \union {Open, Close})
    <3>1. pbuf \in Seq(Bytes)
      BY <2>1 DEF TypeOK
    <3>2. pbuf \in [1 .. Len(pbuf) -> Bytes] /\ Len(pbuf) \in Nat
      BY <3>1, LenProperties
    <3>3. pbuf \in [1 .. Len(pbuf) -> Bytes \union {Open, Close}]
      BY <3>2
    <3>4. QED
      BY <3>2, <3>3
  <2>5. ASSUME pc = "recv"
        PROVE  pbuf = expected[1].payload
    BY <2>2, <2>3, <2>4, <2>5, SeqEqual
  <2>6. QED
    BY <2>2, <2>5
<1>2. QED
  BY UartInvariance, <1>1, PTL
=============================================================================

--------------------------------- MODULE UartRx ---------------------------------
(***************************************************************************)
(* The OSC packets' way in: c_irq_handler (firmware/lib/bcm2835_irq.c)      *)
(* stores each byte the UART receives into a ring of packet buffers, and   *)
(* aux_poll (firmware/lib/network-stub.c) takes one packet out of it per   *)
(* round of the main loop.  '[' and ']' frame a packet.  Interrupt and     *)
(* poll share the buffers and the two indices without a lock.              *)
(*                                                                         *)
(* The handler runs to completion per byte; aux_poll is split at each of   *)
(* its reads of the ring, pc naming the next one.  The sender and the line *)
(* are the environment: it may send any of Payloads at any time, and       *)
(* LineLoses says whether bytes may be lost on the way.                    *)
(***************************************************************************)
EXTENDS Integers, Sequences

CONSTANTS
  Indices,      \* RXINDEXMASK + 1, the values of rxihead and rxitail
  Offsets,      \* RXBUFMASK + 1, the bytes of an aux_buffer and the values of one
  Open, Close,  \* the bytes '[' and ']', which the handler never stores
  Payloads,     \* what a packet may have between them
  RecvAt,       \* where behind aux_buffers lies the pcb that holds ipcb->recv
  LineLoses     \* may the UART lose bytes?

Bytes == 0 .. Offsets - 1

ASSUME UartAssumption ==
  /\ Indices \in Nat /\ Indices > 1
  /\ Offsets \in Nat /\ Offsets > 1
  /\ {Open, Close} \intersect Bytes = {} /\ Open # Close
  /\ Payloads \subseteq Seq(Bytes \union {Open, Close})
  /\ RecvAt \in Bytes
  /\ LineLoses \in BOOLEAN

VARIABLES
  line,      \* the packet on the line: payload, the next byte of the frame, and
             \* whether it is clean: nothing lost so far, and Framable
  buffers,   \* aux_buffers as declared, RXINDEXMASK of them; the last byte of
             \* each is its data_len
  rxhead,    \* the next byte's offset
  rxihead,   \* the buffer being filled
  rxitail,   \* the next buffer aux_poll reads
  leState,   \* le_state, the byte the linker puts right behind aux_buffers
  recvOk,    \* ipcb->recv is still the pointer that udp_recv stored
  pc,        \* aux_poll's next access; "lost" after a jump through a bad pointer
  room,      \* the bytes pbuf_alloc was asked for
  pbuf,      \* the bytes copied so far
  expected   \* history: the packets completed and not yet taken, oldest first

ring == <<buffers, rxhead, rxihead, rxitail>>
past == <<leState, recvOk>>
poll == <<pc, room, pbuf>>
vars == <<line, ring, past, poll, expected>>

Outside      == Indices - 1   \* the one index aux_buffers has no element for
DataLen      == Offsets - 1   \* the offset of data_len in a buffer
Wrap(i, n)   == IF i + 1 = n THEN 0 ELSE i + 1      \* (i + 1) & (n - 1)
Framable(p)  == Len(p) < Offsets /\ \A k \in DOMAIN p : p[k] \notin {Open, Close}
Idle         == [payload |-> <<>>, next |-> 2, clean |-> FALSE]
Spoilt       == [payload |-> <<>>, whole |-> FALSE]
Blank        == [i \in 0 .. Indices - 2 |-> [o \in Bytes |-> 0]]

Init ==
  /\ line = Idle
  /\ buffers = Blank /\ rxhead = 0 /\ rxihead = 0 /\ rxitail = 0
  /\ leState = 0 /\ recvOk = TRUE
  /\ pc = "poll" /\ room = 0 /\ pbuf = <<>>
  /\ expected = <<>>

-----------------------------------------------------------------------------
(* The line *)

\* The remote starts a packet; nothing tells it how many are waiting.
StartPacket ==
  /\ line.next = Len(line.payload) + 2
  /\ pc # "lost"
  /\ \E p \in Payloads : line' = [payload |-> p, next |-> 0, clean |-> Framable(p)]
  /\ UNCHANGED <<ring, past, poll, expected>>

ByteOnLine ==
  CASE line.next = 0                              -> Open
    [] line.next \in DOMAIN line.payload          -> line.payload[line.next]
    [] OTHER                                      -> Close

Shifted == IF line.next > Len(line.payload) THEN Idle
                                            ELSE [line EXCEPT !.next = @ + 1]

\* The next byte on the line is b, and the UART raises its interrupt.
Arrives(b) ==
  /\ line.next < Len(line.payload) + 2
  /\ pc # "lost"
  /\ b = ByteOnLine
  /\ line' = Shifted

\* The byte is lost or damaged: the receive FIFO was full, or the line is bad.
LoseByte ==
  /\ LineLoses
  /\ line.next < Len(line.payload) + 2
  /\ pc # "lost"
  /\ line' = [Shifted EXCEPT !.clean = FALSE]
  /\ UNCHANGED <<ring, past, poll, expected>>

-----------------------------------------------------------------------------
(* c_irq_handler, by the byte it reads *)

\* Mutant of ReceiveOpen: the offset is not reset where a packet starts.
OpenKeepsOffset ==
  /\ Arrives(Open)
  /\ UNCHANGED <<ring, past, poll, expected>>

ReceiveOpen ==
  /\ Arrives(Open)
  /\ rxhead' = 0
  /\ UNCHANGED <<buffers, rxihead, rxitail, past, poll, expected>>

\* rxbuffer[RXBUFMASK] is data_len; the buffer behind the last is not a buffer.
Store(c) ==
  IF rxihead = Outside
  THEN /\ leState' = IF rxhead = 0 THEN c ELSE leState
       /\ recvOk' = (recvOk /\ rxhead < RecvAt)
       /\ UNCHANGED buffers
  ELSE /\ buffers' = [buffers EXCEPT ![rxihead][rxhead] = c]
       /\ UNCHANGED past

ReceiveData ==
  \E c \in Bytes :
    /\ Arrives(c)
    /\ Store(c)
    /\ rxhead' = Wrap(rxhead, Offsets)
    /\ UNCHANGED <<rxihead, rxitail, poll, expected>>

\* The packets that will be taken out once p is completed.  The indices
\* cannot tell a full ring from an empty one: the packet that makes Indices of
\* them hides them all, or hides all but the one aux_poll is working on, which
\* is overwritten from then on.
Completed(p) ==
  LET all == Append(expected, p)
  IN  IF Len(all) < Indices THEN all
      ELSE IF pc = "poll"   THEN <<>>
      ELSE IF Len(all) = Indices THEN [all EXCEPT ![1] = Spoilt] ELSE <<Spoilt>>

\* Mutant of ReceiveClose: the index is not masked.
CloseNoWrap ==
  /\ Arrives(Close)
  /\ buffers' = IF rxihead = Outside THEN buffers
                ELSE [buffers EXCEPT ![rxihead][DataLen] = rxhead]
  /\ rxihead' = rxihead + 1
  /\ expected' = Completed(IF line.clean /\ rxihead # Outside
                            THEN [payload |-> line.payload, whole |-> TRUE] ELSE Spoilt)
  /\ UNCHANGED <<rxhead, rxitail, past, poll>>

ReceiveClose ==
  /\ Arrives(Close)
  /\ buffers' = IF rxihead = Outside THEN buffers
                ELSE [buffers EXCEPT ![rxihead][DataLen] = rxhead]
  /\ rxihead' = Wrap(rxihead, Indices)
  /\ expected' = Completed(IF line.clean /\ rxihead # Outside
                            THEN [payload |-> line.payload, whole |-> TRUE] ELSE Spoilt)
  /\ UNCHANGED <<rxhead, rxitail, past, poll>>

-----------------------------------------------------------------------------
(* aux_poll *)

\* What the main loop reads at offset o of buffer i.  Behind the last buffer lie
\* other variables: any length may be found there, and of the bytes no more is said.
Reads(i, o) == IF i # Outside THEN {buffers[i][o]}
               ELSE IF o = DataLen THEN Bytes ELSE {0}

At(here, there) == pc = here /\ pc' = there

\* Mutant of AuxTest: the indices are compared as if they never wrapped.
AuxTestOrder ==
  /\ At("poll", "alloc")
  /\ rxihead > rxitail
  /\ UNCHANGED <<line, ring, past, room, pbuf, expected>>

AuxTest ==
  /\ At("poll", "alloc")
  /\ rxihead # rxitail
  /\ UNCHANGED <<line, ring, past, room, pbuf, expected>>

AuxAlloc ==
  /\ At("alloc", "copy")
  /\ room' \in Reads(rxitail, DataLen)
  /\ UNCHANGED <<line, ring, past, pbuf, expected>>

\* The loop reads data_len again before each byte.
AuxCopy ==
  /\ At("copy", "copy")
  /\ \E n \in Reads(rxitail, DataLen) : Len(pbuf) < n
  /\ \E c \in Reads(rxitail, Len(pbuf)) : pbuf' = Append(pbuf, c)
  /\ UNCHANGED <<line, ring, past, room, expected>>

AuxCopied ==
  /\ At("copy", "recv")
  /\ \E n \in Reads(rxitail, DataLen) : Len(pbuf) >= n
  /\ UNCHANGED <<line, ring, past, room, pbuf, expected>>

AuxRecv ==
  /\ At("recv", "advance")
  /\ recvOk
  /\ UNCHANGED <<line, ring, past, room, pbuf, expected>>

\* After a copy beyond the allocated pbuf, or through an overwritten pointer,
\* anything may follow; it is abstracted to nothing, until the watchdog.
AuxDerails ==
  /\ At("recv", "lost")
  /\ ~recvOk \/ Len(pbuf) > room
  /\ UNCHANGED <<line, ring, past, room, pbuf, expected>>

\* Mutant of AuxAdvance: the poll goes on to the newest packet.
AuxCatchUp ==
  /\ At("advance", "poll")
  /\ rxitail' = rxihead
  /\ room' = 0 /\ pbuf' = <<>>
  /\ expected' = Tail(expected)
  /\ UNCHANGED <<line, buffers, rxhead, rxihead, past>>

AuxAdvance ==
  /\ At("advance", "poll")
  /\ rxitail' = Wrap(rxitail, Indices)
  /\ room' = 0 /\ pbuf' = <<>>
  /\ expected' = Tail(expected)
  /\ UNCHANGED <<line, buffers, rxhead, rxihead, past>>

AuxPoll == AuxTest \/ AuxAlloc \/ AuxCopy \/ AuxCopied \/ AuxRecv \/ AuxDerails \/ AuxAdvance

\* The machine restarts; the packet on the line, if any, has lost its beginning.
WatchdogReset ==
  /\ At("lost", "poll")
  /\ line' = [line EXCEPT !.clean = FALSE]
  /\ buffers' = Blank /\ rxhead' = 0 /\ rxihead' = 0 /\ rxitail' = 0
  /\ leState' = 0 /\ recvOk' = TRUE
  /\ room' = 0 /\ pbuf' = <<>>
  /\ expected' = <<>>

Next ==
  \/ StartPacket \/ LoseByte
  \/ ReceiveOpen \/ ReceiveData \/ ReceiveClose
  \/ AuxPoll \/ WatchdogReset

Spec     == Init /\ [][Next]_vars
FairSpec == Spec /\ WF_vars(AuxPoll) /\ WF_vars(WatchdogReset)

-----------------------------------------------------------------------------
(* Properties *)

Packet == [payload : Payloads \union {<<>>}, whole : BOOLEAN]

\* The indices and offsets stay in their masks (rxihead, rxitail, rxhead in
\* irq.h), and what waits is never more than the ring has buffers.
TypeOK ==
  /\ line \in [payload : Payloads \union {<<>>}, next : Nat, clean : BOOLEAN]
  /\ line.next <= Len(line.payload) + 1 \/ line = Idle
  /\ buffers \in [0 .. Indices - 2 -> [Bytes -> Bytes]]
  /\ rxhead \in Bytes
  /\ rxihead \in 0 .. Indices - 1 /\ rxitail \in 0 .. Indices - 1
  /\ leState \in Bytes /\ recvOk \in BOOLEAN
  /\ pc \in {"poll", "alloc", "copy", "recv", "advance", "lost"}
  /\ room \in Bytes
  /\ pbuf \in Seq(Bytes)
  /\ expected \in Seq(Packet) /\ Len(expected) <= Indices

\* The index k further than i, in the ring.
Ahead(i, k) == IF i + k >= Indices THEN i + k - Indices ELSE i + k

\* No packet is skipped or delivered twice: what lies between rxitail and
\* rxihead is what was completed and not yet taken, however the handler's and
\* aux_poll's increments interleave and wherever they wrap.
EveryPacketOnce == rxihead = Ahead(rxitail, Len(expected))

\* What aux_poll hands to osc_recv is the packet that was sent, byte for byte and
\* in its length, if it arrived whole: no byte lost, none of its bytes a frame byte,
\* no more than RXBUFMASK of them, in one of the declared buffers, and not lapped
\* while it was copied.  What happened to the packets before it, and what the
\* handler stores while it is copied, does not matter.
PacketsIntact ==
  /\ pc \in {"copy", "recv"}
  /\ expected[1].whole
  => /\ room = Len(expected[1].payload)
     /\ Len(pbuf) <= room
     /\ pc = "recv" => pbuf = expected[1].payload

\* A packet that waits is handed over, unless so many follow it that the indices
\* meet, whatever the order of the indices.
PacketsServed == rxihead # rxitail ~> pc = "recv" \/ rxihead = rxitail

\* lightengine.c:24 calls the light engine a stub: nothing this build calls takes
\* it out of LIGHTENGINE_READY, without which dac_prepare and playback_refill refuse
\* to play.
LightEngineIsStub == leState = 0

=============================================================================

------------------------------- MODULE SdCard -------------------------------
(***************************************************************************)
(* The SD card driver, emmc/src/sd.c, and the card it talks to.  `card' is *)
(* the card by the state diagram of the SD standard, as far as the driver  *)
(* uses it; `dev' is what the driver believes (block_dev and the bus width *)
(* of the host).  One action per command the driver issues; `pc' names it. *)
(*                                                                         *)
(* A command reaches the card or not and its answer arrives or not; a      *)
(* fault of either kind, a removal and an insertion are counted.  A        *)
(* command that fails may leave the lines it uses inhibited, and the       *)
(* driver then waits for them without a bound.                             *)
(***************************************************************************)
EXTENDS Naturals, FiniteSets

CONSTANTS
    Kinds,          \* the cards: [v2, hc, len], len the block length after CMD0
    Blocks,         \* block numbers asked for
    Counts,         \* blocks per call
    Ops,            \* the calls the clients make
    MaxFaults       \* bound on faults, removals and insertions

ASSUME SdAssumption ==
    /\ Kinds \subseteq [v2 : BOOLEAN, hc : BOOLEAN, len : Nat \ {0}]
    /\ \A k \in Kinds : k.hc => k.v2 /\ k.len = 512
    /\ Blocks \subseteq Nat
    /\ Counts \subseteq Nat \ {0}
    /\ Ops \subseteq {"init", "read", "write"}
    /\ MaxFaults \in Nat

VARIABLES
    card,           \* the card: [kind, st, len, bus]
    inhibit,        \* CMD_INHIBIT and DATA_INHIBIT of STATUS that a failure left set
    irq,            \* the card-removal bit of the INTERRUPT register
    removal,        \* block_dev.card_removal
    dev,            \* [rca, sdhc, bs, bus]: card_rca # 0, card_supports_sdhc,
                    \* block_size, and the width in CONTROL0
    pc,             \* the command that is issued next; STUCK: the wait for a line
    then,           \* where sd_ensure_data_mode goes on after sd_card_init
    v2later,        \* v2_later of sd_card_init
    tries,          \* retry_count of sd_do_data_command
    call,           \* the client's call: [op, block, n]
    result,         \* what the last call returned
    got,            \* the block whose data the last read delivered, if it did
    armed,          \* watchdog_init has run
    inited,         \* STA_NOINIT of diskio.c is cleared
    silent,         \* a command of this call has run into its software timeout
    faults,         \* history: faults so far
    hit,            \* history: a fault struck during this call
    misses          \* history: calls that failed by themselves since the last fault
                    \* or the last call that worked

vars == <<card, inhibit, irq, removal, dev, pc, then, v2later, tries, call, result, got,
          armed, inited, silent, faults, hit, misses>>

Cards == [kind : Kinds, st : {"out", "idle", "ready", "ident", "stby", "tran", "data", "rcv"},
          len : Nat \ {0}, bus : {1, 4}]
Calls == [op : {"init", "read", "write"}, block : Blocks, n : Counts]

\* A card that has just got power.
Fresh(k) == [kind |-> k, st |-> "idle", len |-> k.len, bus |-> 1]
\* Mutant of Cleared: CONTROL0 keeps the four lines over the reset.
AuxCleared == [rca |-> FALSE, sdhc |-> FALSE, bs |-> 0, bus |-> 4]
\* What _memset leaves of block_dev; emmc_reset has made the bus one bit wide.
Cleared == [rca |-> FALSE, sdhc |-> FALSE, bs |-> 0, bus |-> 1]
-----------------------------------------------------------------------------
\* The states in which the card obeys a command, and the states it then enters.
In == {"idle", "ready", "ident", "stby", "tran", "data", "rcv"}
Obeys ==
    [GO_IDLE |-> In,           IF_COND |-> {"idle"},    IO_COND |-> {},
     INQUIRY |-> {"idle"},     OP_COND |-> {"idle"},    ALL_SEND_CID |-> {"ready"},
     RELATIVE_ADDR |-> {"ident"}, SELECT |-> {"stby"},  BLOCKLEN |-> {"tran"},
     SEND_SCR |-> {"tran"},    BUS_WIDTH |-> {"tran"},  STATUS |-> {"stby", "tran", "data", "rcv"},
     STOP |-> {"data", "rcv"}, READ |-> {"tran"},       READ_MULTIPLE |-> {"tran"},
     WRITE |-> {"tran"},       WRITE_MULTIPLE |-> {"tran"}]
Enters ==
    [GO_IDLE |-> "idle", OP_COND |-> "ready", ALL_SEND_CID |-> "ident", RELATIVE_ADDR |-> "stby",
     SELECT |-> "tran", STOP |-> "tran", READ_MULTIPLE |-> "data", WRITE_MULTIPLE |-> "rcv"]

Legal(c) == card.st \in Obeys[c] /\ (c = "IF_COND" => card.kind.v2)
After(c) ==
    IF c = "GO_IDLE" THEN Fresh(card.kind)
    ELSE [card EXCEPT !.st = IF c \in DOMAIN Enters THEN Enters[c] ELSE @,
                      !.len = IF c = "BLOCKLEN" THEN 512 ELSE @,
                      !.bus = IF c = "BUS_WIDTH" THEN 4 ELSE @]

DataCommands == {"READ", "READ_MULTIPLE", "WRITE", "WRITE_MULTIPLE"}
\* The lines a command uses: CMD, and DAT for its data or its busy signal.
Uses(c) == {"CMD"} \cup
    (IF c \in DataCommands \cup {"SEND_SCR", "SELECT", "STOP"} THEN {"DAT"} ELSE {})
\* Every command waits for the CMD line; of those with a busy signal, the one that
\* is no abort command waits for the DAT line too.
Blocked(c) == "CMD" \in inhibit \/ (c = "SELECT" /\ "DAT" \in inhibit)

\* A data phase needs both sides to agree on the lines and on the block, and the line.
Agree(c) ==
    /\ c \in DataCommands \cup {"SEND_SCR"} => card.bus = dev.bus
    /\ c \in DataCommands => card.len = dev.bs
Starved(c) == ~Agree(c) \/ ("DAT" \in inhibit /\ "DAT" \in Uses(c))
\* What becomes of a card whose data phase does not take place as it should.
Unserved(c) ==
    {After(c), [card EXCEPT !.st = CASE c \in {"READ", "READ_MULTIPLE", "SEND_SCR"} -> "data"
                                     [] c \in {"WRITE", "WRITE_MULTIPLE"} -> "rcv"
                                     [] OTHER -> @]}

Goto(p) == pc' = p /\ UNCHANGED <<dev, then, v2later, tries, call, result, got, armed, inited, misses>>

\* The call returns to the client with the driver's state d.
ReturnWith(r, d) ==
    /\ pc' = "client"
    /\ dev' = d
    /\ result' = r
    /\ armed' = TRUE
    /\ inited' = (inited \/ (call.op = "init" /\ r = "ok"))
    /\ misses' = IF r = "ok" \/ hit' \/ card'.st = "out" THEN 0 ELSE misses + 1
    /\ UNCHANGED <<then, v2later, tries, call, got>>
Return(r) == ReturnWith(r, dev)
\* The card has to be initialised anew.
Abandon == ReturnWith("error", [dev EXCEPT !.rca = FALSE])

AfterIfCond(v2) ==
    /\ pc' = "IO_COND"
    /\ v2later' = v2
    /\ UNCHANGED <<dev, then, tries, call, result, got, armed, inited, misses>>

\* The SCR is read with a block size of 8; block_size is 512 from here on.
Sized == [dev EXCEPT !.bs = 512]

\* The result of ACMD6 decides about the host's bus, not about the card's use.
InitDone(d) ==
    IF then = "RETURN" THEN ReturnWith("ok", d)
    ELSE /\ pc' = then
         /\ dev' = d
         /\ UNCHANGED <<then, v2later, tries, call, result, got, armed, inited, misses>>

\* The command is tried three times, with nothing in between.
MaxRetries == 3
\* Mutant of TryAgain: card_rca survives the last failure.
AuxTryKeepsRca ==
    IF tries + 1 = MaxRetries THEN Return("error")
    ELSE /\ tries' = tries + 1
         /\ UNCHANGED <<dev, pc, then, v2later, call, result, got, armed, inited, misses>>
\* Mutant of TryAgain: retry_count is not counted up.
AuxTryForever == UNCHANGED <<dev, pc, then, v2later, tries, call, result, got, armed, inited, misses>>
\* Mutant of TryAgain: one try too many.
AuxTryFour ==
    IF tries = MaxRetries THEN Abandon
    ELSE /\ tries' = tries + 1
         /\ UNCHANGED <<dev, pc, then, v2later, call, result, got, armed, inited, misses>>
TryAgain ==
    IF tries + 1 = MaxRetries THEN Abandon
    ELSE /\ tries' = tries + 1
         /\ UNCHANGED <<dev, pc, then, v2later, call, result, got, armed, inited, misses>>

\* What a command that failed leads to.  An old card does not answer CMD8, and only an
\* SDIO card answers CMD5; emmc_reset_cmd then frees the line (that it may fail has the
\* same result as an answer with errors).  A failed ACMD6 decides about the host's bus.
OnFailure(e) ==
    CASE pc = "IF_COND" /\ e # "crc" -> AfterIfCond(FALSE)
      [] pc = "IO_COND" /\ e # "crc" -> Goto("INQUIRY")
      [] pc = "SEND_SCR"  -> ReturnWith("error", Sized)
      [] pc = "BUS_WIDTH" -> InitDone(dev)
      [] pc \in {"STATUS", "RESELECT", "STOP", "RECHECK"} -> Abandon
      [] pc = "TRY"       -> TryAgain
      [] OTHER            -> Return("error")

\* A failure may leave the lines in use.  Only the two commands that an ordinary card
\* does not answer are followed by emmc_reset_cmd; STOP, once it is answered, by
\* emmc_reset_dat; the rest waits for the next emmc_reset.
Leave(lines, e) ==
    LET reset == IF pc \in {"IF_COND", "IO_COND"} /\ e = "timeout" THEN {"CMD"} ELSE {}
    IN  \E left \in SUBSET lines : inhibit' = (inhibit \cup left) \ reset

\* emmc_issue_command: the card obeys and answers; or its data do not come through;
\* or it does not obey, and the controller flags a command timeout; or a fault.
Exchange(c, Ok) ==
    \/ /\ Legal(c) /\ Agree(c)
       /\ card' = After(c)
       /\ inhibit' = inhibit \ Uses(c)
       /\ UNCHANGED <<faults, hit, silent>>
       /\ Ok
    \/ /\ Legal(c) /\ Starved(c)
       /\ card' \in Unserved(c)
       /\ silent' \in {silent, TRUE}
       /\ Leave({"DAT"}, "data")
       /\ UNCHANGED <<faults, hit>>
       /\ OnFailure("data")
    \/ /\ ~Legal(c)
       /\ Leave(Uses(c), "timeout")
       /\ UNCHANGED <<card, faults, hit, silent>>
       /\ OnFailure("timeout")
    \/ /\ faults < MaxFaults
       /\ faults' = faults + 1
       /\ hit' = TRUE
       /\ card' \in {card} \cup (IF Legal(c) THEN {After(c)} ELSE {})
       /\ \E e \in {"silent", "timeout", "crc"} :
             /\ silent' = (silent \/ e = "silent")
             /\ Leave(Uses(c), e)
             /\ OnFailure(e)

\* The wait for a line that nothing frees; the driver looks at nothing else in it.
Hang ==
    /\ pc' = "STUCK"
    /\ misses' = IF hit \/ card.st = "out" THEN 0 ELSE misses + 1
    /\ UNCHANGED <<card, inhibit, dev, then, v2later, tries, call, result, got, armed, inited,
                   silent, faults, hit>>
Spin == pc = "STUCK" /\ UNCHANGED vars

\* sd_issue_command at the program point `at': a removal seen by
\* emmc_handle_interrupts, now or since the last initialisation, stops it.
Issue(at, c, Ok) ==
    /\ pc = at
    /\ irq' = FALSE
    /\ removal' = (removal \/ irq)
    /\ IF removal' THEN UNCHANGED <<card, inhibit, faults, hit, silent>> /\ OnFailure("silent")
       ELSE IF Blocked(c) THEN Hang
       ELSE Exchange(c, Ok)
\* The command at `at' is issued to a card that obeys it, and there is no fault.
Reaches(at, c) == pc = at /\ ~removal /\ ~irq /\ ~Blocked(c) /\ Legal(c)

-----------------------------------------------------------------------------
\* sd_card_init, one action per command.

\* emmc_reset, which frees the lines and may fail half-way, then _memset of block_dev.
Reset ==
    /\ pc = "RESET"
    /\ UNCHANGED <<card, silent>>
    /\ \/ /\ irq' = FALSE
          /\ removal' = FALSE
          /\ inhibit' = {}
          /\ dev' = Cleared
          /\ pc' = "GO_IDLE"
          /\ UNCHANGED <<then, v2later, tries, call, result, got, armed, inited, faults, hit, misses>>
       \/ /\ faults < MaxFaults
          /\ faults' = faults + 1
          /\ hit' = TRUE
          /\ inhibit' \in {inhibit, {}}
          /\ ReturnWith("error", [dev EXCEPT !.bus = 1])
          /\ UNCHANGED <<irq, removal>>

GoIdle == Issue("GO_IDLE", "GO_IDLE", Goto("IF_COND"))

IfCond == Issue("IF_COND", "IF_COND", AfterIfCond(TRUE))
IoCond == Issue("IO_COND", "IO_COND", Return("error"))
Inquiry == Issue("INQUIRY", "INQUIRY", Goto("OP_COND"))

\* ACMD41 until the card is no longer busy.  Without the bit that CMD8 earns, a
\* high-capacity card stays busy for ever.
Hopeless == card.kind.hc /\ ~v2later
Identified ==
    /\ ~Hopeless
    /\ pc' = "ALL_SEND_CID"
    /\ dev' = [dev EXCEPT !.sdhc = card.kind.hc]
    /\ UNCHANGED <<then, v2later, tries, call, result, got, armed, inited, misses>>
OpCond == Issue("OP_COND", "OP_COND", Identified)
StillBusy ==
    /\ Reaches("OP_COND", "OP_COND")
    /\ Goto("BUSY")
    /\ UNCHANGED <<card, inhibit, irq, removal, silent, faults, hit>>
Delay ==
    /\ pc = "BUSY"
    /\ Goto("OP_COND")
    /\ UNCHANGED <<card, inhibit, irq, removal, silent, faults, hit>>

SendCid == Issue("ALL_SEND_CID", "ALL_SEND_CID", Goto("RELATIVE_ADDR"))

\* card_rca is set before the error bits of the answer are looked at.
Addressed == [dev EXCEPT !.rca = TRUE]
RelativeAddr == Issue("RELATIVE_ADDR", "RELATIVE_ADDR",
    /\ pc' = "SELECT"
    /\ dev' = Addressed
    /\ UNCHANGED <<then, v2later, tries, call, result, got, armed, inited, misses>>)
AddrFlagged ==
    /\ Reaches("RELATIVE_ADDR", "RELATIVE_ADDR")
    /\ faults < MaxFaults
    /\ faults' = faults + 1
    /\ hit' = TRUE
    /\ card' = After("RELATIVE_ADDR")
    /\ ReturnWith("error", Addressed)
    /\ UNCHANGED <<inhibit, irq, removal, silent>>

Select == Issue("SELECT", "SELECT",
    Goto(IF dev.sdhc THEN "SEND_SCR" ELSE "BLOCKLEN"))
BlockLen == Issue("BLOCKLEN", "BLOCKLEN", Goto("SEND_SCR"))

SendScr == Issue("SEND_SCR", "SEND_SCR",
    /\ pc' = "BUS_WIDTH"
    /\ dev' = Sized
    /\ UNCHANGED <<then, v2later, tries, call, result, got, armed, inited, misses>>)

BusWidth == Issue("BUS_WIDTH", "BUS_WIDTH", InitDone([dev EXCEPT !.bus = 4]))
-----------------------------------------------------------------------------
\* sd_ensure_data_mode: what CMD13 says decides.
NextByState ==
    CASE card.st = "stby" -> Goto("RESELECT")
      [] card.st = "data" -> Goto("STOP")
      [] card.st = "tran" -> Goto("PREPARE")
      [] OTHER -> /\ pc' = "RESET"
                  /\ then' = "RECHECK"
                  /\ UNCHANGED <<dev, v2later, tries, call, result, got, armed, inited, misses>>
Status   == Issue("STATUS", "STATUS", NextByState)
Reselect == Issue("RESELECT", "SELECT", Goto("RECHECK"))
Stop     == Issue("STOP", "STOP", Goto("RECHECK"))
Recheck  == Issue("RECHECK", "STATUS",
    IF card.st = "tran" THEN Goto("PREPARE") ELSE Abandon)

\* sd_do_data_command up to its loop.  buf_size is divided by block_size; by 0,
\* __aeabi_uidivmod leaves 0xffffffff and no remainder, in an int: -1 blocks.
Prepare ==
    /\ pc = "PREPARE"
    /\ pc' = "TRY"
    /\ tries' = 0
    /\ UNCHANGED <<card, inhibit, irq, removal, dev, then, v2later, call, result, got, armed,
                   inited, silent, faults, hit, misses>>

Several == call.n > 1 /\ dev.bs # 0
DataCommand ==
    CASE call.op = "write" -> IF Several THEN "WRITE_MULTIPLE" ELSE "WRITE"
      [] OTHER             -> IF Several THEN "READ_MULTIPLE" ELSE "READ"
\* Old cards take byte addresses, high-capacity cards block numbers.
\* Mutant of Argument: the byte addresses of old cards forgotten.
AuxArgument == call.block
Argument == IF dev.sdhc THEN call.block ELSE call.block * 512
Addresses(arg) == IF card.kind.hc THEN arg ELSE arg \div 512

Transferred ==
    /\ pc' = "client"
    /\ result' = "ok"
    /\ got' = IF call.op = "read" THEN {Addresses(Argument)} ELSE got
    /\ misses' = 0
    /\ UNCHANGED <<dev, then, v2later, tries, call, armed, inited>>
Try == Issue("TRY", DataCommand, Transferred)
\* -1 blocks pass the check for too many, and the loop moves none of them: when the
\* controller has no use for the DAT line or completes, the call is a success.
Undelivered ==
    /\ Reaches("TRY", DataCommand) /\ dev.bs = 0
    /\ pc' = "client"
    /\ result' = "ok"
    /\ got' = IF call.op = "read" THEN {} ELSE got
    /\ card' \in Unserved(DataCommand)
    /\ inhibit' = inhibit \ {"DAT"}
    /\ misses' = IF hit \/ misses = 0 THEN 0 ELSE misses + 1
    /\ UNCHANGED <<irq, removal, dev, then, v2later, tries, call, armed, inited, silent,
                   faults, hit>>
-----------------------------------------------------------------------------
\* The clients: disk_initialize, and disk_read and disk_write once it succeeded.
Call(c) ==
    /\ pc = "client"
    /\ c.op = "init" \/ inited
    /\ call' = c
    /\ hit' = FALSE
    /\ silent' = FALSE
    /\ IF c.op = "init" THEN pc' = "RESET" /\ then' = "RETURN"
       ELSE /\ pc' = IF dev.rca THEN "STATUS" ELSE "RESET"
            /\ then' = "STATUS"
    /\ UNCHANGED <<card, inhibit, irq, removal, dev, v2later, tries, result, got, armed, inited,
                   faults, misses>>

\* The environment: the card goes, a card comes.  The controller may not report that it
\* went: not every board wires the detect line, and sd_card_init ends with a reset of
\* the INTERRUPT register.
Disturb(c) ==
    /\ faults < MaxFaults
    /\ faults' = faults + 1
    /\ card' = c
    /\ hit' = TRUE
    /\ misses' = 0
    /\ UNCHANGED <<inhibit, removal, dev, pc, then, v2later, tries, call, result, got, armed,
                   silent, inited>>
Remove == card.st # "out" /\ irq' \in {irq, TRUE} /\ Disturb([card EXCEPT !.st = "out"])
Insert(k) == card.st = "out" /\ UNCHANGED irq /\ Disturb(Fresh(k))

\* The machine starts: notmain calls sd_init, so disk_initialize, before watchdog_init.
Init ==
    /\ \E k \in Kinds : card = Fresh(k)
    /\ \E b \in Blocks, n \in Counts : call = [op |-> "init", block |-> b, n |-> n]
    /\ pc = "RESET" /\ then = "RETURN" /\ dev = Cleared /\ tries = 0
    /\ result = "error" /\ got = {} /\ inhibit = {}
    /\ removal = FALSE /\ v2later = FALSE /\ armed = FALSE /\ inited = FALSE /\ silent = FALSE
    /\ irq = FALSE /\ faults = 0 /\ hit = FALSE /\ misses = 0
\* The watchdog fires after a second without a round of the main loop.
Watchdog ==
    /\ armed
    /\ silent \/ pc \in {"BUSY", "STUCK"}
    /\ pc # "client"
    /\ call' = [call EXCEPT !.op = "init"]
    /\ pc' = "RESET" /\ then' = "RETURN" /\ dev' = Cleared /\ tries' = 0
    /\ result' = "error" /\ got' = {}
    /\ removal' = FALSE /\ v2later' = FALSE /\ armed' = FALSE /\ inited' = FALSE /\ silent' = FALSE
    /\ hit' = TRUE
    /\ UNCHANGED <<card, inhibit, irq, faults, misses>>

Driver ==
    \/ Reset \/ GoIdle \/ IfCond \/ IoCond \/ Inquiry \/ OpCond \/ StillBusy \/ Delay
    \/ SendCid \/ RelativeAddr \/ AddrFlagged \/ Select \/ BlockLen \/ SendScr \/ BusWidth
    \/ Status \/ Reselect \/ Stop \/ Recheck \/ Prepare \/ Try \/ Undelivered
    \/ Spin
Environment ==
    \/ \E op \in Ops, b \in Blocks, n \in Counts : Call([op |-> op, block |-> b, n |-> n])
    \/ Remove
    \/ \E k \in Kinds : Insert(k)
    \/ Watchdog
Next == Driver \/ Environment

Spec == Init /\ [][Next]_vars
\* The driver goes on, the card does not stay busy when it can be ready, and the
\* watchdog fires when it is armed and not fed.
FairSpec == Spec /\ WF_vars(Driver) /\ SF_vars(OpCond) /\ SF_vars(Watchdog)
-----------------------------------------------------------------------------
TypeOK ==
    /\ card \in Cards
    /\ inhibit \in SUBSET {"CMD", "DAT"}
    /\ irq \in BOOLEAN /\ removal \in BOOLEAN
    /\ dev \in [rca : BOOLEAN, sdhc : BOOLEAN, bs : {0, 512}, bus : {1, 4}]
    /\ pc \in {"client", "RESET", "GO_IDLE", "IF_COND", "IO_COND", "INQUIRY", "OP_COND", "BUSY",
               "ALL_SEND_CID", "RELATIVE_ADDR", "SELECT", "BLOCKLEN", "SEND_SCR", "BUS_WIDTH",
               "STATUS", "RESELECT", "STOP", "RECHECK", "PREPARE", "TRY", "STUCK"}
    /\ then \in {"RETURN", "STATUS", "RECHECK"}
    /\ v2later \in BOOLEAN
    /\ tries \in 0 .. MaxRetries - 1
    /\ call \in Calls
    /\ result \in {"ok", "error"}
    /\ got \in SUBSET Nat
    /\ armed \in BOOLEAN /\ inited \in BOOLEAN /\ silent \in BOOLEAN
    /\ faults \in 0 .. MaxFaults
    /\ hit \in BOOLEAN
    /\ misses \in Nat

\* A read that reports success never delivered another block than the one it was asked
\* for, whatever commands, answers and cards were lost before; and it delivered that
\* block, unless an initialisation that broke off left the driver without a block size.
ReadIsTheBlock ==
    pc = "client" /\ result = "ok" /\ call.op = "read" =>
        /\ got \subseteq {call.block}
        /\ dev.bs # 0 => got = {call.block}

\* A call that fails, or hangs, although no fault struck it is followed by one that works,
\* whatever state the faults before left the lines, the card and the driver in: it is not
\* refused, does not hang, and moves its data.  (A call that is a success to the driver but
\* moved nothing is no failure to begin with; SuccessDelivers is about these.)
RecoversInOne == misses <= 1

\* What sd_read says ("Data read successful"): a read that reports success delivered the
\* block.  Not so after an initialisation that broke off behind RELATIVE_ADDR: the address
\* stays, the block size is 0, and any number of reads move -1 blocks with success.
SuccessDelivers ==
    pc = "client" /\ result = "ok" /\ call.op = "read" => got = {call.block}

\* The host never uses four lines with a card that uses one, unless the card was
\* exchanged and the driver has yet to find out.
HostBusNotWider ==
    dev.bus = 4 /\ dev.rca /\ ~irq /\ ~removal /\ card.st \in {"stby", "tran", "data", "rcv"}
        => card.bus = 4

\* Every call returns, but for two waits without a bound that only the watchdog ends, and
\* so end only once it runs: for a high-capacity card that the driver took for an old one,
\* and for a line that a command that failed has left inhibited.
CallsReturn ==
    (pc # "client") ~> (pc = "client" \/ (~armed /\ (Hopeless \/ pc = "STUCK")))
=============================================================================

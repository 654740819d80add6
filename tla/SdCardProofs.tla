----------------------------- MODULE SdCardProofs -----------------------------
(***************************************************************************)
(* Proofs about SdCard for every set of cards and blocks, every length of  *)
(* call and any number of faults.                                          *)
(***************************************************************************)
EXTENDS SdCard, TLAPS

\* The commands of sd_card_init that find the card idle, and those behind them.
Early == {"IF_COND", "IO_COND", "INQUIRY", "OP_COND", "BUSY"}
Late == {"ALL_SEND_CID", "RELATIVE_ADDR", "SELECT", "BLOCKLEN", "SEND_SCR",
         "BUS_WIDTH"}
Chain == {"GO_IDLE"} \cup Early \cup Late
\* The commands of sd_ensure_data_mode and of sd_do_data_command.
Transfer == {"STATUS", "RESELECT", "STOP", "RECHECK", "PREPARE", "TRY"}

Asleep == card.st \in {"out", "idle"}

\* What the driver believes of a card that takes its commands is true.
BeliefInv ==
  /\ pc \in Chain => dev.bus = 1
  /\ pc \in Early => Asleep
  /\ pc \in {"GO_IDLE", "ALL_SEND_CID", "RELATIVE_ADDR"} \cup Early => ~dev.rca
  /\ pc \in (Late \ {"ALL_SEND_CID", "RELATIVE_ADDR"}) \cup Transfer => dev.rca
  /\ dev.rca \/ pc \in Late => Asleep \/ dev.sdhc = card.kind.hc
  /\ dev.bus = 4 => Asleep \/ card.bus = 4
  /\ pc # "client" /\ then = "RETURN" => call.op = "init"

\* The lines are free, and the card is where an undisturbed initialisation expects it.
Follows ==
  /\ inhibit = {}
  /\ pc \in Early => card.st = "idle"
  /\ pc = "ALL_SEND_CID" => card.st = "ready"
  /\ pc = "RELATIVE_ADDR" => card.st = "ident"
  /\ pc = "SELECT" => card.st = "stby"
  /\ pc \in {"BLOCKLEN", "SEND_SCR", "BUS_WIDTH"} => card.st = "tran"
  /\ pc # "GO_IDLE" => card.bus = 1 /\ (card.kind.hc => card.len = 512)
  /\ pc \in {"SEND_SCR", "BUS_WIDTH"} => card.len = 512
  /\ pc = "BUS_WIDTH" => dev.bs = 512

\* Card and driver can move data.
Working ==
  /\ inhibit = {}
  /\ card.st = "tran" /\ card.len = 512
  /\ dev.bs = 512 /\ card.bus = dev.bus

Quiet == ~hit /\ ~irq /\ ~removal

\* A failure that no fault of the same call explains leaves a driver that
\* initialises the card and frees the lines, and then nothing fails.
RecoverInv ==
  /\ misses \in {0, 1}
  /\ pc = "client" /\ misses = 1 => ~dev.rca
  /\ ~hit /\ pc \in Chain => Quiet /\ (card.st = "out" \/ Follows)
  /\ ~hit /\ misses = 1 /\ pc \in Transfer =>
       /\ Quiet /\ (card.st = "out" \/ Working)
       /\ pc \in {"STATUS", "RECHECK", "PREPARE", "TRY"}

SdInv == TypeOK /\ BeliefInv /\ ReadIsTheBlock /\ RecoverInv

--------------------------------------------------------------------------------
(* Commands and the card                                                   *)

\* The card d is of the same kind as card, and in this state.
CardIs(d, st, len, bus) ==
  /\ d \in Cards /\ d.kind = card.kind
  /\ d.st = st /\ d.len = len /\ d.bus = bus

States == {"out", "idle", "ready", "ident", "stby", "tran", "data", "rcv"}

\* The fields of a card are changed one by one.
LEMMA CardExcept ==
  ASSUME card \in Cards,
         NEW st \in States,
         NEW len \in Nat \ {0}, NEW bus \in {1, 4},
         NEW d, d = [card EXCEPT !.st = st, !.len = len, !.bus = bus]
  PROVE  CardIs(d, st, len, bus)
<1>1. d.kind = card.kind /\ d.st = st /\ d.len = len /\ d.bus = bus
  BY DEF Cards
<1>2. d \in Cards
  BY DEF Cards, States
<1>3. QED
  BY <1>1, <1>2 DEF CardIs

\* What each command does to a card that obeys it.
LEMMA AfterIs ==
  ASSUME TypeOK
  PROVE  /\ CardIs(After("GO_IDLE"), "idle", card.kind.len, 1)
         /\ \A c \in {"IF_COND", "IO_COND", "INQUIRY", "SEND_SCR", "STATUS",
                      "READ", "WRITE"} :
              CardIs(After(c), card.st, card.len, card.bus)
         /\ CardIs(After("OP_COND"), "ready", card.len, card.bus)
         /\ CardIs(After("ALL_SEND_CID"), "ident", card.len, card.bus)
         /\ CardIs(After("RELATIVE_ADDR"), "stby", card.len, card.bus)
         /\ CardIs(After("SELECT"), "tran", card.len, card.bus)
         /\ CardIs(After("STOP"), "tran", card.len, card.bus)
         /\ CardIs(After("READ_MULTIPLE"), "data", card.len, card.bus)
         /\ CardIs(After("WRITE_MULTIPLE"), "rcv", card.len, card.bus)
         /\ CardIs(After("BLOCKLEN"), card.st, 512, card.bus)
         /\ CardIs(After("BUS_WIDTH"), card.st, card.len, 4)
<1>1. /\ card \in Cards /\ card.kind \in Kinds /\ card.kind.len \in Nat \ {0}
      /\ 512 \in Nat \ {0}
  BY SdAssumption DEF TypeOK, Cards
<1>2. CardIs(After("GO_IDLE"), "idle", card.kind.len, 1)
  BY <1>1 DEF After, Fresh, CardIs, Cards
<1>3. ASSUME NEW c, c # "GO_IDLE",
             NEW st \in States,
             st = (IF c \in DOMAIN Enters THEN Enters[c] ELSE card.st)
      PROVE  CardIs(After(c), st, IF c = "BLOCKLEN" THEN 512 ELSE card.len,
                    IF c = "BUS_WIDTH" THEN 4 ELSE card.bus)
  <2> DEFINE len == IF c = "BLOCKLEN" THEN 512 ELSE card.len
             bus == IF c = "BUS_WIDTH" THEN 4 ELSE card.bus
  <2>1. After(c) = [card EXCEPT !.st = st, !.len = len, !.bus = bus]
    BY <1>3 DEF After
  <2>2. len \in Nat \ {0} /\ bus \in {1, 4}
    BY <1>1 DEF Cards
  <2> HIDE DEF len, bus
  <2>3. CardIs(After(c), st, len, bus)
    <3>1. card \in Cards
      BY <1>1
    <3> DEFINE d == After(c)
    <3>2. d = [card EXCEPT !.st = st, !.len = len, !.bus = bus]
      BY <2>1
    <3> HIDE DEF d
    <3>3. CardIs(d, st, len, bus)
      BY <2>2, <3>1, <3>2, CardExcept
    <3>4. QED
      BY <3>3 DEF d
  <2>4. QED
    BY <2>3 DEF len, bus
<1>4. DOMAIN Enters = {"GO_IDLE", "OP_COND", "ALL_SEND_CID", "RELATIVE_ADDR",
                       "SELECT", "STOP", "READ_MULTIPLE", "WRITE_MULTIPLE"}
  BY DEF Enters
<1>5. card.st \in States
  BY <1>1 DEF Cards, States
<1>6. ASSUME NEW c \in {"IF_COND", "IO_COND", "INQUIRY", "SEND_SCR", "STATUS",
                        "READ", "WRITE"}
      PROVE  CardIs(After(c), card.st, card.len, card.bus)
  BY <1>3, <1>4, <1>5, <1>6
<1>7. /\ CardIs(After("OP_COND"), "ready", card.len, card.bus)
      /\ CardIs(After("ALL_SEND_CID"), "ident", card.len, card.bus)
      /\ CardIs(After("RELATIVE_ADDR"), "stby", card.len, card.bus)
  BY <1>3, <1>4 DEF Enters, States
<1>8. /\ CardIs(After("SELECT"), "tran", card.len, card.bus)
      /\ CardIs(After("STOP"), "tran", card.len, card.bus)
      /\ CardIs(After("READ_MULTIPLE"), "data", card.len, card.bus)
      /\ CardIs(After("WRITE_MULTIPLE"), "rcv", card.len, card.bus)
  BY <1>3, <1>4 DEF Enters, States
<1>9. /\ CardIs(After("BLOCKLEN"), card.st, 512, card.bus)
      /\ CardIs(After("BUS_WIDTH"), card.st, card.len, 4)
  BY <1>3, <1>4, <1>5
<1>10. QED
  BY <1>2, <1>6, <1>7, <1>8, <1>9

\* The command issued at each step of the driver.
CommandOf(p) ==
  CASE p = "RESELECT" -> "SELECT"
    [] p = "RECHECK"  -> "STATUS"
    [] p = "TRY"      -> DataCommand
    [] OTHER          -> p

\* The steps at which a command is issued.
Issuing == (Chain \ {"BUSY"}) \cup (Transfer \ {"PREPARE"})

\* A command is obeyed and answered.
Answered(c) ==
  /\ Legal(c) /\ Agree(c) /\ ~irq /\ ~removal
  /\ irq' = FALSE /\ removal' = FALSE
  /\ card' = After(c)
  /\ inhibit' \subseteq inhibit
  /\ UNCHANGED <<faults, hit, silent>>

\* A command fails by itself: a removal was seen, it is not obeyed, or its data
\* do not come through.
Refused(c) ==
  /\ removal \/ irq \/ ~Legal(c) \/ Starved(c)
  /\ card' = card \/ (Legal(c) /\ card' \in Unserved(c))
  /\ ~removal /\ ~irq /\ ~Starved(c) => Leave(Uses(c), "timeout")
  /\ UNCHANGED <<faults, hit>>

\* A fault makes it fail.
Struck(c) ==
  /\ card' = card \/ (Legal(c) /\ card' = After(c))
  /\ hit' = TRUE /\ faults' = faults + 1 /\ faults < MaxFaults

Failed(c) ==
  /\ irq' = FALSE /\ removal' = (removal \/ irq)
  /\ silent' \in BOOLEAN /\ inhibit' \in SUBSET {"CMD", "DAT"}
  /\ \/ Refused(c) /\ \E e \in {"data", "timeout", "silent"} : OnFailure(e)
     \/ Struck(c) /\ \E e \in {"crc", "timeout", "silent"} : OnFailure(e)

\* The states in which the card obeys.
LEMMA LegalIs ==
  ASSUME TypeOK
  PROVE  /\ Legal("GO_IDLE") <=> card.st # "out"
         /\ Legal("IF_COND") <=> card.st = "idle" /\ card.kind.v2
         /\ ~Legal("IO_COND")
         /\ Legal("INQUIRY") <=> card.st = "idle"
         /\ Legal("OP_COND") <=> card.st = "idle"
         /\ Legal("ALL_SEND_CID") <=> card.st = "ready"
         /\ Legal("RELATIVE_ADDR") <=> card.st = "ident"
         /\ Legal("SELECT") <=> card.st = "stby"
         /\ Legal("STATUS") <=> card.st \in {"stby", "tran", "data", "rcv"}
         /\ Legal("STOP") <=> card.st \in {"data", "rcv"}
         /\ \A c \in {"BLOCKLEN", "SEND_SCR", "BUS_WIDTH"} \cup DataCommands :
              Legal(c) <=> card.st = "tran"
<1>1. card.st \in {"out", "idle", "ready", "ident", "stby", "tran", "data", "rcv"}
  BY DEF TypeOK, Cards
<1>2. /\ Legal("GO_IDLE") <=> card.st # "out"
      /\ Legal("IF_COND") <=> card.st = "idle" /\ card.kind.v2
      /\ ~Legal("IO_COND")
      /\ Legal("INQUIRY") <=> card.st = "idle"
      /\ Legal("OP_COND") <=> card.st = "idle"
  BY <1>1 DEF Legal, Obeys, In
<1>3. /\ Legal("ALL_SEND_CID") <=> card.st = "ready"
      /\ Legal("RELATIVE_ADDR") <=> card.st = "ident"
      /\ Legal("SELECT") <=> card.st = "stby"
      /\ Legal("STATUS") <=> card.st \in {"stby", "tran", "data", "rcv"}
      /\ Legal("STOP") <=> card.st \in {"data", "rcv"}
  BY <1>1 DEF Legal, Obeys
<1>4. ASSUME NEW c \in {"BLOCKLEN", "SEND_SCR", "BUS_WIDTH"} \cup DataCommands
      PROVE  Legal(c) <=> card.st = "tran"
  BY <1>1, <1>4 DEF Legal, Obeys, DataCommands
<1>5. QED
  BY <1>2, <1>3, <1>4

\* The step and the command it issues.
LEMMA CommandIs ==
  ASSUME TypeOK, pc \in Issuing
  PROVE  /\ pc \in Chain => CommandOf(pc) = pc
         /\ pc = "STATUS" => CommandOf(pc) = "STATUS"
         /\ pc = "STOP" => CommandOf(pc) = "STOP"
         /\ pc = "RESELECT" => CommandOf(pc) = "SELECT"
         /\ pc = "RECHECK" => CommandOf(pc) = "STATUS"
         /\ pc = "TRY" => CommandOf(pc) = DataCommand
         /\ DataCommand \in DataCommands
         /\ CommandOf(pc) = "GO_IDLE" => pc = "GO_IDLE"
         /\ CommandOf(pc) = "OP_COND" => pc = "OP_COND"
  BY DEF CommandOf, DataCommand, DataCommands, Issuing, Chain, Early, Late, Transfer

\* A command that is not GO_IDLE or OP_COND leaves the driver's beliefs true.
LEMMA BeliefsStay ==
  ASSUME TypeOK, pc \in Issuing, CommandOf(pc) \notin {"GO_IDLE", "OP_COND"},
         Legal(CommandOf(pc))
  PROVE  LET d == After(CommandOf(pc)) IN
         /\ d \in Cards /\ d.kind = card.kind
         /\ d.st \in {"out", "idle"} <=> Asleep
         /\ d.bus \in {card.bus, 4}
<1> DEFINE c == CommandOf(pc)
<1>1. c \in {"IF_COND", "IO_COND", "INQUIRY", "ALL_SEND_CID", "RELATIVE_ADDR",
             "SELECT", "BLOCKLEN", "SEND_SCR", "BUS_WIDTH", "STATUS", "STOP"}
        \cup DataCommands
  BY CommandIs DEF Issuing, Chain, Early, Late, Transfer
<1> HIDE DEF c
<1>2. Legal(c)
  BY DEF c
<1>3. CASE c \in {"IF_COND", "IO_COND", "INQUIRY", "SEND_SCR", "STATUS",
                  "READ", "WRITE"}
  BY <1>3, AfterIs DEF CardIs, Asleep, c
<1>4. CASE c \in {"ALL_SEND_CID", "RELATIVE_ADDR", "SELECT", "STOP"}
  BY <1>2, <1>4, AfterIs, LegalIs DEF CardIs, Asleep, c
<1>5. CASE c \in {"BLOCKLEN", "BUS_WIDTH", "READ_MULTIPLE", "WRITE_MULTIPLE"}
  BY <1>2, <1>5, AfterIs, LegalIs DEF CardIs, Asleep, c, DataCommands
<1>6. QED
  BY <1>1, <1>3, <1>4, <1>5 DEF DataCommands

\* So does a data phase that does not take place.
LEMMA UnservedStays ==
  ASSUME TypeOK, pc \in Issuing, CommandOf(pc) \notin {"GO_IDLE", "OP_COND"},
         Legal(CommandOf(pc)), NEW d \in Unserved(CommandOf(pc))
  PROVE  /\ d \in Cards /\ d.kind = card.kind
         /\ d.st \in {"out", "idle"} <=> Asleep
         /\ d.bus \in {card.bus, 4}
<1> DEFINE c == CommandOf(pc)
           st == CASE c \in {"READ", "READ_MULTIPLE", "SEND_SCR"} -> "data"
                   [] c \in {"WRITE", "WRITE_MULTIPLE"} -> "rcv"
                   [] OTHER -> card.st
<1>1. CASE d = After(c)
  BY <1>1, BeliefsStay
<1>2. CASE d = [card EXCEPT !.st = st]
  <2>1. card \in Cards
    BY DEF TypeOK
  <2>2. /\ st \in States
        /\ st # card.st => st \in {"data", "rcv"} /\ c \in {"SEND_SCR"} \cup DataCommands
    BY <2>1 DEF States, Cards, DataCommands
  <2>3. c \in {"SEND_SCR"} \cup DataCommands => card.st = "tran"
    <3>1. Legal(c)
      OBVIOUS
    <3> HIDE DEF c
    <3>2. QED
      BY <3>1, LegalIs
  <2> HIDE DEF st, c
  <2>4. /\ d \in Cards /\ d.kind = card.kind /\ d.bus = card.bus /\ d.st = st
    BY <1>2, <2>1, <2>2 DEF Cards, States
  <2>5. QED
    BY <2>2, <2>3, <2>4 DEF Asleep
<1>3. QED
  BY <1>1, <1>2 DEF Unserved

\* The commands without data: nothing is left of them but what After says.
LEMMA UnservedIs ==
  ASSUME TypeOK, NEW c \in {"GO_IDLE", "OP_COND", "IF_COND", "IO_COND"}, NEW d \in Unserved(c)
  PROVE  d = After(c) \/ d = card
<1>1. card = [card EXCEPT !.st = card.st]
  BY DEF TypeOK, Cards
<1>2. QED
  BY <1>1 DEF Unserved

\* A card that is out obeys nothing.
LEMMA OutIgnores ==
  ASSUME TypeOK, pc \in Issuing, card.st = "out"
  PROVE  ~Legal(CommandOf(pc))
<1> DEFINE c == CommandOf(pc)
<1>1. c \in {"GO_IDLE", "IF_COND", "IO_COND", "INQUIRY", "OP_COND", "ALL_SEND_CID",
             "RELATIVE_ADDR", "SELECT", "STATUS", "STOP"}
        \cup {"BLOCKLEN", "SEND_SCR", "BUS_WIDTH"} \cup DataCommands
  BY CommandIs DEF Issuing, Chain, Early, Late, Transfer
<1> HIDE DEF c
<1>2. ~Legal(c)
  BY <1>1, LegalIs
<1>3. QED
  BY <1>2 DEF c

\* What a failing step of the driver does next.
LEMMA FailureIs ==
  ASSUME pc \in Issuing, NEW e, OnFailure(e)
  PROVE  \/ pc = "IF_COND" /\ AfterIfCond(FALSE)
         \/ pc = "IO_COND" /\ Goto("INQUIRY")
         \/ pc = "SEND_SCR" /\ ReturnWith("error", Sized)
         \/ pc = "BUS_WIDTH" /\ InitDone(dev)
         \/ /\ pc = "TRY" /\ tries + 1 # MaxRetries /\ tries' = tries + 1
            /\ UNCHANGED <<dev, pc, then, v2later, call, result, got, armed,
                           inited, misses>>
         \/ pc \in Transfer /\ ReturnWith("error", [dev EXCEPT !.rca = FALSE])
         \/ /\ pc \in Chain /\ ReturnWith("error", dev)
            /\ pc \in {"IF_COND", "IO_COND"} => e = "crc"
<1>1. CASE pc = "TRY"
  BY <1>1 DEF OnFailure, TryAgain, Abandon, Transfer
<1>2. CASE pc \in {"STATUS", "RESELECT", "STOP", "RECHECK"}
  BY <1>2 DEF OnFailure, Abandon, Transfer
<1>3. CASE pc \in {"SEND_SCR", "BUS_WIDTH"}
  BY <1>3 DEF OnFailure
<1>4. CASE pc \in {"IF_COND", "IO_COND"}
  BY <1>4 DEF OnFailure, Return, Chain, Early
<1>5. CASE pc \in Chain \ {"SEND_SCR", "BUS_WIDTH", "IF_COND", "IO_COND"}
  BY <1>5 DEF OnFailure, Return, Chain, Early, Late
<1>6. QED
  BY <1>1, <1>2, <1>3, <1>4, <1>5 DEF Issuing, Transfer

--------------------------------------------------------------------------------
(* Steps that fail                                                         *)

\* The types of what is not the driver's.
EnvType ==
  /\ card \in Cards /\ inhibit \in SUBSET {"CMD", "DAT"} /\ irq \in BOOLEAN /\ removal \in BOOLEAN
  /\ silent \in BOOLEAN /\ faults \in 0 .. MaxFaults /\ hit \in BOOLEAN

DevType == [rca : BOOLEAN, sdhc : BOOLEAN, bs : {0, 512}, bus : {1, 4}]

\* The address is forgotten, or known.
LEMMA DevExcept ==
  ASSUME TypeOK, NEW known \in BOOLEAN
  PROVE  LET d == [dev EXCEPT !.rca = known] IN
         /\ d \in DevType /\ d.rca = known
         /\ d.bus = dev.bus /\ d.sdhc = dev.sdhc
<1> DEFINE d == [dev EXCEPT !.rca = known]
<1>1. dev \in DevType
  BY DEF TypeOK, DevType
<1>2. d \in DevType
  BY <1>1 DEF DevType
<1>3. d.bus = dev.bus /\ d.sdhc = dev.sdhc
  BY <1>1 DEF DevType
<1>4. d.rca = known
  BY <1>1 DEF DevType
<1>5. QED
  BY <1>2, <1>3, <1>4

\* What the driver believes after a step, d, is true of the card after it.
Believed(d) ==
  /\ d \in DevType
  /\ d.rca => Asleep' \/ d.sdhc = card'.kind.hc
  /\ d.bus = 4 => Asleep' \/ card'.bus = 4

\* A call that returns keeps the invariant, if what failed is either explained by
\* a fault, or was the first to fail and makes the driver initialise the card.
LEMMA ReturnKeeps ==
  ASSUME SdInv, EnvType', NEW r \in {"ok", "error"}, NEW d,
         ReturnWith(r, d), Believed(d),
         r = "ok" => call.op = "init",
         r # "ok" /\ ~hit' /\ card'.st # "out" => misses = 0 /\ ~d.rca
  PROVE  SdInv'
<1>1. /\ pc' = "client" /\ dev' = d /\ result' = r /\ armed' = TRUE
      /\ inited' \in BOOLEAN /\ misses' \in {0, 1}
      /\ misses' = 1 => ~d.rca
      /\ UNCHANGED <<then, v2later, tries, call, got>>
  BY DEF ReturnWith, SdInv, RecoverInv, TypeOK
<1>2. TypeOK'
  BY <1>1 DEF SdInv, TypeOK, EnvType, Believed, DevType
<1>3. BeliefInv'
  BY <1>1 DEF Believed, BeliefInv, Chain, Early, Late, Transfer, Asleep
<1>4. ReadIsTheBlock'
  BY <1>1 DEF ReadIsTheBlock
<1>5. RecoverInv'
  BY <1>1 DEF RecoverInv, Chain, Early, Late, Transfer
<1>6. QED
  BY <1>2, <1>3, <1>4, <1>5 DEF SdInv

\* So does a step within a call.
LEMMA MoveKeeps ==
  ASSUME SdInv, EnvType', dev' \in DevType,
         pc' \in Chain \cup Transfer \cup {"RESET"},
         then' \in {"RETURN", "STATUS", "RECHECK"}, v2later' \in BOOLEAN,
         tries' \in 0 .. MaxRetries - 1,
         UNCHANGED <<call, result, got, armed, inited, misses>>,
         BeliefInv', RecoverInv'
  PROVE  SdInv'
<1>1. TypeOK'
  <2>1. pc' \in {"client", "RESET", "GO_IDLE", "IF_COND", "IO_COND", "INQUIRY",
                 "OP_COND", "BUSY", "ALL_SEND_CID", "RELATIVE_ADDR", "SELECT",
                 "BLOCKLEN", "SEND_SCR", "BUS_WIDTH", "STATUS", "RESELECT", "STOP",
                 "RECHECK", "PREPARE", "TRY"}
    BY DEF Chain, Early, Late, Transfer
  <2>2. QED
    BY <2>1 DEF SdInv, TypeOK, EnvType, DevType
<1>2. ReadIsTheBlock'
  BY DEF ReadIsTheBlock, Chain, Early, Late, Transfer
<1>3. QED
  BY <1>1, <1>2 DEF SdInv

\* What a command that fails leaves of the card, and of what is believed of it.
LEMMA FailureBelieved ==
  ASSUME SdInv, pc \in Issuing, Failed(CommandOf(pc))
  PROVE  /\ EnvType' /\ card'.kind = card.kind
         /\ pc \notin {"GO_IDLE", "OP_COND"} =>
              /\ Asleep' <=> Asleep
              /\ card'.bus \in {card.bus, 4}
         /\ pc \in {"GO_IDLE", "OP_COND"} => dev.bus = 1 /\ ~dev.rca
<1> DEFINE c == CommandOf(pc)
<1>1. ASSUME NEW d \in Unserved(c), Legal(c)
      PROVE  d \in Cards /\ d.kind = card.kind
  <2>1. CASE c \in {"GO_IDLE", "OP_COND"}
    <3>1. /\ After("GO_IDLE") \in Cards /\ After("GO_IDLE").kind = card.kind
          /\ After("OP_COND") \in Cards /\ After("OP_COND").kind = card.kind
      BY AfterIs DEF SdInv, CardIs
    <3>2. d = After(c) \/ d = card
      BY <1>1, <2>1, UnservedIs DEF SdInv
    <3> HIDE DEF c
    <3>3. QED
      BY <2>1, <3>1, <3>2 DEF SdInv, TypeOK
  <2>2. CASE c \notin {"GO_IDLE", "OP_COND"}
    BY <1>1, <2>2, UnservedStays DEF SdInv
  <2>3. QED
    BY <2>1, <2>2
<1>2. card' = card \/ (Legal(c) /\ card' \in Unserved(c))
  BY DEF Failed, Refused, Struck, Unserved
<1>3. EnvType' /\ card'.kind = card.kind
  <2>1. card' \in Cards /\ card'.kind = card.kind
    BY <1>1, <1>2 DEF SdInv, TypeOK
  <2>2. faults' \in 0 .. MaxFaults /\ hit' \in BOOLEAN
    <3>1. faults \in 0 .. MaxFaults /\ hit \in BOOLEAN /\ MaxFaults \in Nat
      BY SdAssumption DEF SdInv, TypeOK
    <3>2. \/ faults' = faults /\ hit' = hit
          \/ faults' = faults + 1 /\ hit' = TRUE /\ faults < MaxFaults
      BY DEF Failed, Refused, Struck
    <3>3. faults' \in 0 .. MaxFaults
      BY <3>1, <3>2
    <3>4. hit' \in BOOLEAN
      BY <3>1, <3>2, Zenon
    <3>5. QED
      BY <3>3, <3>4
  <2>3. /\ irq' \in BOOLEAN /\ removal' \in BOOLEAN /\ silent' \in BOOLEAN
        /\ inhibit' \in SUBSET {"CMD", "DAT"}
    BY DEF Failed, SdInv, TypeOK
  <2>4. QED
    BY <2>1, <2>2, <2>3 DEF EnvType
<1>4. ASSUME pc \notin {"GO_IDLE", "OP_COND"}
      PROVE  (Asleep' <=> Asleep) /\ card'.bus \in {card.bus, 4}
  <2>1. c \notin {"GO_IDLE", "OP_COND"}
    BY <1>4, CommandIs DEF SdInv
  <2>2. QED
    BY <1>2, <2>1, UnservedStays DEF SdInv, Asleep
<1>5. pc \in {"GO_IDLE", "OP_COND"} => dev.bus = 1 /\ ~dev.rca
  BY DEF SdInv, BeliefInv, Chain, Early
<1>6. QED
  BY <1>3, <1>4, <1>5

\* An undisturbed initialisation of a card that is there is obeyed, but for CMD8
\* and CMD5; and so is the call after one that failed.
LEMMA UndisturbedObeyed ==
  ASSUME SdInv, pc \in Issuing, ~hit, card.st # "out",
         pc \in Chain \ {"IF_COND", "IO_COND"} \/ (pc \in Transfer /\ misses = 1)
  PROVE  ~Refused(CommandOf(pc))
<1> DEFINE c == CommandOf(pc)
<1>1. CASE pc \in Chain
  <2>1. ~irq /\ ~removal /\ Follows /\ c = pc
    BY <1>1, CommandIs DEF SdInv, RecoverInv, Quiet
  <2>2. Legal(c)
    <3>1. CASE pc \in {"GO_IDLE", "INQUIRY", "OP_COND"}
      BY <2>1, <3>1, LegalIs DEF SdInv, Follows, Early
    <3>2. CASE pc \in {"ALL_SEND_CID", "RELATIVE_ADDR", "SELECT"}
      BY <2>1, <3>2, LegalIs DEF SdInv, Follows
    <3>3. CASE pc \in {"BLOCKLEN", "SEND_SCR", "BUS_WIDTH"}
      <4>1. card.st = "tran"
        BY <2>1, <3>3 DEF Follows
      <4>2. c \in {"BLOCKLEN", "SEND_SCR", "BUS_WIDTH"} \cup DataCommands
        BY <2>1, <3>3
      <4> HIDE DEF c
      <4>3. QED
        BY <4>1, <4>2, LegalIs DEF SdInv
    <3>4. QED
      BY <1>1, <3>1, <3>2, <3>3 DEF Chain, Early, Late, Transfer, Issuing
  <2>3. Agree(c)
    BY <1>1, <2>1
       DEF SdInv, Follows, BeliefInv, Agree, DataCommands, Chain, Early, Late
  <2>4. inhibit = {}
    BY <2>1 DEF Follows
  <2>5. QED
    BY <2>1, <2>2, <2>3, <2>4 DEF Refused, Starved
<1>2. CASE pc \in Transfer
  <2>1. /\ ~irq /\ ~removal /\ Working
        /\ pc \in {"STATUS", "RECHECK", "TRY"}
    BY <1>2 DEF SdInv, RecoverInv, Quiet, Issuing, Chain, Early, Late, Transfer
  <2>2. c = "STATUS" \/ c \in DataCommands
    BY <2>1, CommandIs DEF SdInv
  <2>3. Legal(c)
    <3> HIDE DEF c
    <3>1. card.st = "tran"
      BY <2>1 DEF Working
    <3>2. c = "STATUS" => Legal(c)
      BY <3>1, LegalIs DEF SdInv
    <3>3. c \in DataCommands => Legal(c)
      BY <3>1, LegalIs DEF SdInv
    <3>4. QED
      BY <2>2, <3>2, <3>3
  <2>4. Agree(c)
    BY <2>1, <2>2 DEF Agree, Working, DataCommands
  <2>5. inhibit = {}
    BY <2>1 DEF Working
  <2>6. QED
    BY <2>1, <2>3, <2>4, <2>5 DEF Refused, Starved
<1>3. QED
  BY <1>1, <1>2 DEF Issuing

\* emmc_reset_cmd: CMD8 and CMD5, which fail on an ordinary card, leave free lines.
LEMMA LineFreed ==
  ASSUME pc \in {"IF_COND", "IO_COND"}, Refused(pc), ~irq, ~removal, inhibit = {}
  PROVE  inhibit' = {}
<1>1. ~Starved(pc)
  BY DEF Starved, Agree, DataCommands
<1>2. Leave(Uses(pc), "timeout")
  BY <1>1 DEF Refused
<1>3. Uses(pc) = {"CMD"}
  BY DEF Uses, DataCommands
<1>4. PICK left \in SUBSET {"CMD"} : inhibit' = (inhibit \cup left) \ {"CMD"}
  BY <1>2, <1>3 DEF Leave
<1>5. QED
  BY <1>4

\* A step of the driver that fails keeps the invariant.
LEMMA FailureKeeps ==
  ASSUME SdInv, pc \in Issuing, Failed(CommandOf(pc))
  PROVE  SdInv'
<1> DEFINE c == CommandOf(pc)
<1>1. EnvType' /\ dev \in DevType
  BY FailureBelieved DEF SdInv, TypeOK, DevType
<1>2. Believed(dev) /\ (dev.rca \/ pc \in Late => Asleep' \/ dev.sdhc = card'.kind.hc)
  <2>1. CASE pc \in {"GO_IDLE", "OP_COND"}
    BY <1>1, <2>1, FailureBelieved DEF Believed, Late
  <2>2. CASE pc \notin {"GO_IDLE", "OP_COND"}
    BY <1>1, <2>2, FailureBelieved
       DEF Believed, SdInv, BeliefInv, TypeOK, Cards
  <2>3. QED
    BY <2>1, <2>2
<1>3. Refused(c) \/ hit' = TRUE
  BY DEF Failed, Struck
<1>4. ASSUME ~hit'
      PROVE  /\ Refused(c) /\ ~hit
             /\ card'.st # "out" => card.st # "out"
  <2>1. Refused(c)
    BY <1>3, <1>4
  <2>2. card' = card \/ Legal(c)
    BY <2>1 DEF Refused
  <2>3. card'.st # "out" => card.st # "out"
    BY <2>2, OutIgnores DEF SdInv
  <2>4. QED
    BY <1>4, <2>1, <2>3 DEF Refused
<1>5. PICK e : OnFailure(e) /\ (e = "crc" => hit')
  BY DEF Failed, Struck
<1>6. ASSUME ~hit', card'.st # "out", pc \in Chain \ {"IF_COND", "IO_COND"}
      PROVE  FALSE
  BY <1>4, <1>6, UndisturbedObeyed
<1>7. ASSUME ~hit', card'.st # "out", pc \in Transfer
      PROVE  misses = 0
  BY <1>4, <1>7, UndisturbedObeyed DEF SdInv, RecoverInv
<1>8. CASE pc = "IF_COND" /\ AfterIfCond(FALSE)
  <2>1. /\ pc' = "IO_COND" /\ v2later' = FALSE
        /\ UNCHANGED <<dev, then, tries, call, result, got, armed, inited, misses>>
    BY <1>8 DEF AfterIfCond
  <2>2. CardIs(card', card.st, card.len, card.bus)
    <3>1. c = "IF_COND" /\ CardIs(After("IF_COND"), card.st, card.len, card.bus)
      BY <1>8, AfterIs, CommandIs DEF SdInv, Chain, Early
    <3>2. card' = card \/ card' = After("IF_COND")
      BY <3>1, UnservedIs DEF SdInv, Failed, Refused, Struck
    <3>3. QED
      BY <3>1, <3>2 DEF CardIs, SdInv, TypeOK
  <2>3. BeliefInv'
    BY <1>8, <2>1, <2>2
       DEF SdInv, BeliefInv, CardIs, Chain, Early, Late, Transfer, Asleep
  <2>4. RecoverInv'
    <3>1. misses' = misses /\ pc' = "IO_COND" /\ pc \in Chain
      BY <1>8, <2>1 DEF Chain, Early
    <3>2. ASSUME ~hit'
          PROVE  Quiet' /\ (card'.st = "out" \/ Follows')
      <4>1. Quiet /\ (card.st = "out" \/ Follows)
        BY <1>4, <3>1, <3>2 DEF SdInv, RecoverInv
      <4>2. Quiet'
        BY <3>2, <4>1 DEF Failed, Quiet
      <4>3. inhibit = {} => inhibit' = {}
        BY <1>4, <1>8, <3>1, <3>2, <4>1, LineFreed, CommandIs DEF Quiet, SdInv
      <4>4. Follows => Follows'
        BY <1>8, <2>1, <2>2, <4>3 DEF Follows, CardIs, Early
      <4>5. QED
        BY <2>2, <4>1, <4>2, <4>4 DEF CardIs
    <3>3. QED
      BY <3>1, <3>2 DEF SdInv, RecoverInv, Early, Late, Transfer
  <2>5. QED
    BY <1>1, <2>1, <2>3, <2>4, MoveKeeps DEF SdInv, TypeOK, Chain, Early
<1>9. CASE pc = "IO_COND" /\ Goto("INQUIRY")
  <2>1. /\ pc' = "INQUIRY"
        /\ UNCHANGED <<dev, then, v2later, tries, call, result, got, armed, inited,
                       misses>>
    BY <1>9 DEF Goto
  <2>2. CardIs(card', card.st, card.len, card.bus)
    <3>1. c = "IO_COND" /\ CardIs(After("IO_COND"), card.st, card.len, card.bus)
      BY <1>9, AfterIs, CommandIs DEF SdInv, Chain, Early
    <3>2. card' = card \/ card' = After("IO_COND")
      BY <3>1, UnservedIs DEF SdInv, Failed, Refused, Struck
    <3>3. QED
      BY <3>1, <3>2 DEF CardIs, SdInv, TypeOK
  <2>3. BeliefInv'
    BY <1>9, <2>1, <2>2
       DEF SdInv, BeliefInv, CardIs, Chain, Early, Late, Transfer, Asleep
  <2>4. RecoverInv'
    <3>1. misses' = misses /\ pc' = "INQUIRY" /\ pc \in Chain
      BY <1>9, <2>1 DEF Chain, Early
    <3>2. ASSUME ~hit'
          PROVE  Quiet' /\ (card'.st = "out" \/ Follows')
      <4>1. Quiet /\ (card.st = "out" \/ Follows)
        BY <1>4, <3>1, <3>2 DEF SdInv, RecoverInv
      <4>2. Quiet'
        BY <3>2, <4>1 DEF Failed, Quiet
      <4>3. inhibit = {} => inhibit' = {}
        BY <1>4, <1>9, <3>1, <3>2, <4>1, LineFreed, CommandIs DEF Quiet, SdInv
      <4>4. Follows => Follows'
        BY <1>9, <2>1, <2>2, <4>3 DEF Follows, CardIs, Early
      <4>5. QED
        BY <2>2, <4>1, <4>2, <4>4 DEF CardIs
    <3>3. QED
      BY <3>1, <3>2 DEF SdInv, RecoverInv, Early, Late, Transfer
  <2>5. QED
    BY <1>1, <2>1, <2>3, <2>4, MoveKeeps DEF SdInv, TypeOK, Chain, Early
<1>10. CASE pc = "SEND_SCR" /\ ReturnWith("error", Sized)
  <2>1. Believed(Sized)
    BY <1>1, <1>2 DEF Believed, Sized, DevType
  <2>2. QED
    BY <1>1, <1>6, <1>10, <2>1, ReturnKeeps DEF Chain, Late
<1>11. CASE pc = "BUS_WIDTH" /\ InitDone(dev)
  <2>1. CASE then = "RETURN"
    <3>1. ReturnWith("ok", dev) /\ call.op = "init"
      BY <1>11, <2>1 DEF InitDone, SdInv, BeliefInv
    <3>2. QED
      BY <1>1, <1>2, <3>1, ReturnKeeps
  <2>2. CASE then # "RETURN"
    <3>1. /\ pc' = then /\ dev' = dev /\ then \in {"STATUS", "RECHECK"}
          /\ UNCHANGED <<then, v2later, tries, call, result, got, armed, inited,
                         misses>>
      BY <1>11, <2>2 DEF InitDone, SdInv, TypeOK
    <3>2. BeliefInv'
      BY <1>2, <1>11, <3>1
         DEF SdInv, BeliefInv, Believed, Chain, Early, Late, Transfer
    <3>3. RecoverInv'
      BY <1>4, <1>6, <1>11, <3>1
         DEF SdInv, RecoverInv, Quiet, Chain, Early, Late, Transfer, Failed
    <3>4. QED
      BY <1>1, <3>1, <3>2, <3>3, MoveKeeps DEF SdInv, TypeOK, Transfer
  <2>3. QED
    BY <2>1, <2>2
<1>12. CASE /\ pc = "TRY" /\ tries + 1 # MaxRetries /\ tries' = tries + 1
            /\ UNCHANGED <<dev, pc, then, v2later, call, result, got, armed,
                           inited, misses>>
  <2>1. tries' \in 0 .. MaxRetries - 1
    BY <1>12 DEF SdInv, TypeOK, MaxRetries
  <2>2. BeliefInv'
    BY <1>2, <1>12
       DEF SdInv, BeliefInv, Believed, Chain, Early, Late, Transfer
  <2>3. RecoverInv'
    <3>1. misses' = misses /\ pc' = "TRY"
      BY <1>12
    <3>2. ASSUME ~hit', misses = 1
          PROVE  Quiet' /\ card'.st = "out"
      <4>1. Quiet
        BY <1>4, <1>12, <3>2 DEF SdInv, RecoverInv, Transfer
      <4>2. irq' = FALSE /\ removal' = FALSE
        BY <4>1 DEF Failed, Quiet
      <4>3. card'.st = "out"
        BY <1>7, <1>12, <3>2 DEF Transfer
      <4>4. QED
        BY <3>2, <4>2, <4>3 DEF Quiet
    <3>3. QED
      BY <3>1, <3>2 DEF SdInv, RecoverInv, Chain, Early, Late
  <2>4. QED
    BY <1>1, <1>12, <2>1, <2>2, <2>3, MoveKeeps DEF SdInv, TypeOK, Transfer
<1>13. CASE pc \in Transfer /\ ReturnWith("error", [dev EXCEPT !.rca = FALSE])
  <2> DEFINE d == [dev EXCEPT !.rca = FALSE]
  <2>1. d \in DevType /\ ~d.rca /\ d.bus = dev.bus
    BY DevExcept DEF SdInv
  <2> HIDE DEF d
  <2>2. Believed(d)
    BY <1>2, <2>1 DEF Believed
  <2>3. ReturnWith("error", d)
    BY <1>13 DEF d
  <2>4. QED
    BY <1>1, <1>7, <1>13, <2>1, <2>2, <2>3, ReturnKeeps
<1>14. CASE /\ pc \in Chain /\ ReturnWith("error", dev)
            /\ pc \in {"IF_COND", "IO_COND"} => e = "crc"
  <2>1. hit' \/ card'.st = "out"
    BY <1>5, <1>6, <1>14
  <2>2. QED
    BY <1>1, <1>2, <1>14, <2>1, ReturnKeeps
<1>15. QED
  BY <1>5, <1>8, <1>9, <1>10, <1>11, <1>12, <1>13, <1>14, FailureIs

--------------------------------------------------------------------------------
(* The commands of sd_card_init                                            *)

\* A command that is answered leaves a card.
LEMMA AnsweredType ==
  ASSUME TypeOK, pc \in Issuing, Answered(CommandOf(pc))
  PROVE  EnvType'
<1>1. After(CommandOf(pc)) \in Cards
  <2>1. CASE CommandOf(pc) \in {"GO_IDLE", "OP_COND"}
    BY <2>1, AfterIs DEF CardIs
  <2>2. CASE CommandOf(pc) \notin {"GO_IDLE", "OP_COND"}
    BY <2>2, BeliefsStay DEF Answered
  <2>3. QED
    BY <2>1, <2>2
<1>2. QED
  BY <1>1 DEF Answered, EnvType, TypeOK

\* The driver waits for a line: not in a call that follows one that failed.
LEMMA HangKeeps ==
  ASSUME SdInv, pc \in Issuing, NEW c, c = CommandOf(pc), Blocked(c), ~irq, ~removal,
         Hang, irq' = FALSE, removal' = FALSE
  PROVE  SdInv'
<1>1. /\ pc' = "STUCK"
      /\ misses' = IF hit \/ card.st = "out" THEN 0 ELSE misses + 1
      /\ UNCHANGED <<card, inhibit, dev, then, v2later, tries, call, result, got, armed,
                     inited, silent, faults, hit>>
  BY DEF Hang
<1>2. ~hit /\ card.st # "out" => misses = 0
  <2>1. inhibit # {}
    BY DEF Blocked
  <2>2. pc \in Chain \/ pc \in Transfer
    BY DEF Issuing
  <2>3. QED
    BY <2>1, <2>2 DEF SdInv, RecoverInv, Follows, Working
<1>3. misses' \in {0, 1}
  BY <1>1, <1>2
<1>4. TypeOK'
  <2>1. /\ misses' \in Nat
        /\ irq' \in BOOLEAN /\ removal' \in BOOLEAN
    <3>1. misses' \in Nat
      BY <1>3
    <3>2. irq' \in BOOLEAN /\ removal' \in BOOLEAN
      OBVIOUS
    <3>3. QED
      BY <3>1, <3>2
  <2>2. TypeOK
    BY DEF SdInv
  <2>3. EnvType'
    BY <1>1, <2>1, <2>2 DEF EnvType, TypeOK
  <2>4. dev' \in DevType
    BY <1>1, <2>2 DEF TypeOK, DevType
  <2>5. QED
    BY <1>1, <2>1, <2>2, <2>3, <2>4 DEF EnvType, DevType, TypeOK
<1>5. BeliefInv'
  BY <1>1 DEF SdInv, BeliefInv, Issuing, Chain, Early, Late, Transfer, Asleep
<1>6. ReadIsTheBlock'
  BY <1>1 DEF ReadIsTheBlock
<1>7. RecoverInv'
  BY <1>1, <1>3 DEF RecoverInv, Chain, Early, Late, Transfer
<1>8. QED
  BY <1>4, <1>5, <1>6, <1>7 DEF SdInv

\* What a failure leaves inhibited are lines.
LEMMA LeavesLines ==
  ASSUME TypeOK, NEW lines \in SUBSET {"CMD", "DAT"}, NEW e, Leave(lines, e)
  PROVE  inhibit' \in SUBSET {"CMD", "DAT"}
<1>1. PICK left \in SUBSET lines :
        inhibit' = (inhibit \cup left)
                     \ (IF pc \in {"IF_COND", "IO_COND"} /\ e = "timeout" THEN {"CMD"} ELSE {})
  BY DEF Leave
<1>2. inhibit \in SUBSET {"CMD", "DAT"}
  BY DEF TypeOK
<1>3. QED
  BY <1>1, <1>2

\* A command is answered, or fails or hangs and keeps the invariant.
LEMMA IssueIs ==
  ASSUME SdInv, NEW at \in Issuing, NEW ACTION Ok, NEW c, c = CommandOf(at), 
         Issue(at, c, Ok)
  PROVE  pc = at /\ (SdInv' \/ (Answered(c) /\ EnvType' /\ Ok))
<1>1. pc = at /\ c = CommandOf(pc) /\ irq' = FALSE /\ removal' = (removal \/ irq)
  BY DEF Issue
<1>2. CASE removal \/ irq
  <2>1. UNCHANGED <<card, inhibit, faults, hit, silent>> /\ OnFailure("silent")
    BY <1>1, <1>2 DEF Issue
  <2>2. Failed(c)
    BY <1>1, <1>2, <2>1 DEF Failed, Refused, SdInv, TypeOK
  <2>3. QED
    BY <1>1, <2>2, FailureKeeps
<1>3. CASE ~(removal \/ irq) /\ Blocked(c)
  <2>1. Hang /\ irq' = FALSE /\ removal' = FALSE /\ ~irq /\ ~removal
    BY <1>1, <1>3 DEF Issue
  <2>2. QED
    BY <1>1, <1>3, <2>1, HangKeeps
<1>4. CASE ~(removal \/ irq) /\ ~Blocked(c)
  <2>1. Exchange(c, Ok)
    BY <1>1, <1>4 DEF Issue
  <2>2. irq' = FALSE /\ removal' = FALSE /\ ~irq /\ ~removal
    BY <1>1, <1>4
  <2>3. /\ \A lines \in SUBSET {"CMD", "DAT"} : \A e :
             Leave(lines, e) => inhibit' \in SUBSET {"CMD", "DAT"}
        /\ Uses(c) \in SUBSET {"CMD", "DAT"}
    BY LeavesLines DEF SdInv, Uses
  <2>4. CASE /\ Legal(c) /\ Agree(c) /\ card' = After(c)
             /\ inhibit' = inhibit \ Uses(c)
             /\ UNCHANGED <<faults, hit, silent>> /\ Ok
    <3>1. Answered(c)
      BY <2>2, <2>4 DEF Answered
    <3>2. EnvType'
      BY <1>1, <3>1, AnsweredType DEF SdInv
    <3>3. QED
      BY <1>1, <2>4, <3>1, <3>2
  <2>5. CASE /\ Legal(c) /\ Starved(c) /\ card' \in Unserved(c)
             /\ silent' \in {silent, TRUE}
             /\ Leave({"DAT"}, "data")
             /\ UNCHANGED <<faults, hit>> /\ OnFailure("data")
    <3>1. Refused(c)
      BY <2>5 DEF Refused
    <3>2. silent' \in BOOLEAN /\ inhibit' \in SUBSET {"CMD", "DAT"}
      BY <2>3, <2>5 DEF SdInv, TypeOK
    <3>3. Failed(c)
      BY <2>2, <2>5, <3>1, <3>2 DEF Failed
    <3>4. QED
      BY <1>1, <3>3, FailureKeeps
  <2>6. CASE /\ ~Legal(c) /\ Leave(Uses(c), "timeout")
             /\ UNCHANGED <<card, faults, hit, silent>> /\ OnFailure("timeout")
    <3>1. Refused(c)
      BY <2>6 DEF Refused
    <3>2. silent' \in BOOLEAN /\ inhibit' \in SUBSET {"CMD", "DAT"}
      BY <2>3, <2>6 DEF SdInv, TypeOK
    <3>3. Failed(c)
      BY <2>2, <2>6, <3>1, <3>2 DEF Failed
    <3>4. QED
      BY <1>1, <3>3, FailureKeeps
  <2>7. CASE /\ faults < MaxFaults
             /\ faults' = faults + 1
             /\ hit' = TRUE
             /\ card' \in {card} \cup (IF Legal(c) THEN {After(c)} ELSE {})
             /\ \E e \in {"silent", "timeout", "crc"} :
                   /\ silent' = (silent \/ e = "silent")
                   /\ Leave(Uses(c), e)
                   /\ OnFailure(e)
    <3>1. PICK e \in {"silent", "timeout", "crc"} :
            silent' = (silent \/ e = "silent") /\ Leave(Uses(c), e) /\ OnFailure(e)
      BY <2>7
    <3>2. silent' \in BOOLEAN /\ inhibit' \in SUBSET {"CMD", "DAT"}
      BY <2>3, <3>1
    <3>3. Struck(c)
      BY <2>7 DEF Struck
    <3>4. Failed(c)
      BY <2>2, <3>1, <3>2, <3>3 DEF Failed
    <3>5. QED
      BY <1>1, <3>4, FailureKeeps
  <2>8. QED
    BY <2>1, <2>4, <2>5, <2>6, <2>7 DEF Exchange
<1>5. QED
  BY <1>2, <1>3, <1>4

\* GO_IDLE_STATE: the card starts anew.
LEMMA GoIdleKeeps == ASSUME SdInv, GoIdle PROVE SdInv'
<1>1. /\ pc = "GO_IDLE"
      /\ SdInv' \/ (Answered("GO_IDLE") /\ EnvType' /\ Goto("IF_COND"))
  <2>1. "GO_IDLE" \in Issuing /\ "GO_IDLE" = CommandOf("GO_IDLE")
    BY DEF CommandOf, Issuing, Chain, Early, Late, Transfer
  <2>2. Issue("GO_IDLE", "GO_IDLE", Goto("IF_COND"))
    BY DEF GoIdle
  <2>3. QED
    BY <2>1, <2>2, IssueIs
<1>2. CASE Answered("GO_IDLE") /\ EnvType' /\ Goto("IF_COND")
  <2>1. /\ pc' = "IF_COND"
        /\ UNCHANGED <<dev, then, v2later, tries, call, result, got, armed,
                      inited, misses>>
    BY <1>2 DEF Goto
  <2>2. /\ CardIs(card', "idle", card.kind.len, 1)
        /\ ~irq' /\ ~removal' /\ hit' = hit /\ inhibit' \subseteq inhibit
    BY <1>2, AfterIs DEF Answered, SdInv
  <2>3. BeliefInv'
    BY <1>1, <1>2, <2>1, <2>2, LegalIs
       DEF SdInv, BeliefInv, Answered, CardIs, Chain, Early, Late, Transfer, Asleep
  <2>4. RecoverInv'
    BY <1>1, <1>2, <2>1, <2>2, LegalIs, SdAssumption
       DEF SdInv, TypeOK, Cards, RecoverInv, BeliefInv, Follows, Answered, Quiet,
           CardIs, Asleep, Chain, Early, Late, Transfer
  <2>5. dev' \in DevType /\ v2later' \in BOOLEAN
    BY <2>1 DEF SdInv, TypeOK, DevType, Sized, Addressed
  <2>6. QED
    BY <1>2, <2>1, <2>3, <2>4, <2>5, MoveKeeps
       DEF SdInv, TypeOK, Chain, Early, Late
<1>3. QED
  BY <1>1, <1>2

\* CMD8: what is answered is remembered.
LEMMA IfCondKeeps == ASSUME SdInv, IfCond PROVE SdInv'
<1> DEFINE Told == AfterIfCond(TRUE)
<1> HIDE DEF Told
<1>1. /\ pc = "IF_COND"
      /\ SdInv' \/ (Answered("IF_COND") /\ EnvType' /\ Told)
  <2>1. "IF_COND" \in Issuing /\ "IF_COND" = CommandOf("IF_COND")
    BY DEF CommandOf, Issuing, Chain, Early, Late, Transfer
  <2>2. Issue("IF_COND", "IF_COND", Told)
    BY DEF IfCond, Told
  <2>3. QED
    BY <2>1, <2>2, IssueIs
<1>2. CASE Answered("IF_COND") /\ EnvType' /\ Told
  <2>1. /\ pc' = "IO_COND" /\ v2later' = TRUE
        /\ UNCHANGED <<dev, then, tries, call, result, got, armed, inited,
                      misses>>
    BY <1>2 DEF AfterIfCond, Told
  <2>2. /\ CardIs(card', card.st, card.len, card.bus)
        /\ ~irq' /\ ~removal' /\ hit' = hit /\ inhibit' \subseteq inhibit
    BY <1>2, AfterIs DEF Answered, SdInv
  <2>3. BeliefInv'
    BY <1>1, <1>2, <2>1, <2>2, LegalIs
       DEF SdInv, BeliefInv, Answered, CardIs, Chain, Early, Late, Transfer, Asleep
  <2>4. RecoverInv'
    BY <1>1, <1>2, <2>1, <2>2, LegalIs, SdAssumption
       DEF SdInv, TypeOK, Cards, RecoverInv, BeliefInv, Follows, Answered, Quiet,
           CardIs, Asleep, Chain, Early, Late, Transfer
  <2>5. dev' \in DevType /\ v2later' \in BOOLEAN
    BY <2>1 DEF SdInv, TypeOK, DevType, Sized, Addressed
  <2>6. QED
    BY <1>2, <2>1, <2>3, <2>4, <2>5, MoveKeeps
       DEF SdInv, TypeOK, Chain, Early, Late
<1>3. QED
  BY <1>1, <1>2

\* ACMD41 with no argument: a question only.
LEMMA InquiryKeeps == ASSUME SdInv, Inquiry PROVE SdInv'
<1>1. /\ pc = "INQUIRY"
      /\ SdInv' \/ (Answered("INQUIRY") /\ EnvType' /\ Goto("OP_COND"))
  <2>1. "INQUIRY" \in Issuing /\ "INQUIRY" = CommandOf("INQUIRY")
    BY DEF CommandOf, Issuing, Chain, Early, Late, Transfer
  <2>2. Issue("INQUIRY", "INQUIRY", Goto("OP_COND"))
    BY DEF Inquiry
  <2>3. QED
    BY <2>1, <2>2, IssueIs
<1>2. CASE Answered("INQUIRY") /\ EnvType' /\ Goto("OP_COND")
  <2>1. /\ pc' = "OP_COND"
        /\ UNCHANGED <<dev, then, v2later, tries, call, result, got, armed,
                      inited, misses>>
    BY <1>2 DEF Goto
  <2>2. /\ CardIs(card', card.st, card.len, card.bus)
        /\ ~irq' /\ ~removal' /\ hit' = hit /\ inhibit' \subseteq inhibit
    BY <1>2, AfterIs DEF Answered, SdInv
  <2>3. BeliefInv'
    BY <1>1, <1>2, <2>1, <2>2, LegalIs
       DEF SdInv, BeliefInv, Answered, CardIs, Chain, Early, Late, Transfer, Asleep
  <2>4. RecoverInv'
    BY <1>1, <1>2, <2>1, <2>2, LegalIs, SdAssumption
       DEF SdInv, TypeOK, Cards, RecoverInv, BeliefInv, Follows, Answered, Quiet,
           CardIs, Asleep, Chain, Early, Late, Transfer
  <2>5. dev' \in DevType /\ v2later' \in BOOLEAN
    BY <2>1 DEF SdInv, TypeOK, DevType, Sized, Addressed
  <2>6. QED
    BY <1>2, <2>1, <2>3, <2>4, <2>5, MoveKeeps
       DEF SdInv, TypeOK, Chain, Early, Late
<1>3. QED
  BY <1>1, <1>2

\* ACMD41: the driver learns how the card is addressed.
LEMMA OpCondKeeps == ASSUME SdInv, OpCond PROVE SdInv'
<1>1. /\ pc = "OP_COND"
      /\ SdInv' \/ (Answered("OP_COND") /\ EnvType' /\ Identified)
  <2>1. "OP_COND" \in Issuing /\ "OP_COND" = CommandOf("OP_COND")
    BY DEF CommandOf, Issuing, Chain, Early, Late, Transfer
  <2>2. Issue("OP_COND", "OP_COND", Identified)
    BY DEF OpCond
  <2>3. QED
    BY <2>1, <2>2, IssueIs
<1>2. CASE Answered("OP_COND") /\ EnvType' /\ Identified
  <2>1. /\ pc' = "ALL_SEND_CID" /\ dev' = [dev EXCEPT !.sdhc = card.kind.hc]
        /\ UNCHANGED <<then, v2later, tries, call, result, got, armed, inited,
                      misses>>
    BY <1>2 DEF Identified
  <2>2. /\ CardIs(card', "ready", card.len, card.bus)
        /\ ~irq' /\ ~removal' /\ hit' = hit /\ inhibit' \subseteq inhibit
    BY <1>2, AfterIs DEF Answered, SdInv
  <2>3. BeliefInv'
    BY <1>1, <1>2, <2>1, <2>2, LegalIs
       DEF SdInv, BeliefInv, Answered, CardIs, Chain, Early, Late, Transfer, Asleep
  <2>4. RecoverInv'
    BY <1>1, <1>2, <2>1, <2>2, LegalIs, SdAssumption
       DEF SdInv, TypeOK, Cards, RecoverInv, BeliefInv, Follows, Answered, Quiet,
           CardIs, Asleep, Chain, Early, Late, Transfer
  <2>5. dev' \in DevType /\ v2later' \in BOOLEAN
    <3>1. card.kind.hc \in BOOLEAN
      BY SdAssumption DEF SdInv, TypeOK, Cards
    <3>2. dev \in DevType
      BY DEF SdInv, TypeOK, DevType
    <3>3. [dev EXCEPT !.sdhc = card.kind.hc] \in DevType
      BY <3>1, <3>2 DEF DevType
    <3>4. QED
      BY <2>1, <3>3 DEF SdInv, TypeOK
  <2>6. QED
    BY <1>2, <2>1, <2>3, <2>4, <2>5, MoveKeeps
       DEF SdInv, TypeOK, Chain, Early, Late
<1>3. QED
  BY <1>1, <1>2

\* CMD2.
LEMMA SendCidKeeps == ASSUME SdInv, SendCid PROVE SdInv'
<1>1. /\ pc = "ALL_SEND_CID"
      /\ SdInv' \/ (Answered("ALL_SEND_CID") /\ EnvType' /\ Goto("RELATIVE_ADDR"))
  <2>1. "ALL_SEND_CID" \in Issuing /\ "ALL_SEND_CID" = CommandOf("ALL_SEND_CID")
    BY DEF CommandOf, Issuing, Chain, Early, Late, Transfer
  <2>2. Issue("ALL_SEND_CID", "ALL_SEND_CID", Goto("RELATIVE_ADDR"))
    BY DEF SendCid
  <2>3. QED
    BY <2>1, <2>2, IssueIs
<1>2. CASE Answered("ALL_SEND_CID") /\ EnvType' /\ Goto("RELATIVE_ADDR")
  <2>1. /\ pc' = "RELATIVE_ADDR"
        /\ UNCHANGED <<dev, then, v2later, tries, call, result, got, armed,
                      inited, misses>>
    BY <1>2 DEF Goto
  <2>2. /\ CardIs(card', "ident", card.len, card.bus)
        /\ ~irq' /\ ~removal' /\ hit' = hit /\ inhibit' \subseteq inhibit
    BY <1>2, AfterIs DEF Answered, SdInv
  <2>3. BeliefInv'
    BY <1>1, <1>2, <2>1, <2>2, LegalIs
       DEF SdInv, BeliefInv, Answered, CardIs, Chain, Early, Late, Transfer, Asleep
  <2>4. RecoverInv'
    BY <1>1, <1>2, <2>1, <2>2, LegalIs, SdAssumption
       DEF SdInv, TypeOK, Cards, RecoverInv, BeliefInv, Follows, Answered, Quiet,
           CardIs, Asleep, Chain, Early, Late, Transfer
  <2>5. dev' \in DevType /\ v2later' \in BOOLEAN
    BY <2>1 DEF SdInv, TypeOK, DevType, Sized, Addressed
  <2>6. QED
    BY <1>2, <2>1, <2>3, <2>4, <2>5, MoveKeeps
       DEF SdInv, TypeOK, Chain, Early, Late
<1>3. QED
  BY <1>1, <1>2

\* CMD5: only an SDIO card would answer.
LEMMA IoCondKeeps == ASSUME SdInv, IoCond PROVE SdInv'
<1>1. "IO_COND" \in Issuing /\ "IO_COND" = CommandOf("IO_COND")
  BY DEF CommandOf, Issuing, Chain, Early, Late, Transfer
<1>2. Issue("IO_COND", "IO_COND", Return("error"))
  BY DEF IoCond
<1>3. SdInv' \/ Answered("IO_COND")
  BY <1>1, <1>2, IssueIs
<1>4. QED
  BY <1>3, LegalIs DEF Answered, SdInv

\* CMD3: the card has an address from here on.
LEMMA RelativeAddrKeeps == ASSUME SdInv, RelativeAddr PROVE SdInv'
<1> DEFINE Named == 
      /\ pc' = "SELECT"
      /\ dev' = Addressed
      /\ UNCHANGED <<then, v2later, tries, call, result, got, armed, inited,
                     misses>>
<1> HIDE DEF Named
<1>1. /\ pc = "RELATIVE_ADDR"
      /\ SdInv' \/ (Answered("RELATIVE_ADDR") /\ EnvType' /\ Named)
  <2>1. "RELATIVE_ADDR" \in Issuing /\ "RELATIVE_ADDR" = CommandOf("RELATIVE_ADDR")
    BY DEF CommandOf, Issuing, Chain, Early, Late, Transfer
  <2>2. Issue("RELATIVE_ADDR", "RELATIVE_ADDR", Named)
    BY DEF RelativeAddr, Named
  <2>3. QED
    BY <2>1, <2>2, IssueIs
<1>2. CASE Answered("RELATIVE_ADDR") /\ EnvType' /\ Named
  <2>1. /\ pc' = "SELECT" /\ dev' = [dev EXCEPT !.rca = TRUE]
        /\ UNCHANGED <<then, v2later, tries, call, result, got, armed, inited,
                      misses>>
    BY <1>2 DEF Named, Addressed
  <2>2. /\ CardIs(card', "stby", card.len, card.bus)
        /\ ~irq' /\ ~removal' /\ hit' = hit /\ inhibit' \subseteq inhibit
    BY <1>2, AfterIs DEF Answered, SdInv
  <2>3. BeliefInv'
    BY <1>1, <1>2, <2>1, <2>2, LegalIs
       DEF SdInv, BeliefInv, Answered, CardIs, Chain, Early, Late, Transfer, Asleep,
           Addressed, Sized
  <2>4. RecoverInv'
    BY <1>1, <1>2, <2>1, <2>2, LegalIs, SdAssumption
       DEF SdInv, TypeOK, Cards, RecoverInv, BeliefInv, Follows, Answered, Quiet,
           CardIs, Asleep, Chain, Early, Late, Transfer, Addressed, Sized
  <2>5. dev' \in DevType /\ v2later' \in BOOLEAN
    BY <2>1, DevExcept DEF SdInv, TypeOK
  <2>6. QED
    BY <1>2, <2>1, <2>3, <2>4, <2>5, MoveKeeps
       DEF SdInv, TypeOK, Chain, Early, Late
<1>3. QED
  BY <1>1, <1>2

\* CMD7: a high-capacity card has blocks of 512 bytes as it is.
LEMMA SelectKeeps == ASSUME SdInv, Select PROVE SdInv'
<1> DEFINE Chosen == Goto(IF dev.sdhc THEN "SEND_SCR" ELSE "BLOCKLEN")
<1> HIDE DEF Chosen
<1>1. /\ pc = "SELECT"
      /\ SdInv' \/ (Answered("SELECT") /\ EnvType' /\ Chosen)
  <2>1. "SELECT" \in Issuing /\ "SELECT" = CommandOf("SELECT")
    BY DEF CommandOf, Issuing, Chain, Early, Late, Transfer
  <2>2. Issue("SELECT", "SELECT", Chosen)
    BY DEF Select, Chosen
  <2>3. QED
    BY <2>1, <2>2, IssueIs
<1>2. CASE Answered("SELECT") /\ EnvType' /\ Chosen
  <2>1. /\ pc' = IF dev.sdhc THEN "SEND_SCR" ELSE "BLOCKLEN"
        /\ UNCHANGED <<dev, then, v2later, tries, call, result, got, armed,
                      inited, misses>>
    BY <1>2 DEF Goto, Chosen
  <2>2. /\ CardIs(card', "tran", card.len, card.bus)
        /\ ~irq' /\ ~removal' /\ hit' = hit /\ inhibit' \subseteq inhibit
    BY <1>2, AfterIs DEF Answered, SdInv
  <2>3. BeliefInv'
    BY <1>1, <1>2, <2>1, <2>2, LegalIs
       DEF SdInv, BeliefInv, Answered, CardIs, Chain, Early, Late, Transfer, Asleep,
           Addressed, Sized
  <2>4. RecoverInv'
    BY <1>1, <1>2, <2>1, <2>2, LegalIs, SdAssumption
       DEF SdInv, TypeOK, Cards, RecoverInv, BeliefInv, Follows, Answered, Quiet,
           CardIs, Asleep, Chain, Early, Late, Transfer, Addressed, Sized
  <2>5. dev' \in DevType /\ v2later' \in BOOLEAN
    BY <2>1 DEF SdInv, TypeOK, DevType, Sized, Addressed
  <2>6. QED
    BY <1>2, <2>1, <2>3, <2>4, <2>5, MoveKeeps
       DEF SdInv, TypeOK, Chain, Early, Late
<1>3. QED
  BY <1>1, <1>2

\* CMD16.
LEMMA BlockLenKeeps == ASSUME SdInv, BlockLen PROVE SdInv'
<1>1. /\ pc = "BLOCKLEN"
      /\ SdInv' \/ (Answered("BLOCKLEN") /\ EnvType' /\ Goto("SEND_SCR"))
  <2>1. "BLOCKLEN" \in Issuing /\ "BLOCKLEN" = CommandOf("BLOCKLEN")
    BY DEF CommandOf, Issuing, Chain, Early, Late, Transfer
  <2>2. Issue("BLOCKLEN", "BLOCKLEN", Goto("SEND_SCR"))
    BY DEF BlockLen
  <2>3. QED
    BY <2>1, <2>2, IssueIs
<1>2. CASE Answered("BLOCKLEN") /\ EnvType' /\ Goto("SEND_SCR")
  <2>1. /\ pc' = "SEND_SCR"
        /\ UNCHANGED <<dev, then, v2later, tries, call, result, got, armed,
                      inited, misses>>
    BY <1>2 DEF Goto
  <2>2. /\ CardIs(card', card.st, 512, card.bus)
        /\ ~irq' /\ ~removal' /\ hit' = hit /\ inhibit' \subseteq inhibit
    BY <1>2, AfterIs DEF Answered, SdInv
  <2>3. BeliefInv'
    BY <1>1, <1>2, <2>1, <2>2, LegalIs
       DEF SdInv, BeliefInv, Answered, CardIs, Chain, Early, Late, Transfer, Asleep,
           Addressed, Sized
  <2>4. RecoverInv'
    BY <1>1, <1>2, <2>1, <2>2, LegalIs, SdAssumption
       DEF SdInv, TypeOK, Cards, RecoverInv, BeliefInv, Follows, Answered, Quiet,
           CardIs, Asleep, Chain, Early, Late, Transfer, Addressed, Sized
  <2>5. dev' \in DevType /\ v2later' \in BOOLEAN
    BY <2>1 DEF SdInv, TypeOK, DevType, Sized, Addressed
  <2>6. QED
    BY <1>2, <2>1, <2>3, <2>4, <2>5, MoveKeeps
       DEF SdInv, TypeOK, Chain, Early, Late
<1>3. QED
  BY <1>1, <1>2

\* ACMD51: the driver's block size is set.
LEMMA SendScrKeeps == ASSUME SdInv, SendScr PROVE SdInv'
<1> DEFINE Known == 
      /\ pc' = "BUS_WIDTH"
      /\ dev' = Sized
      /\ UNCHANGED <<then, v2later, tries, call, result, got, armed, inited,
                     misses>>
<1> HIDE DEF Known
<1>1. /\ pc = "SEND_SCR"
      /\ SdInv' \/ (Answered("SEND_SCR") /\ EnvType' /\ Known)
  <2>1. "SEND_SCR" \in Issuing /\ "SEND_SCR" = CommandOf("SEND_SCR")
    BY DEF CommandOf, Issuing, Chain, Early, Late, Transfer
  <2>2. Issue("SEND_SCR", "SEND_SCR", Known)
    BY DEF SendScr, Known
  <2>3. QED
    BY <2>1, <2>2, IssueIs
<1>2. CASE Answered("SEND_SCR") /\ EnvType' /\ Known
  <2>1. /\ pc' = "BUS_WIDTH" /\ dev' = Sized
        /\ UNCHANGED <<then, v2later, tries, call, result, got, armed, inited,
                      misses>>
    BY <1>2 DEF Known
  <2>2. /\ CardIs(card', card.st, card.len, card.bus)
        /\ ~irq' /\ ~removal' /\ hit' = hit /\ inhibit' \subseteq inhibit
    BY <1>2, AfterIs DEF Answered, SdInv
  <2>3. BeliefInv'
    BY <1>1, <1>2, <2>1, <2>2, LegalIs
       DEF SdInv, BeliefInv, Answered, CardIs, Chain, Early, Late, Transfer, Asleep,
           Addressed, Sized
  <2>4. RecoverInv'
    BY <1>1, <1>2, <2>1, <2>2, LegalIs, SdAssumption
       DEF SdInv, TypeOK, Cards, RecoverInv, BeliefInv, Follows, Answered, Quiet,
           CardIs, Asleep, Chain, Early, Late, Transfer, Addressed, Sized
  <2>5. dev' \in DevType /\ v2later' \in BOOLEAN
    BY <2>1 DEF SdInv, TypeOK, DevType, Sized, Addressed
  <2>6. QED
    BY <1>2, <2>1, <2>3, <2>4, <2>5, MoveKeeps
       DEF SdInv, TypeOK, Chain, Early, Late
<1>3. QED
  BY <1>1, <1>2

\* CMD3 with error bits: the address is kept, the call fails.
LEMMA AddrFlaggedKeeps == ASSUME SdInv, AddrFlagged PROVE SdInv'
<1>1. /\ pc = "RELATIVE_ADDR" /\ card.st = "ident"
      /\ CardIs(card', "stby", card.len, card.bus)
      /\ hit' = TRUE /\ faults' = faults + 1 /\ faults < MaxFaults
      /\ ReturnWith("error", Addressed)
      /\ UNCHANGED <<inhibit, irq, removal, silent>>
  BY AfterIs, LegalIs DEF AddrFlagged, Reaches, SdInv
<1>2. EnvType'
  <2>1. faults' \in 0 .. MaxFaults
    BY <1>1, SdAssumption DEF SdInv, TypeOK
  <2>2. QED
    BY <1>1, <2>1 DEF EnvType, SdInv, TypeOK, CardIs
<1>3. Believed(Addressed)
  <2>1. /\ Addressed \in DevType /\ Addressed.sdhc = dev.sdhc
        /\ Addressed.bus = dev.bus
    BY DevExcept DEF SdInv, Addressed
  <2>2. dev.bus = 1 /\ dev.sdhc = card.kind.hc
    BY <1>1 DEF SdInv, BeliefInv, Asleep, Late, Chain
  <2>3. QED
    BY <1>1, <2>1, <2>2 DEF Believed, CardIs
<1>4. QED
  BY <1>1, <1>2, <1>3, ReturnKeeps

\* ACMD6, the last command: four lines on both sides.
LEMMA BusWidthKeeps == ASSUME SdInv, BusWidth PROVE SdInv'
<1> DEFINE wide == [dev EXCEPT !.bus = 4]
<1>1. /\ pc = "BUS_WIDTH"
      /\ SdInv' \/ (Answered("BUS_WIDTH") /\ EnvType' /\ InitDone(wide))
  <2>1. "BUS_WIDTH" \in Issuing /\ "BUS_WIDTH" = CommandOf("BUS_WIDTH")
    BY DEF CommandOf, Issuing, Chain, Early, Late, Transfer
  <2>2. Issue("BUS_WIDTH", "BUS_WIDTH", InitDone(wide))
    BY DEF BusWidth
  <2>3. QED
    BY <2>1, <2>2, IssueIs
<1>2. /\ wide \in DevType /\ wide.rca = dev.rca /\ wide.sdhc = dev.sdhc
      /\ wide.bus = 4 /\ wide.bs = dev.bs
  BY DEF SdInv, TypeOK, DevType
<1> HIDE DEF wide
<1>3. CASE Answered("BUS_WIDTH") /\ EnvType' /\ InitDone(wide)
  <2>1. /\ CardIs(card', card.st, card.len, 4) /\ card.st = "tran"
        /\ ~irq' /\ ~removal' /\ hit' = hit /\ inhibit' \subseteq inhibit
    BY <1>3, AfterIs, LegalIs DEF Answered, SdInv
  <2>2. dev.rca /\ dev.sdhc = card.kind.hc
    BY <1>1, <2>1 DEF SdInv, BeliefInv, Asleep, Late
  <2>3. CASE then = "RETURN"
    <3>1. ReturnWith("ok", wide) /\ call.op = "init"
      BY <1>1, <1>3, <2>3 DEF InitDone, SdInv, BeliefInv
    <3>2. Believed(wide)
      BY <1>2, <2>1, <2>2 DEF Believed, CardIs
    <3>3. QED
      BY <1>3, <3>1, <3>2, ReturnKeeps
  <2>4. CASE then # "RETURN"
    <3>1. /\ pc' = then /\ dev' = wide /\ then \in {"STATUS", "RECHECK"}
          /\ UNCHANGED <<then, v2later, tries, call, result, got, armed, inited,
                         misses>>
      BY <1>3, <2>4 DEF InitDone, SdInv, TypeOK
    <3>2. BeliefInv'
      BY <1>2, <2>1, <2>2, <3>1
         DEF BeliefInv, CardIs, Chain, Early, Late, Transfer
    <3>3. RecoverInv'
      <4>1. ~hit => card.len = 512 /\ dev.bs = 512 /\ inhibit = {}
        BY <1>1, <2>1 DEF SdInv, RecoverInv, Follows, Chain, Late
      <4>2. QED
        BY <1>2, <2>1, <3>1, <4>1
           DEF SdInv, RecoverInv, Quiet, Working, CardIs, Chain, Early, Late,
               Transfer
    <3>4. QED
      BY <1>2, <1>3, <3>1, <3>2, <3>3, MoveKeeps DEF SdInv, TypeOK, Transfer
  <2>5. QED
    BY <2>3, <2>4
<1>4. QED
  BY <1>1, <1>3

\* emmc_reset and the memset: the driver forgets the card.
LEMMA ResetKeeps == ASSUME SdInv, Reset PROVE SdInv'
<1>1. CASE /\ UNCHANGED <<card, silent, faults, hit>>
           /\ irq' = FALSE /\ removal' = FALSE /\ inhibit' = {}
           /\ dev' = Cleared /\ pc' = "GO_IDLE"
           /\ UNCHANGED <<then, v2later, tries, call, result, got, armed, inited,
                          misses>>
  <2>1. EnvType'
    BY <1>1 DEF EnvType, SdInv, TypeOK
  <2>2. Cleared \in DevType /\ ~Cleared.rca /\ Cleared.bus = 1
    BY DEF Cleared, DevType
  <2>3. pc = "RESET"
    BY DEF Reset
  <2>4. BeliefInv'
    BY <1>1, <2>2, <2>3 DEF SdInv, BeliefInv, Chain, Early, Late, Transfer
  <2>5. RecoverInv'
    BY <1>1 DEF SdInv, RecoverInv, Follows, Quiet, Chain, Early, Late, Transfer
  <2>6. QED
    BY <1>1, <2>1, <2>2, <2>4, <2>5, MoveKeeps DEF SdInv, TypeOK, Chain
<1>2. CASE /\ UNCHANGED <<card, silent, irq, removal>>
           /\ faults' = faults + 1 /\ faults < MaxFaults /\ hit' = TRUE
           /\ inhibit' \in {inhibit, {}}
           /\ ReturnWith("error", [dev EXCEPT !.bus = 1])
  <2> DEFINE d == [dev EXCEPT !.bus = 1]
  <2>1. d \in DevType /\ d.rca = dev.rca /\ d.sdhc = dev.sdhc /\ d.bus = 1
    BY DEF SdInv, TypeOK, DevType
  <2>2. ReturnWith("error", d)
    BY <1>2
  <2> HIDE DEF d
  <2>3. EnvType'
    <3>1. faults' \in 0 .. MaxFaults
      BY <1>2, SdAssumption DEF SdInv, TypeOK
    <3>2. QED
      BY <1>2, <3>1 DEF EnvType, SdInv, TypeOK
  <2>4. Believed(d)
    BY <1>2, <2>1 DEF Believed, SdInv, BeliefInv, Asleep
  <2>5. QED
    BY <1>2, <2>2, <2>3, <2>4, ReturnKeeps
<1>3. QED
  BY <1>1, <1>2 DEF Reset

\* The wait for a busy card.
LEMMA BusyKeeps == ASSUME SdInv, StillBusy \/ Delay PROVE SdInv'
<1>1. /\ \/ pc = "OP_COND" /\ pc' = "BUSY"
         \/ pc = "BUSY" /\ pc' = "OP_COND"
      /\ UNCHANGED <<dev, then, v2later, tries, call, result, got, armed, inited,
                     misses, card, inhibit, irq, removal, silent, faults, hit>>
  BY DEF StillBusy, Delay, Reaches, Goto
<1>2. EnvType'
  BY <1>1 DEF EnvType, SdInv, TypeOK
<1>3. BeliefInv'
  BY <1>1 DEF SdInv, BeliefInv, Chain, Early, Late, Transfer, Asleep
<1>4. RecoverInv'
  BY <1>1 DEF SdInv, RecoverInv, Follows, Quiet, Chain, Early, Late, Transfer
<1>5. QED
  BY <1>1, <1>2, <1>3, <1>4, MoveKeeps DEF SdInv, TypeOK, DevType, Chain, Early

--------------------------------------------------------------------------------
(* sd_ensure_data_mode and sd_do_data_command                              *)

\* A transfer that is given up makes the driver initialise the card.
LEMMA AbandonKeeps ==
  ASSUME SdInv, EnvType', pc \in Transfer, Abandon,
         CardIs(card', card.st, card.len, card.bus),
         ~hit' /\ card'.st # "out" => misses = 0
  PROVE  SdInv'
<1> DEFINE d == [dev EXCEPT !.rca = FALSE]
<1>1. d \in DevType /\ ~d.rca /\ d.bus = dev.bus
  BY DevExcept DEF SdInv
<1>2. ReturnWith("error", d)
  BY DEF Abandon
<1> HIDE DEF d
<1>3. Believed(d)
  BY <1>1 DEF Believed, SdInv, BeliefInv, CardIs, Asleep
<1>4. QED
  BY <1>1, <1>2, <1>3, ReturnKeeps

\* CMD13: what the card is in decides.
LEMMA StatusKeeps == ASSUME SdInv, Status PROVE SdInv'
<1>1. /\ pc = "STATUS"
      /\ SdInv' \/ (Answered("STATUS") /\ EnvType' /\ NextByState)
  <2>1. "STATUS" \in Issuing /\ "STATUS" = CommandOf("STATUS")
    BY DEF CommandOf, Issuing, Chain, Early, Late, Transfer
  <2>2. Issue("STATUS", "STATUS", NextByState)
    BY DEF Status
  <2>3. QED
    BY <2>1, <2>2, IssueIs
<1>2. CASE Answered("STATUS") /\ EnvType' /\ NextByState
  <2>1. /\ \/ pc' \in {"RESELECT", "STOP"} /\ card.st # "tran" /\ then' = then
           \/ pc' = "PREPARE" /\ then' = then
           \/ pc' = "RESET" /\ then' = "RECHECK" /\ card.st # "tran"
        /\ UNCHANGED <<dev, v2later, tries, call, result, got, armed, inited,
                      misses>>
    BY <1>2 DEF NextByState, Goto
  <2>2. /\ CardIs(card', card.st, card.len, card.bus)
        /\ ~irq' /\ ~removal' /\ hit' = hit /\ inhibit' \subseteq inhibit
    BY <1>2, AfterIs DEF Answered, SdInv
  <2>3. BeliefInv'
    BY <1>1, <1>2, <2>1, <2>2, LegalIs
       DEF SdInv, BeliefInv, Answered, CardIs, Chain, Early, Late, Transfer, Asleep
  <2>4. RecoverInv'
    BY <1>1, <1>2, <2>1, <2>2, LegalIs
       DEF SdInv, RecoverInv, Answered, Quiet, Working, CardIs, Chain, Early, Late,
           Transfer
  <2>5. QED
    BY <1>2, <2>1, <2>3, <2>4, MoveKeeps
       DEF SdInv, TypeOK, DevType, Chain, Early, Late, Transfer
<1>3. QED
  BY <1>1, <1>2

\* CMD7 again: a card in standby.
LEMMA ReselectKeeps == ASSUME SdInv, Reselect PROVE SdInv'
<1>1. /\ pc = "RESELECT"
      /\ SdInv' \/ (Answered("SELECT") /\ EnvType' /\ Goto("RECHECK"))
  <2>1. "RESELECT" \in Issuing /\ "SELECT" = CommandOf("RESELECT")
    BY DEF CommandOf, Issuing, Chain, Early, Late, Transfer
  <2>2. Issue("RESELECT", "SELECT", Goto("RECHECK"))
    BY DEF Reselect
  <2>3. QED
    BY <2>1, <2>2, IssueIs
<1>2. CASE Answered("SELECT") /\ EnvType' /\ Goto("RECHECK")
  <2>1. /\ pc' = "RECHECK"
        /\ UNCHANGED <<dev, then, v2later, tries, call, result, got, armed,
                      inited, misses>>
    BY <1>2 DEF Goto
  <2>2. /\ CardIs(card', "tran", card.len, card.bus)
        /\ ~irq' /\ ~removal' /\ hit' = hit /\ inhibit' \subseteq inhibit
    BY <1>2, AfterIs DEF Answered, SdInv
  <2>3. BeliefInv'
    BY <1>1, <1>2, <2>1, <2>2, LegalIs
       DEF SdInv, BeliefInv, Answered, CardIs, Chain, Early, Late, Transfer, Asleep
  <2>4. RecoverInv'
    BY <1>1, <1>2, <2>1, <2>2
       DEF SdInv, RecoverInv, Answered, Quiet, Working, CardIs, Chain, Early, Late,
           Transfer
  <2>5. QED
    BY <1>2, <2>1, <2>3, <2>4, MoveKeeps
       DEF SdInv, TypeOK, DevType, Chain, Early, Late, Transfer
<1>3. QED
  BY <1>1, <1>2

\* CMD12: a transfer that was broken off.
LEMMA StopKeeps == ASSUME SdInv, Stop PROVE SdInv'
<1>1. /\ pc = "STOP"
      /\ SdInv' \/ (Answered("STOP") /\ EnvType' /\ Goto("RECHECK"))
  <2>1. "STOP" \in Issuing /\ "STOP" = CommandOf("STOP")
    BY DEF CommandOf, Issuing, Chain, Early, Late, Transfer
  <2>2. Issue("STOP", "STOP", Goto("RECHECK"))
    BY DEF Stop
  <2>3. QED
    BY <2>1, <2>2, IssueIs
<1>2. CASE Answered("STOP") /\ EnvType' /\ Goto("RECHECK")
  <2>1. /\ pc' = "RECHECK"
        /\ UNCHANGED <<dev, then, v2later, tries, call, result, got, armed,
                      inited, misses>>
    BY <1>2 DEF Goto
  <2>2. /\ CardIs(card', "tran", card.len, card.bus)
        /\ ~irq' /\ ~removal' /\ hit' = hit /\ inhibit' \subseteq inhibit
    BY <1>2, AfterIs DEF Answered, SdInv
  <2>3. BeliefInv'
    BY <1>1, <1>2, <2>1, <2>2, LegalIs
       DEF SdInv, BeliefInv, Answered, CardIs, Chain, Early, Late, Transfer, Asleep
  <2>4. RecoverInv'
    BY <1>1, <1>2, <2>1, <2>2
       DEF SdInv, RecoverInv, Answered, Quiet, Working, CardIs, Chain, Early, Late,
           Transfer
  <2>5. QED
    BY <1>2, <2>1, <2>3, <2>4, MoveKeeps
       DEF SdInv, TypeOK, DevType, Chain, Early, Late, Transfer
<1>3. QED
  BY <1>1, <1>2

\* CMD13 again: the card is in transfer state, or the call fails.
LEMMA RecheckKeeps == ASSUME SdInv, Recheck PROVE SdInv'
<1> DEFINE Judged == 
      IF card.st = "tran" THEN Goto("PREPARE") ELSE Abandon
<1> HIDE DEF Judged
<1>1. /\ pc = "RECHECK"
      /\ SdInv' \/ (Answered("STATUS") /\ EnvType' /\ Judged)
  <2>1. "RECHECK" \in Issuing /\ "STATUS" = CommandOf("RECHECK")
    BY DEF CommandOf, Issuing, Chain, Early, Late, Transfer
  <2>2. Issue("RECHECK", "STATUS", Judged)
    BY DEF Recheck, Judged
  <2>3. QED
    BY <2>1, <2>2, IssueIs
<1>2. CASE card.st = "tran" /\ Answered("STATUS") /\ EnvType' /\ Judged
  <2>1. /\ pc' = "PREPARE"
        /\ UNCHANGED <<dev, then, v2later, tries, call, result, got, armed,
                      inited, misses>>
    BY <1>2 DEF Judged, Goto
  <2>2. /\ CardIs(card', card.st, card.len, card.bus)
        /\ ~irq' /\ ~removal' /\ hit' = hit /\ inhibit' \subseteq inhibit
    BY <1>2, AfterIs DEF Answered, SdInv
  <2>3. BeliefInv'
    BY <1>1, <1>2, <2>1, <2>2, LegalIs
       DEF SdInv, BeliefInv, Answered, CardIs, Chain, Early, Late, Transfer, Asleep
  <2>4. RecoverInv'
    BY <1>1, <1>2, <2>1, <2>2
       DEF SdInv, RecoverInv, Answered, Quiet, Working, CardIs, Chain, Early, Late,
           Transfer
  <2>5. QED
    BY <1>2, <2>1, <2>3, <2>4, MoveKeeps
       DEF SdInv, TypeOK, DevType, Chain, Early, Late, Transfer
<1>3. CASE card.st # "tran" /\ Answered("STATUS") /\ EnvType' /\ Judged
  <2>1. CardIs(card', card.st, card.len, card.bus) /\ hit' = hit
    BY <1>3, AfterIs DEF Answered, SdInv
  <2>2. Abandon
    BY <1>3 DEF Judged
  <2>3. ~hit /\ card.st # "out" => misses = 0
    BY <1>1, <1>3 DEF SdInv, RecoverInv, Working, Transfer
  <2>4. QED
    BY <1>1, <1>3, <2>1, <2>2, <2>3, AbandonKeeps DEF CardIs, Transfer
<1>4. QED
  BY <1>1, <1>2, <1>3

\* The number of blocks is computed.
LEMMA PrepareKeeps == ASSUME SdInv, Prepare PROVE SdInv'
<1>1. /\ pc = "PREPARE" /\ pc' = "TRY" /\ tries' = 0
      /\ UNCHANGED <<card, inhibit, irq, removal, dev, then, v2later, call, result, got,
                     armed, inited, silent, faults, hit, misses>>
  BY DEF Prepare
<1>2. EnvType'
  BY <1>1 DEF EnvType, SdInv, TypeOK
<1>3. BeliefInv'
  BY <1>1 DEF SdInv, BeliefInv, Asleep, Chain, Early, Late, Transfer
<1>4. RecoverInv'
  BY <1>1
     DEF SdInv, RecoverInv, Quiet, Working, Chain, Early, Late, Transfer
<1>5. tries' \in 0 .. MaxRetries - 1
  BY <1>1 DEF MaxRetries
<1>6. QED
  BY <1>1, <1>2, <1>3, <1>4, <1>5, MoveKeeps
     DEF SdInv, TypeOK, DevType, Transfer

\* The transfer: the block that was asked for, by the kind of address the card has.
LEMMA TryKeeps == ASSUME SdInv, Try PROVE SdInv'
<1> DEFINE c == DataCommand
<1>1. /\ pc = "TRY"
      /\ SdInv' \/ (Answered(c) /\ EnvType' /\ Transferred)
  <2>1. pc = "TRY" => "TRY" \in Issuing /\ c = CommandOf("TRY")
    BY DEF CommandOf, Issuing, Transfer, Chain, Early, Late
  <2>2. Issue("TRY", c, Transferred)
    BY DEF Try
  <2>3. pc = "TRY"
    BY <2>2 DEF Issue
  <2>4. QED
    BY <2>1, <2>2, <2>3, IssueIs
<1>2. CASE Answered(c) /\ EnvType' /\ Transferred
  <2>1. c \in DataCommands /\ c = CommandOf(pc) /\ pc \in Issuing
    BY <1>1 DEF DataCommand, DataCommands, CommandOf, Issuing, Transfer, Chain,
                Early, Late
  <2> HIDE DEF c
  <2>2. card.st = "tran"
    BY <1>2, <2>1, LegalIs DEF Answered, SdInv
  <2>3. dev.rca /\ dev.sdhc = card.kind.hc
    BY <1>1, <2>2 DEF SdInv, BeliefInv, Asleep, Transfer
  <2>4. /\ card'.kind = card.kind /\ ~Asleep'
        /\ card'.bus \in {card.bus, 4}
    <3>1. c \notin {"GO_IDLE", "OP_COND"} /\ Legal(c) /\ card' = After(c)
      BY <1>2, <2>1 DEF Answered, DataCommands
    <3>2. QED
      BY <2>1, <2>2, <3>1, BeliefsStay DEF SdInv, Asleep
  <2>5. /\ pc' = "client" /\ result' = "ok" /\ misses' = 0
        /\ got' = IF call.op = "read" THEN {Addresses(Argument)} ELSE got
        /\ UNCHANGED <<dev, then, v2later, tries, call, armed, inited>>
    BY <1>2 DEF Transferred
  <2>6. Addresses(Argument) = call.block /\ call.block \in Nat
    <3>1. call.block \in Nat
      BY SdAssumption DEF SdInv, TypeOK, Calls
    <3>2. (call.block * 512) \div 512 = call.block
      BY <3>1
    <3>3. QED
      BY <2>3, <3>1, <3>2 DEF Addresses, Argument
  <2>7. TypeOK'
    BY <1>2, <2>5, <2>6 DEF EnvType, SdInv, TypeOK
  <2>8. BeliefInv'
    BY <2>2, <2>3, <2>4, <2>5
       DEF SdInv, BeliefInv, Asleep, Chain, Early, Late, Transfer, TypeOK
  <2>9. ReadIsTheBlock'
    BY <2>5, <2>6 DEF ReadIsTheBlock
  <2>10. RecoverInv'
    BY <2>5 DEF RecoverInv, Chain, Early, Late, Transfer
  <2>11. QED
    BY <2>7, <2>8, <2>9, <2>10 DEF SdInv
<1>3. QED
  BY <1>1, <1>2

\* The transfer of -1 blocks: nothing is delivered, by a driver without a block size,
\* and so not by one that a failure has made initialise the card.
LEMMA UndeliveredKeeps == ASSUME SdInv, Undelivered PROVE SdInv'
<1> DEFINE c == DataCommand
<1>1. /\ pc = "TRY" /\ ~removal /\ ~irq /\ dev.bs = 0 /\ Legal(c)
      /\ card' \in Unserved(c) /\ inhibit' = inhibit \ {"DAT"}
      /\ pc' = "client" /\ result' = "ok"
      /\ got' = IF call.op = "read" THEN {} ELSE got
      /\ misses' = IF hit \/ misses = 0 THEN 0 ELSE misses + 1
      /\ UNCHANGED <<irq, removal, dev, then, v2later, tries, call, armed, inited, silent,
                     faults, hit>>
  BY DEF Undelivered, Reaches
<1>2. c \in DataCommands /\ c = CommandOf(pc) /\ pc \in Issuing
  BY <1>1 DEF DataCommand, DataCommands, CommandOf, Issuing, Transfer, Chain, Early, Late
<1> HIDE DEF c
<1>3. card.st = "tran"
  BY <1>1, <1>2, LegalIs DEF SdInv
<1>4. /\ card' \in Cards /\ card'.kind = card.kind
      /\ card'.bus \in {card.bus, 4}
  BY <1>1, <1>2, UnservedStays DEF SdInv, DataCommands
<1>5. misses' = 0
  BY <1>1, <1>3 DEF SdInv, RecoverInv, Working, Transfer
<1>6. dev.rca /\ dev.sdhc = card.kind.hc
  BY <1>1, <1>3 DEF SdInv, BeliefInv, Asleep, Transfer
<1>7. TypeOK'
  BY <1>1, <1>4, <1>5 DEF SdInv, TypeOK
<1>8. BeliefInv'
  BY <1>1, <1>3, <1>4, <1>6
     DEF SdInv, BeliefInv, Asleep, Chain, Early, Late, Transfer, TypeOK
<1>9. ReadIsTheBlock'
  BY <1>1 DEF ReadIsTheBlock
<1>10. RecoverInv'
  BY <1>1, <1>5 DEF RecoverInv, Chain, Early, Late, Transfer
<1>11. QED
  BY <1>7, <1>8, <1>9, <1>10 DEF SdInv

--------------------------------------------------------------------------------
(* The environment                                                         *)

\* A client calls: after a failure that nothing explains, the card is initialised.
LEMMA CallKeeps ==
  ASSUME SdInv, NEW op \in Ops, NEW b \in Blocks, NEW n \in Counts,
         Call([op |-> op, block |-> b, n |-> n])
  PROVE  SdInv'
<1> DEFINE c == [op |-> op, block |-> b, n |-> n]
<1>1. c \in Calls /\ c.op = op
  BY SdAssumption DEF Calls
<1>2. /\ pc = "client" /\ call' = c /\ hit' = FALSE /\ silent' = FALSE
      /\ UNCHANGED <<card, inhibit, irq, removal, dev, v2later, tries, result, got,
                     armed, inited, faults, misses>>
      /\ \/ op = "init" /\ pc' = "RESET" /\ then' = "RETURN"
         \/ op # "init" /\ dev.rca /\ pc' = "STATUS" /\ then' = "STATUS"
         \/ op # "init" /\ ~dev.rca /\ pc' = "RESET" /\ then' = "STATUS"
  BY DEF Call
<1> HIDE DEF c
<1>3. TypeOK'
  <2>1. /\ pc' \in {"RESET", "STATUS"} /\ then' \in {"RETURN", "STATUS"}
        /\ call' \in Calls /\ hit' \in BOOLEAN /\ silent' \in BOOLEAN
    BY <1>1, <1>2
  <2>2. QED
    BY <1>2, <2>1 DEF SdInv, TypeOK
<1>4. BeliefInv'
  BY <1>1, <1>2
     DEF SdInv, BeliefInv, Asleep, Chain, Early, Late, Transfer
<1>5. ReadIsTheBlock'
  BY <1>2 DEF ReadIsTheBlock
<1>6. RecoverInv'
  BY <1>2 DEF SdInv, RecoverInv, Chain, Early, Late, Transfer
<1>7. QED
  BY <1>3, <1>4, <1>5, <1>6 DEF SdInv

\* A card that has gone, or has just come, takes no commands for data.
LEMMA DisturbKeeps ==
  ASSUME SdInv, NEW c \in Cards, c.st \in {"out", "idle"}, Disturb(c),
         irq' \in BOOLEAN
  PROVE  SdInv'
<1>1. /\ card' = c /\ hit' = TRUE /\ misses' = 0 /\ Asleep'
      /\ faults' = faults + 1 /\ faults < MaxFaults
      /\ UNCHANGED <<inhibit, removal, dev, pc, then, v2later, tries, call, result, got,
                     armed, silent, inited>>
  BY DEF Disturb, Asleep
<1>2. faults' \in 0 .. MaxFaults
  BY <1>1, SdAssumption DEF SdInv, TypeOK
<1>3. TypeOK'
  BY <1>1, <1>2 DEF SdInv, TypeOK
<1>4. BeliefInv'
  BY <1>1 DEF SdInv, BeliefInv
<1>5. ReadIsTheBlock'
  BY <1>1 DEF SdInv, ReadIsTheBlock
<1>6. RecoverInv'
  BY <1>1 DEF RecoverInv
<1>7. QED
  BY <1>3, <1>4, <1>5, <1>6 DEF SdInv

\* The two ways a card is disturbed.
LEMMA RemoveInsertKeep ==
  ASSUME SdInv, Remove \/ \E k \in Kinds : Insert(k)
  PROVE  SdInv'
<1>1. CASE Remove
  <2> DEFINE c == [card EXCEPT !.st = "out"]
  <2>1. card \in Cards
    BY DEF SdInv, TypeOK
  <2>2. c \in Cards /\ c.st = "out"
    BY <2>1 DEF Cards
  <2>3. Disturb(c) /\ irq' \in {irq, TRUE}
    BY <1>1 DEF Remove
  <2> HIDE DEF c
  <2>4. irq' \in BOOLEAN
    BY <2>3 DEF SdInv, TypeOK
  <2>5. QED
    BY <2>2, <2>3, <2>4, DisturbKeeps
<1>2. CASE \E k \in Kinds : Insert(k)
  <2>1. PICK k \in Kinds : Insert(k)
    BY <1>2
  <2>2. Fresh(k) \in Cards /\ Fresh(k).st = "idle"
    BY SdAssumption DEF Fresh, Cards
  <2>3. Disturb(Fresh(k)) /\ irq' = irq
    BY <2>1 DEF Insert
  <2>4. irq' \in BOOLEAN
    BY <2>3 DEF SdInv, TypeOK
  <2>5. QED
    BY <2>2, <2>3, <2>4, DisturbKeeps
<1>3. QED
  BY <1>1, <1>2

\* The machine starts anew, with whatever card there is.
LEMMA WatchdogKeeps == ASSUME SdInv, Watchdog PROVE SdInv'
<1>1. /\ call' = [call EXCEPT !.op = "init"]
      /\ pc' = "RESET" /\ then' = "RETURN" /\ dev' = Cleared /\ tries' = 0
      /\ result' = "error" /\ got' = {} /\ hit' = TRUE
      /\ removal' = FALSE /\ v2later' = FALSE /\ armed' = FALSE
      /\ inited' = FALSE /\ silent' = FALSE
      /\ UNCHANGED <<card, inhibit, irq, faults, misses>>
  BY DEF Watchdog
<1>2. call' \in Calls /\ call'.op = "init"
  <2>1. call \in Calls
    BY DEF SdInv, TypeOK
  <2>2. QED
    BY <1>1, <2>1 DEF Calls
<1>3. TypeOK'
  <2>1. dev' \in DevType /\ tries' \in 0 .. MaxRetries - 1
    BY <1>1 DEF Cleared, DevType, MaxRetries
  <2>2. /\ removal' \in BOOLEAN /\ v2later' \in BOOLEAN /\ armed' \in BOOLEAN
        /\ inited' \in BOOLEAN /\ silent' \in BOOLEAN /\ hit' \in BOOLEAN
    BY <1>1
  <2>3. QED
    BY <1>1, <1>2, <2>1, <2>2 DEF SdInv, TypeOK, DevType
<1>4. BeliefInv'
  BY <1>1, <1>2 DEF BeliefInv, Cleared, Chain, Early, Late, Transfer
<1>5. ReadIsTheBlock' /\ RecoverInv'
  BY <1>1
     DEF SdInv, ReadIsTheBlock, RecoverInv, Chain, Early, Late, Transfer
<1>6. QED
  BY <1>3, <1>4, <1>5 DEF SdInv

--------------------------------------------------------------------------------

\* The machine starts with a card it knows nothing of.
LEMMA InitSd == ASSUME Init PROVE SdInv
<1>1. PICK k \in Kinds : card = Fresh(k)
  BY DEF Init
<1>2. PICK b \in Blocks, n \in Counts : call = [op |-> "init", block |-> b, n |-> n]
  BY DEF Init
<1>3. card \in Cards /\ call \in Calls /\ call.op = "init"
  BY <1>1, <1>2, SdAssumption DEF Fresh, Cards, Calls
<1>4. TypeOK
  <2>1. dev \in DevType /\ tries \in 0 .. MaxRetries - 1
    BY DEF Init, Cleared, DevType, MaxRetries
  <2>2. /\ removal \in BOOLEAN /\ v2later \in BOOLEAN /\ armed \in BOOLEAN
        /\ inited \in BOOLEAN /\ silent \in BOOLEAN /\ hit \in BOOLEAN
        /\ irq \in BOOLEAN
    BY DEF Init
  <2>3. faults \in 0 .. MaxFaults /\ misses \in Nat /\ got \in SUBSET Nat /\ inhibit = {}
    BY SdAssumption DEF Init
  <2>4. QED
    BY <1>3, <2>1, <2>2, <2>3 DEF Init, TypeOK, DevType
<1>5. BeliefInv
  BY <1>3 DEF Init, BeliefInv, Cleared, Chain, Early, Late, Transfer
<1>6. ReadIsTheBlock /\ RecoverInv
  BY DEF Init, ReadIsTheBlock, RecoverInv, Chain, Early, Late, Transfer
<1>7. QED
  BY <1>4, <1>5, <1>6 DEF SdInv

\* Every step keeps the invariant, one lemma per action.
LEMMA NextSd == ASSUME SdInv, [Next]_vars PROVE SdInv'
<1>1. CASE Reset \/ GoIdle \/ IfCond \/ IoCond \/ Inquiry \/ OpCond
  BY <1>1, ResetKeeps, GoIdleKeeps, IfCondKeeps, IoCondKeeps, InquiryKeeps,
     OpCondKeeps
<1>2. CASE StillBusy \/ Delay \/ SendCid \/ RelativeAddr \/ AddrFlagged \/ Select
  BY <1>2, BusyKeeps, SendCidKeeps, RelativeAddrKeeps, AddrFlaggedKeeps,
     SelectKeeps
<1>3. CASE BlockLen \/ SendScr \/ BusWidth \/ Status \/ Reselect \/ Stop
  BY <1>3, BlockLenKeeps, SendScrKeeps, BusWidthKeeps, StatusKeeps,
     ReselectKeeps, StopKeeps
<1>4. CASE Recheck \/ Prepare \/ Try \/ Undelivered
  BY <1>4, RecheckKeeps, PrepareKeeps, TryKeeps, UndeliveredKeeps
<1>5. CASE \E op \in Ops, b \in Blocks, n \in Counts :
             Call([op |-> op, block |-> b, n |-> n])
  BY <1>5, CallKeeps
<1>6. CASE Remove \/ (\E k \in Kinds : Insert(k)) \/ Watchdog
  BY <1>6, RemoveInsertKeep, WatchdogKeeps
<1>7. CASE UNCHANGED vars \/ Spin
  <2>1. TypeOK'
    <3>1. UNCHANGED vars /\ TypeOK
      BY <1>7 DEF Spin, SdInv
    <3>2. EnvType' /\ dev' \in DevType
      BY <3>1 DEF vars, EnvType, DevType, TypeOK
    <3>3. QED
      BY <3>1, <3>2 DEF vars, EnvType, DevType, TypeOK
  <2>2. BeliefInv'
    BY <1>7 DEF Spin, vars, SdInv, BeliefInv, Asleep
  <2>3. ReadIsTheBlock' /\ RecoverInv'
    BY <1>7 DEF Spin, vars, SdInv, ReadIsTheBlock, RecoverInv, Quiet, Follows, Working
  <2>4. QED
    BY <2>1, <2>2, <2>3 DEF SdInv
<1>8. QED
  BY <1>1, <1>2, <1>3, <1>4, <1>5, <1>6, <1>7 DEF Next, Driver, Environment

\* The inductive invariant holds in every reachable state, for any number of faults.
THEOREM SdInvariance == Spec => []SdInv
<1>1. QED
  BY InitSd, NextSd, PTL DEF Spec

\* Every variable of driver and card keeps its range: the retries, the block size
\* and the steps of the calls.
THEOREM SdTypes == Spec => []TypeOK
<1>1. SdInv => TypeOK
  BY DEF SdInv
<1>2. QED
  BY <1>1, SdInvariance, PTL

\* sd_do_data_command: a read that succeeds never delivers another block than the one
\* asked for, by byte or block address, and delivers that one if the driver has a block
\* size, whatever commands, answers and cards were lost before.
THEOREM ReadsAreRight == Spec => []ReadIsTheBlock
<1>1. SdInv => ReadIsTheBlock
  BY DEF SdInv
<1>2. QED
  BY <1>1, SdInvariance, PTL

\* sd_ensure_data_mode, sd_card_init: however many faults there were, and in whatever
\* state they left card, lines and driver, of the calls after them that no fault struck
\* one at most fails or hangs before one works.
THEOREM OneFailureAtMost == Spec => []RecoversInOne
<1>1. SdInv => RecoversInOne
  BY DEF SdInv, RecoverInv, RecoversInOne
<1>2. QED
  BY <1>1, SdInvariance, PTL

\* sd_card_init, emmc_reset: CONTROL0 has four lines only for a card that was told.
THEOREM BusWidthsAgree == Spec => []HostBusNotWider
<1>1. SdInv => HostBusNotWider
  BY DEF SdInv, BeliefInv, HostBusNotWider, Asleep
<1>2. QED
  BY <1>1, SdInvariance, PTL
=============================================================================

-------------------------------- MODULE SdCard -------------------------------
(***************************************************************************)
(* The block layer below FatFs: disk_initialize, disk_read and disk_write  *)
(* of driver/fatfs/diskio.c over the SPI driver of driver/sdcard.c, and    *)
(* the card it talks to.                                                   *)
(*                                                                         *)
(* The card is external: it answers each command as the driver expects a   *)
(* version 2 card to, or it misses the command, or its answer is lost.     *)
(* One command with its response is one step: the card only acts when the  *)
(* driver clocks it.  The board may be reset at any step while the card    *)
(* keeps its power, so the driver can start again in the middle of a       *)
(* block the card still waits for.                                         *)
(***************************************************************************)
EXTENDS Integers

CONSTANTS
  Last,               \* the last sector of the card; sector 0 holds the boot record
  Data,               \* what a sector can hold
  BSIZE,              \* bytes of a sector: 512
  Tries,              \* initial value of the retry counters: 0xff, 0xfff
  Slow,               \* ACMD41 rounds a card needs to leave the idle state
  MaxCalls,           \* bound on calls of disk_read and disk_write
  MaxMisses,          \* bound on commands, answers and blocks that go wrong
  MaxResets           \* bound on resets of the board

ASSUME SdAssumption ==
  /\ Last \in Nat
  /\ BSIZE \in Nat /\ BSIZE >= 2
  /\ Tries \in Nat /\ Slow \in Nat

VARIABLES
  pc,                 \* the command or the wait the driver is at; "idle" between calls
  timeout,            \* retries left
  is_standard_sd,
  SD_SECTOR_SIZE,
  status,             \* what disk_initialize returned last
  op,                 \* the call: kind, sector, count, and i, the sectors done
  buff,               \* the caller's buffer, one slot for each sector
  cs,                 \* the chip select pin
  said,               \* this call printed that something failed
  initSaid,           \* the last disk_initialize that succeeded did
  missed,             \* something went wrong on the card's side in this call
  card,
  calls, misses, resets

driver == <<pc, timeout, is_standard_sd, SD_SECTOR_SIZE, status, op, buff, cs, said, initSaid>>
vars == <<pc, timeout, is_standard_sd, SD_SECTOR_SIZE, status, op, buff, cs, said, initSaid,
          missed, card, calls, misses, resets>>

Sectors == 0..Last
Boot == "boot"        \* the boot record, which gives the sector size
Junk == "junk"        \* bytes no one wrote
Slot == {0, 1}
NoOp == [kind |-> "none", sector |-> 0, count |-> 0, i |-> 0]

-----------------------------------------------------------------------------
\* The card.  A block-addressed card (ccs) takes sector numbers, the others bytes.
Addressed(c, a) ==
  IF c.ccs THEN {s \in Sectors : s = a}
  ELSE {s \in Sectors : c.blk = BSIZE /\ s * BSIZE = a}

\* A transfer command: the block follows, or the address is refused.
Transfer(c, a, phase) ==
  IF c.mode /= "ready" THEN [r |-> 5, c |-> c]
  ELSE IF Addressed(c, a) = {} THEN [r |-> 64, c |-> c]
  ELSE [r |-> 0, c |-> [c EXCEPT !.phase = phase, !.at = CHOOSE s \in Addressed(c, a) : TRUE]]

Status(c) == IF c.mode = "idle" THEN 1 ELSE 0

\* What a card that hears a command does, and its R1 response.
Hear(c, cmd, a) ==
  CASE c.phase = "busy" -> [r |-> 255, c |-> c]
    [] c.phase \in {"tx", "rx"} -> [r |-> 255, c |-> [c EXCEPT !.phase = "cmd"]]
    [] c.phase = "cmd" /\ cmd = "cmd0" ->
         [r |-> 1, c |-> [c EXCEPT !.mode = "idle", !.app = FALSE, !.slow = Slow, !.blk = 1]]
    [] c.phase = "cmd" /\ cmd /= "cmd0" /\ c.mode = "sd" -> [r |-> 255, c |-> c]
    [] c.phase = "cmd" /\ cmd /= "cmd0" /\ c.mode /= "sd" ->
         CASE cmd = "cmd55" -> [r |-> Status(c), c |-> [c EXCEPT !.app = TRUE]]
           [] cmd = "acmd41" /\ ~c.app -> [r |-> 4 + Status(c), c |-> c]
           [] cmd = "acmd41" /\ c.app ->
                IF c.slow > 0
                THEN [r |-> 1, c |-> [c EXCEPT !.slow = @ - 1, !.app = FALSE]]
                ELSE [r |-> 0, c |-> [c EXCEPT !.mode = "ready", !.app = FALSE]]
           [] cmd = "cmd16" -> [r |-> Status(c), c |-> [c EXCEPT !.blk = a]]
           [] cmd = "cmd17" -> Transfer(c, a, "tx")
           [] cmd = "cmd24" -> Transfer(c, a, "rx")
           [] cmd \in {"cmd8", "cmd58", "cmd13"} -> [r |-> Status(c), c |-> c]

\* A command may be missed, or heard and its answer lost: every poll reads 0xff.
Answers(cmd, a) ==
  LET outcomes(h) ==
        {[r |-> h.r, c |-> h.c, bad |-> card.phase = "busy", cost |-> 0]} \cup
        (IF misses < MaxMisses
         THEN {[r |-> 255, c |-> c, bad |-> TRUE, cost |-> 1] : c \in {card, h.c}}
         ELSE {})
  IN  outcomes(Hear(card, cmd, a))

\* What the card or the line did in this step.
Outcome(o) ==
  /\ card' = o.c
  /\ missed' = (missed \/ o.bad)
  /\ misses' = misses + o.cost
  /\ UNCHANGED <<calls, resets>>

\* A step of the driver in which the card does c, or fails at a cost.
Good(c) == [c |-> c, bad |-> FALSE, cost |-> 0]
Bad(c) == [c |-> c, bad |-> TRUE, cost |-> 1]
Faults(cs_) == IF misses < MaxMisses THEN {Bad(c) : c \in cs_} ELSE {}

-----------------------------------------------------------------------------
(* sd_init, one loop after the other *)

\* disk_initialize: FatFs calls it to mount the volume, and again at the next
\* call when it failed.
disk_initialize ==
  /\ pc = "idle" /\ status /= "ok"
  /\ pc' = "cmd0" /\ timeout' = Tries
  /\ op' = [NoOp EXCEPT !.kind = "init"]
  /\ cs' = "low" /\ said' = FALSE /\ missed' = FALSE
  /\ UNCHANGED <<is_standard_sd, SD_SECTOR_SIZE, status, buff, initSaid, card,
                 calls, misses, resets>>

\* A phase of the initialisation gives up: sd_init returns 0xff.
Fail ==
  /\ pc' = "idle" /\ status' = "noinit" /\ said' = TRUE
  /\ UNCHANGED <<timeout, is_standard_sd, SD_SECTOR_SIZE, op, buff, initSaid>>

Goto(next, t) ==
  /\ pc' = next /\ timeout' = t
  /\ UNCHANGED <<is_standard_sd, SD_SECTOR_SIZE, status, op, buff, said, initSaid>>

\* sd_send_cmd, the response, sd_end_cmd.
Exchange(o) == Outcome(o) /\ cs' = "high"
NoExchange == UNCHANGED <<cs, missed, card, calls, misses, resets>>

\* Mutant of switch_to_SPI_mode: the first answer has to be the right one.
switch_to_SPI_mode_Once ==
  /\ pc = "cmd0"
  /\ \E o \in Answers("cmd0", 0) :
       /\ Exchange(o)
       /\ IF o.r = 1 THEN Goto("cmd8", Tries) ELSE Fail

\* Mutant of switch_to_SPI_mode: the counter is not decremented.
switch_to_SPI_mode_Forever ==
  /\ pc = "cmd0"
  /\ \E o \in Answers("cmd0", 0) :
       /\ Exchange(o)
       /\ IF o.r = 1 THEN Goto("cmd8", Tries) ELSE Goto("cmd0", timeout)

switch_to_SPI_mode ==
  /\ pc = "cmd0"
  /\ \/ /\ timeout > 1
        /\ \E o \in Answers("cmd0", 0) :
             /\ Exchange(o)
             /\ IF o.r = 1 THEN Goto("cmd8", Tries) ELSE Goto("cmd0", timeout - 1)
     \/ timeout <= 1 /\ Fail /\ NoExchange

verify_operation_condition ==
  /\ pc = "cmd8"
  /\ \E o \in Answers("cmd8", 0) :
       /\ Exchange(o)
       /\ IF o.r = 1 THEN Goto("ocr", Tries) ELSE Fail

read_OCR ==
  /\ pc = "ocr"
  /\ \/ /\ timeout > 1
        /\ \E o \in Answers("cmd58", 0) :
             /\ Exchange(o)
             /\ IF o.r = 1 THEN Goto("cmd55", Tries) ELSE Goto("ocr", timeout - 1)
     \/ timeout <= 1 /\ Fail /\ NoExchange

\* Mutant of set_SDXC_capacity: ACMD41 is sent without waiting for the ready state.
set_SDXC_capacity_NoWait ==
  \/ /\ pc = "cmd55"
     /\ \E o \in Answers("cmd55", 0) :
          /\ Exchange(o)
          /\ IF o.r = 1 THEN Goto("acmd41", timeout - 1) ELSE Fail
  \/ /\ pc = "acmd41"
     /\ \E o \in Answers("acmd41", 0) : Exchange(o) /\ Goto("cmd58", Tries)

\* CMD55 has to answer that the card is idle in every round, ACMD41 that it no
\* longer is: an answer to ACMD41 that is lost ends the initialisation.
set_SDXC_capacity ==
  \/ /\ pc = "cmd55"
     /\ \/ /\ timeout > 1
           /\ \E o \in Answers("cmd55", 0) :
                /\ Exchange(o)
                /\ IF o.r = 1 THEN Goto("acmd41", timeout - 1) ELSE Fail
        \/ timeout <= 1 /\ Fail /\ NoExchange
  \/ /\ pc = "acmd41"
     /\ \E o \in Answers("acmd41", 0) :
          /\ Exchange(o)
          /\ IF o.r = 0 THEN Goto("cmd58", Tries) ELSE Goto("cmd55", timeout)

\* The initialisation goes on to read the boot record.
Detected(standard) ==
  /\ is_standard_sd' = standard
  /\ pc' = "cmd17"
  /\ UNCHANGED <<timeout, SD_SECTOR_SIZE, status, op, buff, said, initSaid>>

\* Mutant of check_block_size: the block length of a standard card is not set.
check_block_size_Unset ==
  /\ pc = "cmd58"
  /\ \/ /\ timeout > 0
        /\ \E o \in Answers("cmd58", 0) :
             /\ Exchange(o)
             /\ IF o.r = 0 THEN Detected(IF card.ccs THEN 0 ELSE 1)
                           ELSE Goto("cmd58", timeout - 1)
     \/ timeout = 0 /\ Fail /\ NoExchange

check_block_size ==
  \/ /\ pc = "cmd58"
     /\ \/ /\ timeout > 0
           /\ \E o \in Answers("cmd58", 0) :
                /\ Exchange(o)
                /\ CASE o.r = 0 /\ card.ccs  -> Detected(0)
                     [] o.r = 0 /\ ~card.ccs -> Goto("cmd16", Tries)
                     [] o.r /= 0             -> Goto("cmd58", timeout - 1)
        \/ timeout = 0 /\ Fail /\ NoExchange
  \/ /\ pc = "cmd16"
     /\ \/ /\ timeout > 1
           /\ \E o \in Answers("cmd16", BSIZE) :
                /\ Exchange(o)
                /\ IF o.r = 0 THEN Detected(1) ELSE Goto("cmd16", timeout - 1)
        \/ timeout <= 1 /\ Fail /\ NoExchange

sd_init ==
  switch_to_SPI_mode \/ verify_operation_condition \/ read_OCR
  \/ set_SDXC_capacity \/ check_block_size

-----------------------------------------------------------------------------
(* Sectors *)

\* disk_read and disk_write with a count of sectors.
Call(kind) ==
  /\ pc = "idle" /\ status = "ok" /\ calls < MaxCalls
  /\ \E s \in Sectors \ {0}, n \in {1, 2} :
       /\ s + n - 1 \in Sectors
       /\ op' = [kind |-> kind, sector |-> s, count |-> n, i |-> 0]
  /\ calls' = calls + 1
  /\ said' = FALSE /\ missed' = FALSE
  /\ UNCHANGED <<timeout, is_standard_sd, SD_SECTOR_SIZE, status, cs, initSaid,
                 card, misses, resets>>

disk_read == Call("read") /\ pc' = "cmd17" /\ buff' = [k \in Slot |-> Junk]

disk_write == Call("write") /\ pc' = "cmd24" /\ buff' \in [Slot -> Data]

\* Mutant of Place: every sector goes to the start of the buffer.
Place_Start(i) == {0}

\* The slots of the buffer at buff + SD_SECTOR_SIZE * i.
Place(i) == {k \in Slot : SD_SECTOR_SIZE * i = BSIZE * k}

\* Mutant of Address: the sector number goes to the card as it is.
AddressAsIs == op.sector + op.i

Address == IF is_standard_sd = 1 THEN (op.sector + op.i) * BSIZE ELSE op.sector + op.i

\* The loop over the sectors goes on, or the call returns RES_OK.
NextSector(first) ==
  /\ op' = [op EXCEPT !.i = @ + 1]
  /\ pc' = IF op.i + 1 < op.count THEN first ELSE "idle"
  /\ UNCHANGED <<timeout, is_standard_sd, status, SD_SECTOR_SIZE, initSaid>>

\* sd_send_cmd of a transfer: the pin stays low until the block is through, and
\* a refusal is only printed.
Begin(cmd, next) ==
  \E o \in Answers(cmd, Address) :
    /\ Outcome(o) /\ cs' = "low"
    /\ said' = (said \/ o.r /= 0)
    /\ pc' = next
    /\ UNCHANGED <<timeout, is_standard_sd, SD_SECTOR_SIZE, status, op, buff, initSaid>>

\* The 512 bytes and the CRC are read, whether or not the start token came: an
\* idle line reads 0xff.  sdcard_init takes the sector size from them.
TakeBlock(d, ok) ==
  /\ cs' = "high" /\ said' = (said \/ ~ok)
  /\ \/ /\ op.kind = "init"
        /\ SD_SECTOR_SIZE' = IF d = Boot THEN BSIZE ELSE 65535
        /\ status' = "ok" /\ initSaid' = (said \/ ~ok) /\ pc' = "idle"
        /\ UNCHANGED <<timeout, is_standard_sd, op, buff>>
     \/ /\ op.kind = "read"
        /\ buff' = [k \in Slot |-> IF k \in Place(op.i) THEN d ELSE buff[k]]
        /\ NextSector("cmd17")

\* Mutant of sdcard_read_sector: it returns when the card refuses the command.
sdcard_read_sector_Leaves ==
  \/ /\ pc = "cmd17"
     /\ \E o \in Answers("cmd17", Address) :
          /\ Outcome(o)
          /\ IF o.r = 0
             THEN /\ cs' = "low" /\ pc' = "token"
                  /\ UNCHANGED <<timeout, is_standard_sd, SD_SECTOR_SIZE, status, op,
                                 buff, said, initSaid>>
             ELSE TakeBlock(Junk, FALSE)
  \/ /\ pc = "token" /\ card.phase = "tx"
     /\ Outcome(Good([card EXCEPT !.phase = "cmd"]))
     /\ TakeBlock(card.mem[card.at], TRUE)

sdcard_read_sector ==
  \/ pc = "cmd17" /\ Begin("cmd17", "token")
  \/ /\ pc = "token" /\ card.phase = "tx"
     /\ \/ /\ Outcome(Good([card EXCEPT !.phase = "cmd"]))
           /\ TakeBlock(card.mem[card.at], TRUE)
        \/ \E o \in Faults({[card EXCEPT !.phase = "cmd"]}) :   \* an error token
             Outcome(o) /\ TakeBlock(Junk, FALSE)
  \/ /\ pc = "token" /\ card.phase /= "tx"
     /\ Outcome(Good(card)) /\ TakeBlock(Junk, FALSE)

\* What a card that waits for a block does with it: it stores it, refuses it, or
\* fails to program it and remembers that for CMD13.
Programmed(d) ==
  {Good([card EXCEPT !.phase = "busy", !.mem[card.at] = d])} \cup
  Faults({[card EXCEPT !.phase = "cmd"],
          [card EXCEPT !.phase = "busy", !.mem[card.at] = Junk, !.failed = TRUE]})

Bytes(i) == IF Place(i) = {} THEN Junk ELSE buff[CHOOSE k \in Place(i) : TRUE]

\* The token, the block, the CRC, and the wait for the data response.
SendBlock ==
  /\ pc = "block" /\ pc' = "busy"
  /\ \/ /\ card.phase = "rx"
        /\ \E o \in Programmed(Bytes(op.i)) :
             Outcome(o) /\ said' = (said \/ o.c.phase /= "busy")
     \/ card.phase /= "rx" /\ Outcome(Good(card)) /\ said' = TRUE
  /\ UNCHANGED <<timeout, is_standard_sd, SD_SECTOR_SIZE, status, op, buff, cs, initSaid>>

WaitNotBusy ==
  /\ pc = "busy" /\ pc' = "cmd13"
  /\ \/ Outcome(Good([card EXCEPT !.phase = "cmd"])) /\ UNCHANGED said
     \/ /\ card.phase = "busy"
        /\ \E o \in Faults({card}) : Outcome(o) /\ said' = TRUE
  /\ cs' = "high"
  /\ UNCHANGED <<timeout, is_standard_sd, SD_SECTOR_SIZE, status, op, buff, initSaid>>

\* Mutant of CheckWritten: the second byte of the status is not looked at.
CheckWritten_R1Only ==
  /\ pc = "cmd13"
  /\ \E o \in Answers("cmd13", 0) :
       /\ Exchange([o EXCEPT !.c.failed = FALSE])
       /\ said' = (said \/ o.r /= 0)
  /\ UNCHANGED buff
  /\ NextSector("cmd24")

CheckWritten ==
  /\ pc = "cmd13"
  /\ \E o \in Answers("cmd13", 0) :
       /\ Exchange([o EXCEPT !.c.failed = @ /\ o.r = 255])
       /\ said' = (said \/ o.r /= 0 \/ card.failed)
  /\ UNCHANGED buff
  /\ NextSector("cmd24")

sdcard_write_sector ==
  \/ pc = "cmd24" /\ Begin("cmd24", "block")
  \/ SendBlock \/ WaitNotBusy \/ CheckWritten

-----------------------------------------------------------------------------
\* The card ends programming after the driver stopped waiting.
CardDone ==
  /\ card.phase = "busy"
  /\ card' = [card EXCEPT !.phase = "cmd"]
  /\ UNCHANGED <<driver, missed, calls, misses, resets>>

\* The board is reset and the kernel boots: the driver's variables are new, the
\* card is where it was.
Reset ==
  /\ resets < MaxResets
  /\ resets' = resets + 1
  /\ pc' = "idle" /\ timeout' = 0 /\ is_standard_sd' = 0 /\ SD_SECTOR_SIZE' = 0
  /\ status' = "noinit" /\ op' = NoOp /\ buff' = [k \in Slot |-> Junk]
  /\ cs' = "high" /\ said' = FALSE /\ initSaid' = FALSE /\ missed' = FALSE
  /\ UNCHANGED <<card, calls, misses>>

Init ==
  /\ pc = "idle" /\ timeout = 0 /\ is_standard_sd = 0 /\ SD_SECTOR_SIZE = 0
  /\ status = "noinit" /\ op = NoOp /\ buff = [k \in Slot |-> Junk]
  /\ cs = "high" /\ said = FALSE /\ initSaid = FALSE /\ missed = FALSE
  /\ card \in [mode : {"sd"}, phase : {"cmd"}, ccs : BOOLEAN, blk : {1}, app : {FALSE},
               slow : {Slow}, at : {0}, failed : {FALSE},
               mem : {[s \in Sectors |-> IF s = 0 THEN Boot ELSE d[s]] :
                        d \in [Sectors \ {0} -> Data]}]
  /\ calls = 0 /\ misses = 0 /\ resets = 0

Driver == sd_init \/ sdcard_read_sector \/ sdcard_write_sector

Next == disk_initialize \/ disk_read \/ disk_write \/ Driver \/ CardDone \/ Reset

\* The driver's loops run without giving up the processor: a call goes on.
Spec == Init /\ [][Next]_vars /\ WF_vars(Driver)

-----------------------------------------------------------------------------
(* Properties *)

Value == Data \cup {Boot, Junk}

\* The variables hold what the code's types allow, and a buffer slot holds data.
TypeOK ==
  /\ pc \in {"idle", "cmd0", "cmd8", "ocr", "cmd55", "acmd41", "cmd58", "cmd16",
             "cmd17", "token", "cmd24", "block", "busy", "cmd13"}
  /\ timeout \in 0..Tries /\ is_standard_sd \in {0, 1}
  /\ status \in {"noinit", "ok"}
  /\ buff \in [Slot -> Value] /\ card.mem \in [Sectors -> Value]

\* A card that disk_initialize reported ready is ready, its kind is the one the
\* driver addresses it by, and a standard card has the driver's block length
\* (set_SDXC_capacity, check_block_size); the boot record was read unless the
\* driver said it was not.
InitMatchesCard ==
  status = "ok" =>
    /\ card.mode = "ready"
    /\ is_standard_sd = (IF card.ccs THEN 0 ELSE 1)
    /\ card.ccs \/ card.blk = BSIZE
    /\ initSaid \/ SD_SECTOR_SIZE = BSIZE

\* Whatever state a reset or a failed call left the card in, an initialisation
\* in which the card misses nothing succeeds: the retries of switch_to_SPI_mode
\* outlast a block the card still waits for.
InitSucceeds ==
  pc = "idle" /\ op.kind = "init" /\ ~missed => status = "ok" /\ ~said

\* A read that printed no error left in each slot of the buffer the sector it
\* was asked for (sdcard_read_sector, the address of either kind of card).
ReadsRight ==
  pc = "idle" /\ op.kind = "read" /\ ~said /\ ~initSaid =>
    \A i \in 0..(op.count - 1) : buff[i] = card.mem[op.sector + i]

\* A write that printed no error is on the card when disk_write returns, and the
\* card has finished programming: CTRL_SYNC has nothing left to do.
WritesLand ==
  pc = "idle" /\ op.kind = "write" /\ ~said /\ ~initSaid =>
    /\ card.phase = "cmd"
    /\ \A i \in 0..(op.count - 1) : card.mem[op.sector + i] = buff[i]

\* The sector a write is at is the only one that changes, whatever was missed.
OthersKept ==
  [][\A s \in Sectors :
       card.mem'[s] /= card.mem[s] => op.kind = "write" /\ s = op.sector + op.i]_vars

\* Only the first command after a reset can meet a card in the middle of a block:
\* the driver reads or sends the whole block after an error as well, so that the
\* next command is heard as one, and it starts with the pin released.  The state
\* has its type besides.
InStep ==
  /\ TypeOK
  /\ pc \in {"cmd8", "ocr", "cmd55", "acmd41", "cmd58", "cmd16", "cmd17", "cmd24", "cmd13"} =>
       cs = "high" /\ card.phase \in {"cmd", "busy"}

\* Every call returns: each retry loop of the initialisation is bounded.
CallReturns == pc /= "idle" ~> pc = "idle"
=============================================================================

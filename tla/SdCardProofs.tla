---------------------------- MODULE SdCardProofs -----------------------------
(***************************************************************************)
(* The SD card driver keeps in step with the card, knows its kind, reads   *)
(* and writes the sector it is asked for and no other, for every size of   *)
(* the card, every sector size, every limit of the retries and any number  *)
(* of calls, resets, missed commands, lost answers and refused blocks.     *)
(***************************************************************************)
EXTENDS SdCard, TLAPS

Phase == {"cmd", "busy", "tx", "rx"}
Card == [mode : {"sd", "idle", "ready"}, phase : Phase, ccs : BOOLEAN, blk : Nat, app : BOOLEAN,
         slow : Nat, at : Sectors, failed : BOOLEAN, mem : [Sectors -> Value]]

Starting == {"cmd0", "cmd8", "ocr", "cmd55", "acmd41", "cmd58", "cmd16"}
Reading == {"cmd17", "token"}
Writing == {"cmd24", "block", "busy", "cmd13"}
Quiet == card.phase \in {"cmd", "busy"}
Here == op.sector + op.i

\* The driver addresses the card the way the card takes addresses.
Known ==
  /\ card.mode = "ready"
  /\ is_standard_sd = (IF card.ccs THEN 0 ELSE 1)
  /\ card.ccs \/ card.blk = BSIZE

Ops == [kind : {"none", "init", "read", "write"}, sector : Nat, count : 0..2, i : 0..2]

\* The call that runs, and the sectors it is for.
OpMatches ==
  /\ said \in BOOLEAN /\ initSaid \in BOOLEAN
  /\ op \in Ops
  /\ op.kind \in {"read", "write"} =>
       /\ status = "ok" /\ op.sector > 0 /\ op.i <= op.count /\ op.sector + op.count - 1 \in Sectors
       /\ IF pc = "idle" THEN op.i = op.count ELSE op.i < op.count
  /\ op.kind = "init" => op.sector = 0 /\ op.i = 0
  /\ pc \in Starting => op.kind = "init" /\ status = "noinit"
  /\ pc \in Reading => op.kind = "read" \/ (op.kind = "init" /\ status = "noinit")
  /\ pc \in Writing => op.kind = "write"

\* Where the card is at each step of the driver.
CardFollows ==
  /\ pc = "cmd58" => card.mode = "ready"
  /\ pc = "cmd16" => card.mode = "ready" /\ ~card.ccs
  /\ status = "ok" \/ pc \in Reading => Known
  /\ status = "ok" => initSaid \/ SD_SECTOR_SIZE = BSIZE
  /\ pc = "idle" /\ status = "ok" => Quiet /\ cs = "high"
  /\ pc = "token" => card.phase /= "rx" /\ (card.phase = "tx" => card.at = Here)
                     /\ (said \/ card.phase = "tx")
  /\ pc = "block" => card.phase /= "tx" /\ (card.phase = "rx" => card.at = Here)
                     /\ (said \/ card.phase = "rx")
  /\ pc = "busy" => Quiet
  /\ card.mem[0] = Boot

\* What a call that has printed nothing has done so far.
Progress ==
  ~said /\ ~initSaid =>
    /\ op.kind = "read" => \A j \in 0..1 : j < op.i => buff[j] = card.mem[op.sector + j]
    /\ op.kind = "write" => \A j \in 0..1 : j < op.i => buff[j] = card.mem[op.sector + j]
    /\ op.kind = "write" /\ pc \in {"idle", "cmd13"} => card.phase = "cmd"
    /\ op.kind = "write" /\ pc \in {"busy", "cmd13"} /\ ~card.failed => buff[op.i] = card.mem[Here]

IInv == card \in Card /\ InStep /\ OpMatches /\ CardFollows /\ Progress

-----------------------------------------------------------------------------
(* What the card does *)

\* An answer is the card's, or it is lost and the card heard the command or not.
LEMMA AnswerCases ==
  ASSUME NEW cmd, NEW a, NEW o \in Answers(cmd, a)
  PROVE  /\ o.c \in {card, Hear(card, cmd, a).c}
         /\ o.r /= 255 => o.r = Hear(card, cmd, a).r /\ o.c = Hear(card, cmd, a).c
  BY DEF Answers

\* What no command but a transfer changes.
Same(d, c) ==
  d.phase = c.phase /\ d.mem = c.mem /\ d.ccs = c.ccs /\ d.failed = c.failed /\ d.at = c.at

Control == {"cmd0", "cmd8", "cmd13", "cmd55", "acmd41", "cmd58", "cmd16"}

\* A command that moves no block leaves the sectors, the kind of the card and
\* the phase alone; only CMD0 takes a card out of the ready state, and only CMD0
\* and CMD16 change the block length.
LEMMA HeardControl ==
  ASSUME NEW c \in Card, NEW cmd \in Control, NEW a \in Nat, NEW h, h = Hear(c, cmd, a)
  PROVE  /\ h.c \in Card
         /\ h.c.mem = c.mem /\ h.c.ccs = c.ccs /\ h.c.failed = c.failed /\ h.c.at = c.at
         /\ c.phase \in {"cmd", "busy"} => h.c.phase = c.phase
         /\ h.r \in {0, 1} => c.phase = "cmd" /\ h.c.phase = "cmd"
         /\ cmd /= "cmd0" /\ c.mode = "ready" => h.c.mode = "ready"
         /\ cmd \notin {"cmd0", "cmd16"} => h.c.blk = c.blk
         /\ cmd = "cmd16" /\ h.r = 0 => h.c.blk = a
         /\ cmd = "acmd41" /\ h.r = 0 => h.c.mode = "ready"
  <1> USE SdAssumption DEF Card, Phase
  <1>1. CASE c.phase = "busy"
    BY <1>1 DEF Hear
  <1>2. CASE c.phase \in {"tx", "rx"}
    <2> DEFINE d == [c EXCEPT !.phase = "cmd"]
    <2>1. h = [r |-> 255, c |-> d]
      BY <1>2, Zenon DEF Hear
    <2>2. d \in Card /\ d.mode = c.mode /\ d.blk = c.blk /\ d.mem = c.mem /\ d.ccs = c.ccs
          /\ d.failed = c.failed /\ d.at = c.at
      OBVIOUS
    <2> HIDE DEF d
    <2>3. h.r = 255 /\ h.c = d
      BY <2>1
    <2> QED  BY <1>2, <2>2, <2>3
  <1>3. CASE c.phase = "cmd" /\ cmd = "cmd0"
    <2> DEFINE c1 == [c EXCEPT !.mode = "idle"]
               c2 == [c1 EXCEPT !.app = FALSE]
               c3 == [c2 EXCEPT !.slow = Slow]
    <2>1. h.r = 1 /\ h.c = [c3 EXCEPT !.blk = 1]
      BY <1>3, Zenon DEF Hear
    <2>2. c1 \in Card /\ Same(c1, c)
      BY DEF Same
    <2> HIDE DEF c1
    <2>3. c2 \in Card /\ Same(c2, c)
      BY <2>2, Zenon DEF Same
    <2> HIDE DEF c2
    <2>4. c3 \in Card /\ Same(c3, c)
      BY <2>3 DEF Same
    <2> HIDE DEF c3
    <2>5. h.c \in Card /\ Same(h.c, c)
      BY <2>1, <2>4 DEF Same
    <2> QED  BY <1>3, <2>1, <2>5 DEF Same
  <1>4. CASE c.phase = "cmd" /\ cmd /= "cmd0" /\ c.mode = "sd"
    BY <1>4 DEF Hear
  <1>5. CASE c.phase = "cmd" /\ c.mode /= "sd" /\ cmd = "cmd55"
    BY <1>5, Zenon DEF Hear, Status
  <1>6. CASE c.phase = "cmd" /\ c.mode /= "sd" /\ cmd = "acmd41"
    <2>1. CASE ~c.app
      BY <1>6, <2>1 DEF Hear, Status
    <2>2. CASE c.app /\ c.slow > 0
      <3> DEFINE d == [c EXCEPT !.slow = @ - 1]
                 e == [d EXCEPT !.app = FALSE]
      <3>1. h = [r |-> 1, c |-> e]
        BY <1>6, <2>2 DEF Hear
      <3>2. d \in Card /\ Same(d, c) /\ d.mode = c.mode /\ d.blk = c.blk
        BY <2>2 DEF Same
      <3> HIDE DEF d
      <3>3. e \in Card /\ Same(e, c) /\ e.mode = c.mode /\ e.blk = c.blk
        BY <3>2, Zenon DEF Same
      <3> HIDE DEF e
      <3>4. h.r = 1 /\ h.c = e
        BY <3>1
      <3> QED  BY <1>6, <3>3, <3>4 DEF Same
    <2>3. CASE c.app /\ ~(c.slow > 0)
      <3> DEFINE d == [c EXCEPT !.mode = "ready"]
                 e == [d EXCEPT !.app = FALSE]
      <3>1. h = [r |-> 0, c |-> e]
        BY <1>6, <2>3 DEF Hear
      <3>2. d \in Card /\ Same(d, c) /\ d.mode = "ready" /\ d.blk = c.blk
        BY DEF Same
      <3> HIDE DEF d
      <3>3. e \in Card /\ Same(e, c) /\ e.mode = "ready" /\ e.blk = c.blk
        BY <3>2, Zenon DEF Same
      <3> HIDE DEF e
      <3>4. h.r = 0 /\ h.c = e
        BY <3>1
      <3> QED  BY <1>6, <3>3, <3>4 DEF Same
    <2> QED  BY <2>1, <2>2, <2>3
  <1>7. CASE c.phase = "cmd" /\ c.mode /= "sd" /\ cmd = "cmd16"
    BY <1>7 DEF Hear, Status
  <1>8. CASE c.phase = "cmd" /\ c.mode /= "sd" /\ cmd \in {"cmd8", "cmd58", "cmd13"}
    BY <1>8 DEF Hear, Status
  <1> QED
    BY <1>1, <1>2, <1>3, <1>4, <1>5, <1>6, <1>7, <1>8 DEF Control

\* The driver's address of a sector is that sector's on either kind of card.
LEMMA AddressedHere ==
  ASSUME NEW c \in Card, NEW n \in Sectors, NEW a \in Nat,
         c.ccs => a = n, ~c.ccs => a = n * BSIZE /\ c.blk = BSIZE
  PROVE  Addressed(c, a) = {n}
  <1>1. CASE c.ccs
    BY <1>1 DEF Addressed
  <1>2. CASE ~c.ccs
    <2>1. ASSUME NEW s \in Sectors, s * BSIZE = n * BSIZE
          PROVE  s = n
      BY <2>1, SdAssumption DEF Sectors
    <2> QED  BY <1>2, <2>1 DEF Addressed
  <1> QED  BY <1>1, <1>2

\* A transfer command to a card the driver knows: when the card takes it, the
\* block of that sector follows.
LEMMA HeardTransfer ==
  ASSUME NEW c \in Card, NEW cmd, NEW phase, NEW n \in Sectors, NEW a \in Nat, NEW h,
         \/ cmd = "cmd17" /\ phase = "tx"
         \/ cmd = "cmd24" /\ phase = "rx",
         c.phase \in {"cmd", "busy"}, c.mode = "ready",
         c.ccs => a = n, ~c.ccs => a = n * BSIZE /\ c.blk = BSIZE,
         h = Hear(c, cmd, a)
  PROVE  /\ h.c \in Card
         /\ h.c.mem = c.mem /\ h.c.ccs = c.ccs /\ h.c.failed = c.failed
         /\ h.c.mode = c.mode /\ h.c.blk = c.blk
         /\ \/ h.r = 255 /\ h.c.phase = "busy"
            \/ h.r = 0 /\ h.c.phase = phase /\ h.c.at = n
  <1>1. CASE c.phase = "busy"
    BY <1>1 DEF Hear, Card, Phase
  <1>2. CASE c.phase = "cmd"
    <2>1. h = Transfer(c, a, phase)
      BY <1>2 DEF Hear, Card, Phase
    <2>2. Addressed(c, a) = {n}
      BY AddressedHere
    <2>3. (CHOOSE s \in Addressed(c, a) : TRUE) = n /\ Addressed(c, a) /= {}
      BY <2>2
    <2> DEFINE d == [c EXCEPT !.phase = phase]
               e == [d EXCEPT !.at = n]
    <2>4. h = [r |-> 0, c |-> e]
      BY <2>1, <2>3, Zenon DEF Transfer, Card
    <2>5. /\ d \in Card /\ d.phase = phase /\ d.mem = c.mem /\ d.ccs = c.ccs
          /\ d.failed = c.failed /\ d.mode = c.mode /\ d.blk = c.blk
      BY DEF Card, Phase
    <2> HIDE DEF d
    <2>6. /\ e \in Card /\ e.phase = phase /\ e.mem = c.mem /\ e.ccs = c.ccs
          /\ e.failed = c.failed /\ e.mode = c.mode /\ e.blk = c.blk /\ e.at = n
      BY <2>5 DEF Card
    <2> HIDE DEF e
    <2>7. h.r = 0 /\ h.c = e
      BY <2>4
    <2> QED  BY <2>6, <2>7
  <1> QED  BY <1>1, <1>2

\* The same of an answer the driver may get.
LEMMA ControlAnswer ==
  ASSUME card \in Card, NEW cmd \in Control, NEW a \in Nat, NEW o \in Answers(cmd, a)
  PROVE  /\ o.c \in Card
         /\ o.c.mem = card.mem /\ o.c.ccs = card.ccs /\ o.c.failed = card.failed
         /\ card.phase \in {"cmd", "busy"} => o.c.phase = card.phase
         /\ o.r \in {0, 1} => card.phase = "cmd" /\ o.c.phase = "cmd"
         /\ cmd /= "cmd0" /\ card.mode = "ready" => o.c.mode = "ready"
         /\ cmd \notin {"cmd0", "cmd16"} => o.c.blk = card.blk
         /\ cmd = "cmd16" /\ o.r = 0 => o.c.blk = a
         /\ cmd = "acmd41" /\ o.r = 0 => o.c.mode = "ready"
  <1> DEFINE h == Hear(card, cmd, a)
  <1>1. /\ o.c \in {card, h.c}
        /\ o.r /= 255 => o.r = h.r /\ o.c = h.c
    BY AnswerCases
  <1>2. /\ h.c \in Card
        /\ h.c.mem = card.mem /\ h.c.ccs = card.ccs /\ h.c.failed = card.failed
        /\ card.phase \in {"cmd", "busy"} => h.c.phase = card.phase
        /\ h.r \in {0, 1} => card.phase = "cmd" /\ h.c.phase = "cmd"
        /\ cmd /= "cmd0" /\ card.mode = "ready" => h.c.mode = "ready"
        /\ cmd \notin {"cmd0", "cmd16"} => h.c.blk = card.blk
        /\ cmd = "cmd16" /\ h.r = 0 => h.c.blk = a
        /\ cmd = "acmd41" /\ h.r = 0 => h.c.mode = "ready"
    BY HeardControl
  <1> HIDE DEF h
  <1> QED  BY <1>1, <1>2

-----------------------------------------------------------------------------
(* The initialisation *)

\* What a step of sd_init has to keep: it stays inside the initialisation, gives
\* up, or goes on to the boot record with a card it knows.
LEMMA StartStep ==
  ASSUME IInv, pc \in Starting,
         pc' \in Starting \cup {"cmd17", "idle"}, timeout' \in 0..Tries, is_standard_sd' \in {0, 1},
         said' \in BOOLEAN, op' = op, status' = "noinit", buff' = buff, initSaid' = initSaid,
         card' \in Card, card'.mem = card.mem,
         pc' \in (Starting \ {"cmd0"}) \cup {"cmd17"} => cs' = "high" /\ Quiet',
         pc' = "cmd58" => card'.mode = "ready",
         pc' = "cmd16" => card'.mode = "ready" /\ ~card'.ccs,
         pc' = "cmd17" => Known'
  PROVE  IInv'
  <1>1. InStep'
    BY DEF IInv, InStep, TypeOK, Starting, Quiet
  <1>2. OpMatches'
    BY DEF IInv, OpMatches, Starting, Reading, Writing
  <1>3. CardFollows'
    BY DEF IInv, CardFollows, Starting, Reading, Writing
  <1>4. Progress'
    BY DEF IInv, OpMatches, Progress, Starting
  <1> QED  BY <1>1, <1>2, <1>3, <1>4 DEF IInv

\* A phase of sd_init that gives up.
LEMMA FailStep ==
  ASSUME IInv, pc \in Starting, Fail, card' \in Card, card'.mem = card.mem
  PROVE  IInv'
  <1>1. timeout \in 0..Tries /\ is_standard_sd \in {0, 1}
    BY DEF IInv, InStep, TypeOK
  <1> QED  BY <1>1, StartStep DEF Fail, Starting

\* A step of sd_init that sends a command and goes on.
LEMMA GotoStep ==
  ASSUME IInv, pc \in Starting, NEW o, NEW next \in Starting, NEW t \in 0..Tries,
         Exchange(o), Goto(next, t),
         o.c \in Card, o.c.mem = card.mem,
         next /= "cmd0" => o.c.phase \in {"cmd", "busy"},
         next = "cmd58" => o.c.mode = "ready",
         next = "cmd16" => o.c.mode = "ready" /\ ~o.c.ccs
  PROVE  IInv'
  <1>1. is_standard_sd \in {0, 1} /\ said \in BOOLEAN /\ status = "noinit"
    BY DEF IInv, InStep, TypeOK, OpMatches
  <1>2. /\ pc' = next /\ timeout' = t /\ cs' = "high" /\ card' = o.c
        /\ is_standard_sd' = is_standard_sd /\ status' = status /\ op' = op /\ buff' = buff
        /\ said' = said /\ initSaid' = initSaid
    BY DEF Goto, Exchange, Outcome
  <1>3. next \notin {"cmd17", "idle"}
    BY DEF Starting
  <1> QED  BY <1>1, <1>2, <1>3, StartStep DEF Quiet

\* disk_initialize and the phases of sd_init leave the sectors alone.
LEMMA InitMem ==
  ASSUME IInv, disk_initialize \/ sd_init
  PROVE  card'.mem = card.mem
  <1>1. card \in Card /\ BSIZE \in Nat /\ 0 \in Nat
    BY SdAssumption DEF IInv
  <1>2. ASSUME NEW cmd \in Control, NEW a \in {0, BSIZE}, NEW o \in Answers(cmd, a), Exchange(o)
        PROVE  card'.mem = card.mem
    BY <1>1, <1>2, ControlAnswer DEF Exchange, Outcome
  <1>3. CASE disk_initialize
    BY <1>3 DEF disk_initialize
  <1>4. CASE NoExchange
    BY <1>4 DEF NoExchange
  <1> QED
    BY <1>2, <1>3, <1>4, Zenon DEF sd_init, switch_to_SPI_mode, verify_operation_condition, read_OCR,
                            set_SDXC_capacity, check_block_size, Control

\* disk_initialize and the phases of sd_init keep the invariant.
LEMMA InitStep ==
  ASSUME IInv, disk_initialize \/ sd_init
  PROVE  IInv'
  <1> USE SdAssumption
  <1>a. card \in Card /\ timeout \in 0..Tries /\ Tries \in 0..Tries
    BY DEF IInv, InStep, TypeOK
  <1>b. pc \in Starting \ {"cmd0"} => card.phase \in {"cmd", "busy"}
    BY DEF IInv, InStep, Starting
  <1>c. ASSUME pc \in Starting, Fail, NoExchange PROVE IInv'
    BY <1>a, <1>c, FailStep DEF NoExchange
  <1>1. CASE disk_initialize
    <2>1. card' = card /\ pc' = "cmd0" /\ timeout' = Tries
          /\ said' = FALSE /\ initSaid' = initSaid /\ status' = status /\ buff' = buff
          /\ is_standard_sd' = is_standard_sd
      BY <1>1 DEF disk_initialize
    <2>2. op' = [kind |-> "init", sector |-> 0, count |-> 0, i |-> 0] /\ status = "noinit"
      BY <1>1 DEF NoOp, disk_initialize, IInv, InStep, TypeOK
    <2>3. InStep'
      BY <1>a, <2>1 DEF IInv, InStep, TypeOK
    <2>o. op' \in Ops /\ op'.kind = "init" /\ op'.sector = 0 /\ op'.i = 0
      BY <2>2 DEF Ops
    <2>4. OpMatches'
      BY <2>1, <2>2, <2>o, Zenon DEF IInv, OpMatches, Starting, Reading, Writing
    <2>5. CardFollows'
      BY <2>1, <2>2 DEF IInv, CardFollows, Reading
    <2>6. Progress'
      BY <2>2 DEF Progress
    <2> QED  BY <1>a, <2>1, <2>3, <2>4, <2>5, <2>6 DEF IInv
  <1>2. CASE switch_to_SPI_mode
    <2>0. pc = "cmd0" /\ pc \in Starting
      BY <1>2 DEF switch_to_SPI_mode, Starting
    <2>1. ASSUME timeout > 1, NEW o \in Answers("cmd0", 0), Exchange(o),
                 IF o.r = 1 THEN Goto("cmd8", Tries) ELSE Goto("cmd0", timeout - 1)
          PROVE  IInv'
      <3>1. o.c \in Card /\ o.c.mem = card.mem /\ (o.r = 1 => o.c.phase = "cmd")
        BY <1>a, ControlAnswer DEF Control
      <3>2. timeout - 1 \in 0..Tries /\ {"cmd0", "cmd8"} \subseteq Starting
        BY <1>a, <2>1 DEF Starting
      <3>3. CASE o.r = 1
        BY <1>a, <2>0, <2>1, <3>1, <3>2, <3>3, GotoStep
      <3>4. CASE o.r /= 1
        BY <2>0, <2>1, <3>1, <3>2, <3>4, GotoStep
      <3> QED  BY <3>3, <3>4
    <2> QED  BY <1>2, <1>c, <2>0, <2>1 DEF switch_to_SPI_mode
  <1>3. CASE verify_operation_condition
    <2>0. pc = "cmd8" /\ pc \in Starting
      BY <1>3 DEF verify_operation_condition, Starting
    <2>1. PICK o \in Answers("cmd8", 0) : Exchange(o) /\ IF o.r = 1 THEN Goto("ocr", Tries) ELSE Fail
      BY <1>3 DEF verify_operation_condition
    <2>2. o.c \in Card /\ o.c.mem = card.mem /\ (o.r = 1 => o.c.phase = "cmd")
      BY <1>a, ControlAnswer DEF Control
    <2>3. "ocr" \in Starting /\ card' = o.c
      BY <2>1 DEF Starting, Exchange, Outcome
    <2>4. CASE o.r = 1
      BY <1>a, <2>0, <2>1, <2>2, <2>3, <2>4, GotoStep
    <2>5. CASE o.r /= 1
      BY <2>0, <2>1, <2>2, <2>3, <2>5, FailStep
    <2> QED  BY <2>4, <2>5
  <1>4. CASE read_OCR
    <2>0. pc = "ocr" /\ pc \in Starting /\ card.phase \in {"cmd", "busy"}
      BY <1>4, <1>b DEF read_OCR, Starting
    <2>1. ASSUME timeout > 1, NEW o \in Answers("cmd58", 0), Exchange(o),
                 IF o.r = 1 THEN Goto("cmd55", Tries) ELSE Goto("ocr", timeout - 1)
          PROVE  IInv'
      <3>1. o.c \in Card /\ o.c.mem = card.mem /\ o.c.phase = card.phase
        BY <1>a, <2>0, ControlAnswer DEF Control
      <3>2. timeout - 1 \in 0..Tries /\ {"ocr", "cmd55"} \subseteq Starting
        BY <1>a, <2>1 DEF Starting
      <3>3. CASE o.r = 1
        BY <1>a, <2>0, <2>1, <3>1, <3>2, <3>3, GotoStep
      <3>4. CASE o.r /= 1
        BY <2>0, <2>1, <3>1, <3>2, <3>4, GotoStep
      <3> QED  BY <3>3, <3>4
    <2> QED  BY <1>4, <1>c, <2>0, <2>1 DEF read_OCR
  <1>5. CASE set_SDXC_capacity
    <2>0. pc \in Starting /\ card.phase \in {"cmd", "busy"}
      BY <1>5, <1>b DEF set_SDXC_capacity, Starting
    <2>1. ASSUME timeout > 1, NEW o \in Answers("cmd55", 0), Exchange(o),
                 IF o.r = 1 THEN Goto("acmd41", timeout - 1) ELSE Fail
          PROVE  IInv'
      <3>1. o.c \in Card /\ o.c.mem = card.mem /\ o.c.phase = card.phase /\ card' = o.c
        BY <1>a, <2>0, <2>1, ControlAnswer DEF Control, Exchange, Outcome
      <3>2. timeout - 1 \in 0..Tries /\ "acmd41" \in Starting
        BY <1>a, <2>1 DEF Starting
      <3>3. CASE o.r = 1
        BY <2>0, <2>1, <3>1, <3>2, <3>3, GotoStep
      <3>4. CASE o.r /= 1
        BY <2>0, <2>1, <3>1, <3>4, FailStep
      <3> QED  BY <3>3, <3>4
    <2>2. ASSUME NEW o \in Answers("acmd41", 0), Exchange(o),
                 IF o.r = 0 THEN Goto("cmd58", Tries) ELSE Goto("cmd55", timeout)
          PROVE  IInv'
      <3>1. o.c \in Card /\ o.c.mem = card.mem /\ o.c.phase = card.phase
            /\ (o.r = 0 => o.c.mode = "ready")
        BY <1>a, <2>0, ControlAnswer DEF Control
      <3>2. {"cmd58", "cmd55"} \subseteq Starting
        BY DEF Starting
      <3>3. CASE o.r = 0
        BY <1>a, <2>0, <2>2, <3>1, <3>2, <3>3, GotoStep
      <3>4. CASE o.r /= 0
        BY <1>a, <2>0, <2>2, <3>1, <3>2, <3>4, GotoStep
      <3> QED  BY <3>3, <3>4
    <2> QED  BY <1>5, <1>c, <2>0, <2>1, <2>2 DEF set_SDXC_capacity
  <1>6. CASE check_block_size
    <2>0. pc \in Starting /\ pc \in {"cmd58", "cmd16"} /\ card.phase \in {"cmd", "busy"}
          /\ card.mode = "ready" /\ (pc = "cmd16" => ~card.ccs) /\ cs = "high"
      BY <1>6, <1>b, Zenon DEF check_block_size, Starting, IInv, CardFollows, InStep
    <2>d. ASSUME NEW o, NEW standard \in {0, 1}, Exchange(o), Detected(standard),
                 o.c \in Card, o.c.mem = card.mem, o.c.phase \in {"cmd", "busy"},
                 o.c.mode = "ready", standard = (IF o.c.ccs THEN 0 ELSE 1),
                 o.c.ccs \/ o.c.blk = BSIZE
          PROVE  IInv'
      <3>1. /\ pc' = "cmd17" /\ timeout' = timeout /\ cs' = "high" /\ card' = o.c
            /\ is_standard_sd' = standard /\ status' = status /\ op' = op /\ buff' = buff
            /\ said' = said /\ initSaid' = initSaid
        BY <2>d DEF Detected, Exchange, Outcome
      <3>2. Known' /\ Quiet'
        BY <2>d, <3>1 DEF Known, Quiet
      <3>3. status = "noinit" /\ said \in BOOLEAN
        BY <2>0 DEF IInv, OpMatches
      <3>4. "cmd17" \notin Starting
        BY DEF Starting
      <3> QED  BY <1>a, <2>0, <2>d, <3>1, <3>2, <3>3, <3>4, StartStep
    <2>1. ASSUME pc = "cmd58", timeout > 0, NEW o \in Answers("cmd58", 0), Exchange(o),
                 CASE o.r = 0 /\ card.ccs  -> Detected(0)
                   [] o.r = 0 /\ ~card.ccs -> Goto("cmd16", Tries)
                   [] o.r /= 0             -> Goto("cmd58", timeout - 1)
          PROVE  IInv'
      <3>1. o.c \in Card /\ o.c.mem = card.mem /\ o.c.phase = card.phase
            /\ o.c.mode = "ready" /\ o.c.ccs = card.ccs
        BY <1>a, <2>0, ControlAnswer DEF Control
      <3>2. timeout - 1 \in 0..Tries /\ {"cmd58", "cmd16"} \subseteq Starting
        BY <1>a, <2>1 DEF Starting
      <3>3. CASE o.r = 0 /\ card.ccs
        BY <2>0, <2>1, <2>d, <3>1, <3>3, Zenon
      <3>4. CASE o.r = 0 /\ ~card.ccs
        BY <1>a, <2>0, <2>1, <3>1, <3>2, <3>4, GotoStep
      <3>5. CASE o.r /= 0
        BY <2>0, <2>1, <3>1, <3>2, <3>5, GotoStep, Zenon
      <3> QED  BY <3>3, <3>4, <3>5
    <2>2. ASSUME pc = "cmd16", timeout > 1, NEW o \in Answers("cmd16", BSIZE), Exchange(o),
                 IF o.r = 0 THEN Detected(1) ELSE Goto("cmd16", timeout - 1)
          PROVE  IInv'
      <3>1. o.c \in Card /\ o.c.mem = card.mem /\ o.c.phase = card.phase
            /\ o.c.mode = "ready" /\ o.c.ccs = card.ccs /\ (o.r = 0 => o.c.blk = BSIZE)
        BY <1>a, <2>0, ControlAnswer DEF Control
      <3>2. timeout - 1 \in 0..Tries /\ "cmd16" \in Starting
        BY <1>a, <2>2 DEF Starting
      <3>3. CASE o.r = 0
        BY <2>0, <2>2, <2>d, <3>1, <3>3
      <3>4. CASE o.r /= 0
        BY <2>0, <2>2, <3>1, <3>2, <3>4, GotoStep
      <3> QED  BY <3>3, <3>4
    <2> QED  BY <1>6, <1>c, <2>0, <2>1, <2>2, Zenon DEF check_block_size
  <1> QED  BY <1>1, <1>2, <1>3, <1>4, <1>5, <1>6 DEF sd_init

-----------------------------------------------------------------------------
(* Sectors *)

\* The sector a call is at is one of the card's.
LEMMA HereSector ==
  ASSUME IInv, pc \in Reading \cup Writing
  PROVE  /\ Here \in Sectors /\ op.i \in 0..2 /\ op.sector \in Nat
         /\ op.kind = "init" => Here = 0
         /\ op.kind /= "init" => op.i \in Slot /\ op.i < op.count /\ Here > 0
  BY SdAssumption DEF IInv, OpMatches, Ops, Reading, Writing, Here, Sectors, Slot

\* Both kinds of call start with nothing done.
LEMMA CallStep ==
  ASSUME IInv, disk_read \/ disk_write
  PROVE  IInv'
  <1>1. PICK kind \in {"read", "write"}, s \in Sectors \ {0}, n \in {1, 2} :
          /\ s + n - 1 \in Sectors
          /\ op' = [kind |-> kind, sector |-> s, count |-> n, i |-> 0]
          /\ pc' = (IF kind = "read" THEN "cmd17" ELSE "cmd24")
    BY DEF disk_read, disk_write, Call
  <1>2. /\ pc = "idle" /\ status = "ok" /\ status' = "ok" /\ said' = FALSE /\ card' = card /\ cs' = cs
        /\ initSaid' = initSaid /\ timeout' = timeout /\ is_standard_sd' = is_standard_sd
        /\ SD_SECTOR_SIZE' = SD_SECTOR_SIZE
    BY DEF disk_read, disk_write, Call
  <1>3. buff' \in [Slot -> Value]
    BY DEF disk_read, disk_write, Value
  <1>4. InStep'
    BY <1>1, <1>2, <1>3 DEF IInv, InStep, TypeOK, CardFollows, Quiet
  <1>o. op' \in Ops /\ op'.kind = kind /\ op'.sector = s /\ op'.count = n /\ op'.i = 0 /\ s > 0
    BY <1>1, SdAssumption DEF Ops, Sectors
  <1>p. s + n - 1 \in Sectors /\ pc' = (IF kind = "read" THEN "cmd17" ELSE "cmd24")
    BY <1>1
  <1>q. op'.i <= op'.count /\ op'.i < op'.count /\ op'.sector > 0
        /\ op'.sector + op'.count - 1 \in Sectors /\ pc' /= "idle"
    BY <1>o, <1>p
  <1>r. said' \in BOOLEAN /\ initSaid' \in BOOLEAN
    BY <1>2, Zenon DEF IInv, OpMatches
  <1>5. OpMatches'
    BY <1>2, <1>o, <1>p, <1>q, <1>r DEF OpMatches, Starting, Reading, Writing
  <1>6. CardFollows'
    BY <1>1, <1>2 DEF IInv, CardFollows, Known
  <1>7. Progress'
    BY <1>1, <1>2 DEF Progress
  <1> QED  BY <1>2, <1>4, <1>5, <1>6, <1>7 DEF IInv

\* The answer to a transfer command: the card moves the block of the sector the
\* call is at, or none.
LEMMA TransferAnswer ==
  ASSUME IInv, NEW cmd, NEW phase, NEW o \in Answers(cmd, Address), pc = cmd,
         \/ cmd = "cmd17" /\ phase = "tx"
         \/ cmd = "cmd24" /\ phase = "rx"
  PROVE  /\ o.c \in Card
         /\ o.c.mem = card.mem /\ o.c.ccs = card.ccs /\ o.c.failed = card.failed
         /\ o.c.mode = card.mode /\ o.c.blk = card.blk
         /\ o.c.phase \in {"cmd", "busy", phase}
         /\ o.c.phase = phase => o.c.at = Here
         /\ o.r = 0 => o.c.phase = phase
  <1> DEFINE h == Hear(card, cmd, Address)
  <1>1. /\ o.c \in {card, h.c}
        /\ o.r /= 255 => o.r = h.r /\ o.c = h.c
    BY AnswerCases
  <1>2. pc \in Reading \cup Writing /\ (status = "ok" \/ pc \in Reading)
    BY DEF Reading, Writing, IInv, OpMatches
  <1>3. card \in Card /\ Known /\ card.phase \in {"cmd", "busy"} /\ Here \in Sectors
    BY <1>2, HereSector DEF IInv, CardFollows, InStep
  <1>4. /\ Address \in Nat
        /\ card.ccs => Address = Here
        /\ ~card.ccs => Address = Here * BSIZE /\ card.blk = BSIZE
    BY <1>3, SdAssumption DEF Known, Address, Here, Sectors
  <1>5. card.mode = "ready"
    BY <1>3 DEF Known
  <1>6. /\ h.c \in Card
        /\ h.c.mem = card.mem /\ h.c.ccs = card.ccs /\ h.c.failed = card.failed
        /\ h.c.mode = card.mode /\ h.c.blk = card.blk
        /\ \/ h.r = 255 /\ h.c.phase = "busy"
           \/ h.r = 0 /\ h.c.phase = phase /\ h.c.at = Here
    BY <1>3, <1>4, <1>5, HeardTransfer
  <1> HIDE DEF h
  <1> QED  BY <1>1, <1>3, <1>6

\* CMD17 and CMD24.
LEMMA BeginStep ==
  ASSUME IInv, NEW cmd, NEW phase, NEW next, pc = cmd, Begin(cmd, next),
         \/ cmd = "cmd17" /\ phase = "tx" /\ next = "token"
         \/ cmd = "cmd24" /\ phase = "rx" /\ next = "block"
  PROVE  IInv' /\ card'.mem = card.mem
  <1>1. PICK o \in Answers(cmd, Address) :
          card' = o.c /\ said' = (said \/ o.r /= 0) /\ pc' = next
    BY DEF Begin, Outcome
  <1>2. /\ timeout' = timeout /\ is_standard_sd' = is_standard_sd /\ status' = status
        /\ SD_SECTOR_SIZE' = SD_SECTOR_SIZE /\ op' = op /\ buff' = buff /\ initSaid' = initSaid
    BY DEF Begin
  <1>a. /\ o.c \in Card
        /\ o.c.mem = card.mem /\ o.c.ccs = card.ccs /\ o.c.failed = card.failed
        /\ o.c.mode = card.mode /\ o.c.blk = card.blk
        /\ o.c.phase \in {"cmd", "busy", phase}
        /\ o.c.phase = phase => o.c.at = Here
        /\ o.r = 0 => o.c.phase = phase
    BY TransferAnswer
  <1>3. /\ card' \in Card
        /\ card'.mem = card.mem /\ card'.ccs = card.ccs /\ card'.failed = card.failed
        /\ card'.mode = card.mode /\ card'.blk = card.blk
        /\ card'.phase \in {"cmd", "busy", phase}
        /\ card'.phase = phase => card'.at = Here
        /\ said' \/ card'.phase = phase
    BY <1>1, <1>a, Zenon
  <1>4. InStep'
    BY <1>1, <1>2, <1>3 DEF IInv, InStep, TypeOK
  <1>5. OpMatches'
    BY <1>1, <1>2 DEF IInv, OpMatches, Starting, Reading, Writing
  <1>6. Known' /\ Here' = Here
    BY <1>1, <1>2, <1>3 DEF IInv, CardFollows, OpMatches, Known, Here, Reading, Writing
  <1>7. CardFollows'
    BY <1>1, <1>2, <1>3, <1>6 DEF IInv, CardFollows, Reading
  <1>8. Progress'
    BY <1>1, <1>2, <1>3 DEF IInv, Progress, OpMatches
  <1> QED  BY <1>3, <1>4, <1>5, <1>7, <1>8 DEF IInv

\* A sector's slot of the buffer, once the boot record gave the sector size.
LEMMA PlaceOf ==
  ASSUME NEW i \in Slot, SD_SECTOR_SIZE = BSIZE
  PROVE  Place(i) = {i}
  <1>1. ASSUME NEW k \in Slot PROVE (BSIZE * i = BSIZE * k) <=> (k = i)
    BY SdAssumption DEF Slot
  <1> QED  BY <1>1 DEF Place

\* sdcard_read_sector takes a block, the card's or what an idle line reads.
LEMMA TakeStep ==
  ASSUME IInv, pc = "token", NEW d \in Value, NEW ok \in BOOLEAN, TakeBlock(d, ok),
         ok => d = card.mem[Here],
         card' \in Card, card'.mem = card.mem, card'.ccs = card.ccs, card'.mode = card.mode,
         card'.blk = card.blk, card'.phase \in {"cmd", "busy"}
  PROVE  IInv'
  <1>1. pc \in Reading /\ Known /\ op \in Ops /\ said \in BOOLEAN /\ initSaid \in BOOLEAN
    BY DEF Reading, IInv, CardFollows, OpMatches
  <1>2. CASE op.kind = "init"
    <2>1. /\ SD_SECTOR_SIZE' = (IF d = Boot THEN BSIZE ELSE 65535)
          /\ status' = "ok" /\ initSaid' = (said \/ ~ok) /\ pc' = "idle" /\ timeout' = timeout
          /\ is_standard_sd' = is_standard_sd /\ op' = op /\ buff' = buff
          /\ cs' = "high" /\ said' = (said \/ ~ok)
      BY <1>2 DEF TakeBlock
    <2>2. ok => d = Boot
      BY <1>1, <1>2, HereSector DEF IInv, CardFollows
    <2>3. Known' /\ Quiet'
      BY <1>1, <2>1 DEF Known, Quiet
    <2>4. InStep'
      BY <2>1 DEF IInv, InStep, TypeOK, Card
    <2>5. OpMatches'
      BY <1>1, <1>2, <2>1 DEF IInv, OpMatches, Starting, Reading, Writing
    <2>8. initSaid' \/ SD_SECTOR_SIZE' = BSIZE
      <3>1. ok => SD_SECTOR_SIZE' = BSIZE
        BY <2>1, <2>2
      <3>2. initSaid' = (said \/ ~ok)
        BY <2>1
      <3> QED  BY <3>1, <3>2, Zenon
    <2>6. CardFollows'
      BY <2>1, <2>3, <2>8 DEF IInv, CardFollows, Reading
    <2>7. Progress'
      BY <1>2, <2>1 DEF Progress
    <2> QED  BY <2>4, <2>5, <2>6, <2>7 DEF IInv
  <1>3. CASE op.kind = "read"
    <2>1. /\ buff' = [k \in Slot |-> IF k \in Place(op.i) THEN d ELSE buff[k]]
          /\ op' = [op EXCEPT !.i = @ + 1]
          /\ pc' = (IF op.i + 1 < op.count THEN "cmd17" ELSE "idle")
      BY <1>3 DEF TakeBlock, NextSector
    <2>2. /\ timeout' = timeout /\ is_standard_sd' = is_standard_sd /\ status' = status
          /\ SD_SECTOR_SIZE' = SD_SECTOR_SIZE /\ initSaid' = initSaid
          /\ cs' = "high" /\ said' = (said \/ ~ok)
      BY <1>3 DEF TakeBlock, NextSector
    <2>3. /\ status = "ok" /\ op.i \in Slot /\ op.i < op.count /\ op.count \in 0..2 /\ op.sector \in Nat
          /\ op.sector > 0 /\ op.sector + op.count - 1 \in Sectors
      BY <1>1, <1>3, HereSector DEF IInv, OpMatches, Ops
    <2>4. /\ op'.kind = "read" /\ op'.sector = op.sector /\ op'.count = op.count
          /\ op'.i = op.i + 1 /\ op' \in Ops
      BY <1>1, <1>3, <2>1, <2>3 DEF Ops, Slot
    <2>5. Known' /\ Quiet'
      BY <1>1, <2>2 DEF Known, Quiet
    <2>6. buff' \in [Slot -> Value] /\ buff \in [Slot -> Value]
      BY <2>1 DEF IInv, InStep, TypeOK
    <2>7. InStep'
      BY <2>1, <2>2, <2>6 DEF IInv, InStep, TypeOK, Card
    <2>p. pc' = (IF op.i + 1 < op.count THEN "cmd17" ELSE "idle")
      BY <2>1
    <2>8. OpMatches'
      <3>1. IF pc' = "idle" THEN op'.i = op'.count ELSE op'.i < op'.count
        BY <2>3, <2>4, <2>p DEF Slot
      <3> QED  BY <1>1, <2>2, <2>3, <2>4, <2>p, <3>1 DEF OpMatches, Starting, Reading, Writing, Slot
    <2>9. CardFollows'
      BY <2>2, <2>3, <2>5, <2>p DEF IInv, CardFollows, Reading
    <2>10. ASSUME ~said', ~initSaid', NEW j \in 0..1, j < op.i + 1
           PROVE  buff'[j] = card.mem[op.sector + j]
      <3>1. SD_SECTOR_SIZE = BSIZE /\ d = card.mem[Here] /\ ~said
        BY <2>2, <2>3, <2>10, Zenon DEF IInv, CardFollows
      <3>2. Place(op.i) = {op.i}
        BY <2>3, <3>1, PlaceOf
      <3>3. CASE j = op.i
        BY <2>1, <2>3, <3>1, <3>2, <3>3 DEF Here
      <3>4. CASE j /= op.i
        <4>1. j \in Slot /\ j < op.i
          BY <2>3, <2>10, <3>4 DEF Slot
        <4>2. buff'[j] = buff[j]
          BY <2>1, <3>2, <3>4, <4>1
        <4> QED  BY <1>3, <2>2, <2>10, <3>1, <4>1, <4>2 DEF IInv, Progress
      <3> QED  BY <3>3, <3>4
    <2>11. Progress'
      BY <2>4, <2>10 DEF Progress
    <2> QED  BY <2>7, <2>8, <2>9, <2>11 DEF IInv
  <1> QED  BY <1>2, <1>3 DEF TakeBlock

\* A fault leaves the card in one of the states it is given.
LEMMA FaultOf ==
  ASSUME NEW S, NEW o \in Faults(S)
  PROVE  o.c \in S
  BY DEF Faults, Bad

\* A step without a fault leaves the card in the state it is given.
LEMMA GoodOf ==
  ASSUME NEW c
  PROVE  Good(c).c = c
  BY DEF Good

\* A card whose phase is all that changes.
LEMMA PhaseSet ==
  ASSUME NEW c \in Card, NEW p \in Phase, NEW d, d = [c EXCEPT !.phase = p]
  PROVE  /\ d \in Card /\ d.phase = p /\ d.mem = c.mem /\ d.ccs = c.ccs /\ d.mode = c.mode
         /\ d.blk = c.blk /\ d.failed = c.failed /\ d.at = c.at
  BY DEF Card

\* sdcard_read_sector keeps the invariant and the sectors.
LEMMA ReadStep ==
  ASSUME IInv, sdcard_read_sector
  PROVE  IInv' /\ card'.mem = card.mem
  <1>0. card \in Card /\ Junk \in Value /\ {"cmd", "busy"} \subseteq Phase
    BY DEF IInv, Value, Phase
  <1>1. CASE pc = "cmd17" /\ Begin("cmd17", "token")
    BY <1>1, BeginStep
  <1>2. CASE pc = "token" /\ card.phase = "tx"
    <2>1. card.at = Here /\ card.mem[card.at] \in Value
      BY <1>0, <1>2 DEF IInv, CardFollows, Card
    <2>2. ASSUME card' = [card EXCEPT !.phase = "cmd"]
          PROVE  /\ card' \in Card /\ card'.mem = card.mem /\ card'.ccs = card.ccs
                 /\ card'.mode = card.mode /\ card'.blk = card.blk /\ card'.phase = "cmd"
      BY <1>0, <2>2, PhaseSet
    <2>3. CASE Outcome(Good([card EXCEPT !.phase = "cmd"])) /\ TakeBlock(card.mem[card.at], TRUE)
      <3>1. card' = [card EXCEPT !.phase = "cmd"]
        BY <2>3, Zenon DEF Outcome, Good
      <3> QED  BY <1>2, <2>1, <2>2, <2>3, <3>1, TakeStep, Zenon
    <2>4. CASE \E o \in Faults({[card EXCEPT !.phase = "cmd"]}) : Outcome(o) /\ TakeBlock(Junk, FALSE)
      <3>1. card' = [card EXCEPT !.phase = "cmd"] /\ TakeBlock(Junk, FALSE)
        BY <2>4, FaultOf, Zenon DEF Outcome
      <3> QED  BY <1>0, <1>2, <2>2, <3>1, TakeStep, Zenon
    <2> QED  BY <1>2, <2>3, <2>4, Zenon DEF sdcard_read_sector
  <1>3. CASE pc = "token" /\ card.phase /= "tx" /\ Outcome(Good(card)) /\ TakeBlock(Junk, FALSE)
    <2>1. card' = card
      BY <1>3 DEF Outcome, Good
    <2>2. card.phase \in {"cmd", "busy"}
      BY <1>0, <1>3 DEF IInv, CardFollows, Card, Phase
    <2> QED  BY <1>0, <1>3, <2>1, <2>2, TakeStep, Zenon
  <1> QED  BY <1>1, <1>2, <1>3, Zenon DEF sdcard_read_sector

\* A card that has the block it waited for: it stored it, refused it, or failed
\* to program it.
LEMMA ProgrammedCases ==
  ASSUME card \in Card, NEW d \in Value, NEW o \in Programmed(d)
  PROVE  /\ o.c \in Card /\ o.c.ccs = card.ccs /\ o.c.mode = card.mode /\ o.c.blk = card.blk
         /\ o.c.phase \in {"cmd", "busy"}
         /\ \A s \in Sectors : s /= card.at => o.c.mem[s] = card.mem[s]
         /\ o.c.phase = "busy" /\ ~o.c.failed => o.c.mem[card.at] = d
  <1> DEFINE b == [card EXCEPT !.phase = "busy"]
             c1 == [b EXCEPT !.mem[card.at] = d]
             c2 == [card EXCEPT !.phase = "cmd"]
             c3 == [b EXCEPT !.mem[card.at] = Junk]
             c4 == [c3 EXCEPT !.failed = TRUE]
  <1>a. /\ c1 = [card EXCEPT !.phase = "busy", !.mem[card.at] = d]
        /\ c4 = [card EXCEPT !.phase = "busy", !.mem[card.at] = Junk, !.failed = TRUE]
    BY DEF Card
  <1> HIDE DEF c1, c2, c4
  <1>b. o \in {Good(c1)} \cup Faults({c2, c4})
    BY <1>a, Zenon DEF Programmed, c2
  <1>1. o.c \in {c1, c2, c4}
    BY <1>b, FaultOf, GoodOf
  <1> USE DEF c1, c2, c4
  <1>2. Junk \in Value /\ {"cmd", "busy"} \subseteq Phase /\ card.at \in Sectors
        /\ card.mem \in [Sectors -> Value]
    BY DEF Value, Phase, Card
  <1>3. /\ b \in Card /\ b.phase = "busy" /\ b.mem = card.mem /\ b.ccs = card.ccs
        /\ b.mode = card.mode /\ b.blk = card.blk /\ b.at = card.at
    BY <1>2, PhaseSet
  <1>4. c2 \in Card /\ c2.phase = "cmd" /\ c2.mem = card.mem /\ c2.ccs = card.ccs
        /\ c2.mode = card.mode /\ c2.blk = card.blk
    BY <1>2, PhaseSet
  <1> HIDE DEF b, c2
  <1>5. /\ c1 \in Card /\ c1.phase = "busy" /\ c1.mem = [card.mem EXCEPT ![card.at] = d]
        /\ c1.ccs = card.ccs /\ c1.mode = card.mode /\ c1.blk = card.blk
    BY <1>2, <1>3 DEF Card
  <1>6. /\ c3 \in Card /\ c3.phase = "busy" /\ c3.mem = [card.mem EXCEPT ![card.at] = Junk]
        /\ c3.ccs = card.ccs /\ c3.mode = card.mode /\ c3.blk = card.blk
    BY <1>2, <1>3 DEF Card
  <1> HIDE DEF c1, c3
  <1>7. /\ c4 \in Card /\ c4.phase = "busy" /\ c4.mem = c3.mem /\ c4.failed = TRUE
        /\ c4.ccs = card.ccs /\ c4.mode = card.mode /\ c4.blk = card.blk
    BY <1>6, Zenon DEF Card
  <1> HIDE DEF c4
  <1>8. CASE o.c = c1
    BY <1>2, <1>5, <1>8
  <1>9. CASE o.c = c2
    BY <1>2, <1>4, <1>9
  <1>10. CASE o.c = c4
    BY <1>2, <1>6, <1>7, <1>10
  <1> QED  BY <1>1, <1>8, <1>9, <1>10

\* The bytes a write sends are those of the sector's slot, once the boot record
\* gave the sector size.
LEMMA BytesOf ==
  ASSUME IInv, pc \in Writing
  PROVE  /\ Bytes(op.i) \in Value
         /\ initSaid \/ Bytes(op.i) = buff[op.i]
  <1>1. op.kind = "write" /\ status = "ok" /\ op.i \in Slot
    BY HereSector DEF IInv, OpMatches, Writing
  <1>2. buff \in [Slot -> Value] /\ Junk \in Value /\ Place(op.i) \subseteq Slot
    BY DEF IInv, InStep, TypeOK, Value, Place
  <1>3. Bytes(op.i) \in Value
    <2>1. CASE Place(op.i) = {}
      BY <1>2, <2>1 DEF Bytes
    <2>2. CASE Place(op.i) /= {}
      <3>1. (CHOOSE k \in Place(op.i) : TRUE) \in Place(op.i)
        BY <2>2
      <3> QED  BY <1>2, <2>2, <3>1 DEF Bytes
    <2> QED  BY <2>1, <2>2
  <1>4. ASSUME ~initSaid PROVE Bytes(op.i) = buff[op.i]
    <2>1. Place(op.i) = {op.i}
      BY <1>1, <1>4, PlaceOf DEF IInv, CardFollows
    <2>2. (CHOOSE k \in Place(op.i) : TRUE) = op.i /\ Place(op.i) /= {}
      BY <2>1
    <2> QED  BY <2>2, Zenon DEF Bytes
  <1> QED  BY <1>3, <1>4

\* The sector a write is at is not one it has done, and not the boot record.
LEMMA OtherSectors ==
  ASSUME IInv, pc \in Writing
  PROVE  /\ \A j \in 0..1 : j < op.i => op.sector + j \in Sectors /\ op.sector + j /= Here
         /\ 0 \in Sectors /\ 0 /= Here
         /\ op.kind = "write" /\ status = "ok" /\ Known /\ card \in Card
  <1>1. Here \in Sectors /\ op.i \in Slot /\ op.sector \in Nat /\ Here > 0 /\ op.kind = "write"
    BY HereSector DEF IInv, OpMatches, Writing
  <1>2. status = "ok" /\ Known /\ card \in Card
    BY <1>1 DEF IInv, OpMatches, CardFollows
  <1> QED  BY <1>1, <1>2, SdAssumption DEF Here, Sectors, Slot

\* The block goes to the sector the write is at.
LEMMA SendStep ==
  ASSUME IInv, SendBlock
  PROVE  /\ IInv'
         /\ \A s \in Sectors : s /= Here => card'.mem[s] = card.mem[s]
  <1>1. pc = "block" /\ pc \in Writing /\ pc' = "busy"
    BY DEF SendBlock, Writing
  <1>2. /\ timeout' = timeout /\ is_standard_sd' = is_standard_sd /\ status' = status
        /\ SD_SECTOR_SIZE' = SD_SECTOR_SIZE /\ op' = op /\ buff' = buff /\ initSaid' = initSaid
    BY DEF SendBlock
  <1>3. /\ card' \in Card /\ card'.ccs = card.ccs /\ card'.mode = card.mode /\ card'.blk = card.blk
        /\ card'.phase \in {"cmd", "busy"} /\ said' \in BOOLEAN
        /\ \A s \in Sectors : s /= Here => card'.mem[s] = card.mem[s]
        /\ ~said' => ~said
        /\ ~said' /\ ~card'.failed => card'.mem[Here] = Bytes(op.i)
    <2>1. said \in BOOLEAN /\ card \in Card
      BY DEF IInv, OpMatches
    <2>2. CASE card.phase = "rx"
      <3>1. PICK o \in Programmed(Bytes(op.i)) : card' = o.c /\ said' = (said \/ o.c.phase /= "busy")
        BY <2>2 DEF SendBlock, Outcome
      <3>2. card.at = Here /\ Bytes(op.i) \in Value
        BY <1>1, <2>2, BytesOf DEF IInv, CardFollows
      <3>3. /\ o.c \in Card /\ o.c.ccs = card.ccs /\ o.c.mode = card.mode /\ o.c.blk = card.blk
            /\ o.c.phase \in {"cmd", "busy"}
            /\ \A s \in Sectors : s /= card.at => o.c.mem[s] = card.mem[s]
            /\ o.c.phase = "busy" /\ ~o.c.failed => o.c.mem[card.at] = Bytes(op.i)
        BY <2>1, <3>2, ProgrammedCases
      <3> QED  BY <2>1, <3>1, <3>2, <3>3, Zenon
    <2>3. CASE card.phase /= "rx"
      <3>1. card' = card /\ said' = TRUE
        BY <2>3 DEF SendBlock, Outcome, Good
      <3>2. card.phase \in {"cmd", "busy"}
        BY <1>1, <2>1, <2>3 DEF IInv, CardFollows, Card, Phase
      <3> QED  BY <2>1, <3>1, <3>2
    <2> QED  BY <2>2, <2>3
  <1>4. /\ \A j \in 0..1 : j < op.i => op.sector + j \in Sectors /\ op.sector + j /= Here
        /\ 0 \in Sectors /\ 0 /= Here /\ op.kind = "write" /\ status = "ok" /\ Known
    BY <1>1, OtherSectors
  <1>5. InStep'
    BY <1>1, <1>2, <1>3 DEF IInv, InStep, TypeOK, Card
  <1>6. OpMatches'
    BY <1>1, <1>2, <1>3, <1>4 DEF IInv, OpMatches, Starting, Reading, Writing
  <1>7. Known' /\ Quiet' /\ Here' = Here
    BY <1>2, <1>3, <1>4 DEF Known, Quiet, Here
  <1>8. CardFollows'
    BY <1>1, <1>2, <1>3, <1>4, <1>7 DEF IInv, CardFollows
  <1>9. Progress'
    <2>1. ASSUME ~said', ~initSaid', NEW j \in 0..1, j < op.i
          PROVE  buff[j] = card'.mem[op.sector + j]
      BY <1>2, <1>3, <1>4, <2>1 DEF IInv, Progress
    <2>2. ASSUME ~said', ~initSaid', ~card'.failed
          PROVE  buff[op.i] = card'.mem[Here]
      BY <1>1, <1>2, <1>3, <2>2, BytesOf
    <2> QED  BY <1>1, <1>2, <1>4, <1>7, <2>1, <2>2 DEF Progress
  <1> QED  BY <1>3, <1>5, <1>6, <1>8, <1>9 DEF IInv

\* The wait for the end of programming.
LEMMA WaitStep ==
  ASSUME IInv, WaitNotBusy
  PROVE  IInv' /\ card'.mem = card.mem
  <1>1. pc = "busy" /\ pc \in Writing /\ pc' = "cmd13" /\ cs' = "high"
    BY DEF WaitNotBusy, Writing
  <1>2. /\ timeout' = timeout /\ is_standard_sd' = is_standard_sd /\ status' = status
        /\ SD_SECTOR_SIZE' = SD_SECTOR_SIZE /\ op' = op /\ buff' = buff /\ initSaid' = initSaid
    BY DEF WaitNotBusy
  <1>3. card \in Card /\ said \in BOOLEAN /\ op.kind = "write" /\ status = "ok" /\ Known
    BY <1>1, OtherSectors DEF IInv, OpMatches
  <1>4. /\ card' \in Card /\ card'.mem = card.mem /\ card'.ccs = card.ccs /\ card'.mode = card.mode
        /\ card'.blk = card.blk /\ card'.failed = card.failed /\ card'.phase \in {"cmd", "busy"}
        /\ said' \in BOOLEAN /\ (~said' => ~said /\ card'.phase = "cmd")
    <2>1. CASE Outcome(Good([card EXCEPT !.phase = "cmd"])) /\ UNCHANGED said
      <3>1. card' = [card EXCEPT !.phase = "cmd"] /\ said' = said
        BY <2>1, Zenon DEF Outcome, Good
      <3>2. "cmd" \in Phase
        BY DEF Phase
      <3>3. /\ card' \in Card /\ card'.mem = card.mem /\ card'.ccs = card.ccs
            /\ card'.mode = card.mode /\ card'.blk = card.blk /\ card'.failed = card.failed
            /\ card'.phase = "cmd"
        BY <1>3, <3>1, <3>2, PhaseSet
      <3>4. said' = said
        BY <3>1
      <3> QED  BY <1>3, <3>3, <3>4
    <2>2. CASE card.phase = "busy" /\ \E o \in Faults({card}) : Outcome(o) /\ said' = TRUE
      <3>1. card' = card /\ said' = TRUE
        BY <2>2, FaultOf DEF Outcome
      <3> QED  BY <1>3, <2>2, <3>1
    <2> QED  BY <2>1, <2>2, Zenon DEF WaitNotBusy
  <1>5. InStep'
    BY <1>1, <1>2, <1>4 DEF IInv, InStep, TypeOK, Card
  <1>6. OpMatches'
    BY <1>1, <1>2, <1>3, <1>4 DEF IInv, OpMatches, Starting, Reading, Writing
  <1>7. Known' /\ Here' = Here
    BY <1>2, <1>3, <1>4 DEF Known, Here
  <1>8. CardFollows'
    BY <1>1, <1>2, <1>3, <1>4, <1>7 DEF IInv, CardFollows
  <1>9. Progress'
    BY <1>1, <1>2, <1>3, <1>4, <1>7 DEF IInv, Progress
  <1> QED  BY <1>4, <1>5, <1>6, <1>8, <1>9 DEF IInv

\* CMD13 with an answer clears what the card remembers of a failed block.
LEMMA StatusRead ==
  ASSUME card \in Card, NEW o \in Answers("cmd13", 0), NEW f \in BOOLEAN, NEW q,
         q = [o EXCEPT !.c.failed = f]
  PROVE  /\ q.c \in Card /\ q.c.mem = card.mem /\ q.c.ccs = card.ccs /\ q.c.blk = card.blk
         /\ card.mode = "ready" => q.c.mode = "ready"
         /\ card.phase \in {"cmd", "busy"} => q.c.phase = card.phase
         /\ o.r = 0 => card.phase = "cmd"
  <1>1. /\ o.c \in Card /\ o.c.mem = card.mem /\ o.c.ccs = card.ccs /\ o.c.blk = card.blk
        /\ card.mode = "ready" => o.c.mode = "ready"
        /\ card.phase \in {"cmd", "busy"} => o.c.phase = card.phase
        /\ o.r = 0 => card.phase = "cmd"
    BY ControlAnswer DEF Control
  <1>2. PICK r, c, bad, cost : o = [r |-> r, c |-> c, bad |-> bad, cost |-> cost]
    BY DEF Answers
  <1>3. o.c = c
    BY <1>2
  <1>4. q.c = [c EXCEPT !.failed = f]
    BY <1>1, <1>2, <1>3 DEF Card
  <1>5. c \in Card
    BY <1>1, <1>3
  <1>6. /\ q.c \in Card /\ q.c.mem = c.mem /\ q.c.ccs = c.ccs /\ q.c.blk = c.blk
        /\ q.c.mode = c.mode /\ q.c.phase = c.phase
    BY <1>4, <1>5 DEF Card
  <1> QED  BY <1>1, <1>3, <1>6

\* CMD13 after the block, and the next sector.
LEMMA CheckStep ==
  ASSUME IInv, CheckWritten
  PROVE  IInv' /\ card'.mem = card.mem
  <1>1. pc = "cmd13" /\ pc \in Writing
    BY DEF CheckWritten, Writing
  <1>2. PICK o \in Answers("cmd13", 0) :
          /\ Exchange([o EXCEPT !.c.failed = @ /\ o.r = 255])
          /\ said' = (said \/ o.r /= 0 \/ card.failed)
    BY Zenon DEF CheckWritten
  <1>3. card \in Card /\ said \in BOOLEAN /\ op.kind = "write" /\ status = "ok" /\ Known
        /\ op \in Ops /\ initSaid \in BOOLEAN
    BY <1>1, OtherSectors DEF IInv, OpMatches
  <1>4. /\ timeout' = timeout /\ is_standard_sd' = is_standard_sd /\ status' = status
        /\ SD_SECTOR_SIZE' = SD_SECTOR_SIZE /\ buff' = buff /\ initSaid' = initSaid /\ cs' = "high"
    BY <1>2 DEF CheckWritten, NextSector, Exchange
  <1>5. op' = [op EXCEPT !.i = @ + 1] /\ pc' = (IF op.i + 1 < op.count THEN "cmd24" ELSE "idle")
    BY DEF CheckWritten, NextSector
  <1>p. pc' = (IF op.i + 1 < op.count THEN "cmd24" ELSE "idle")
    BY <1>5
  <1>6. /\ op.i \in Slot /\ op.i < op.count /\ op.count \in 0..2 /\ op.sector \in Nat
        /\ op.sector > 0 /\ op.sector + op.count - 1 \in Sectors
    BY <1>1, <1>3, HereSector DEF IInv, OpMatches, Ops
  <1>7. /\ op'.kind = "write" /\ op'.sector = op.sector /\ op'.count = op.count
        /\ op'.i = op.i + 1 /\ op' \in Ops
    BY <1>3, <1>5, <1>6 DEF Ops, Slot
  <1>8. card.phase \in {"cmd", "busy"}
    BY <1>1 DEF IInv, InStep
  <1>9. /\ card' \in Card /\ card'.mem = card.mem /\ card'.ccs = card.ccs /\ card'.blk = card.blk
        /\ card'.mode = "ready" /\ card'.phase = card.phase
        /\ o.r = 0 => card.phase = "cmd"
    <2> DEFINE f == o.c.failed /\ o.r = 255
               q == [o EXCEPT !.c.failed = f]
    <2>1. card' = q.c
      BY <1>2 DEF Exchange, Outcome
    <2>2. f \in BOOLEAN
      OBVIOUS
    <2> HIDE DEF f
    <2>3. /\ q.c \in Card /\ q.c.mem = card.mem /\ q.c.ccs = card.ccs /\ q.c.blk = card.blk
          /\ card.mode = "ready" => q.c.mode = "ready"
          /\ card.phase \in {"cmd", "busy"} => q.c.phase = card.phase
          /\ o.r = 0 => card.phase = "cmd"
      BY <1>3, <2>2, StatusRead, Zenon
    <2> HIDE DEF q
    <2> QED  BY <1>3, <1>8, <2>1, <2>3 DEF Known
  <1>10. said' \in BOOLEAN /\ (~said' => ~said /\ ~card.failed /\ card.phase = "cmd")
    <2>1. said' = (said \/ o.r /= 0 \/ card.failed)
      BY <1>2
    <2>2. ~said' => ~said /\ ~card.failed /\ o.r = 0
      BY <2>1, Zenon
    <2>3. said' \in BOOLEAN
      BY <2>1
    <2> QED  BY <1>9, <2>2, <2>3
  <1>11. InStep'
    BY <1>4, <1>8, <1>9, <1>p DEF IInv, InStep, TypeOK, Card
  <1>12. OpMatches'
    <2>1. IF pc' = "idle" THEN op'.i = op'.count ELSE op'.i < op'.count
      BY <1>6, <1>7, <1>p DEF Slot
    <2> QED
      BY <1>3, <1>4, <1>6, <1>7, <1>10, <1>p, <2>1 DEF OpMatches, Starting, Reading, Writing, Slot
  <1>13. Known' /\ Quiet'
    BY <1>3, <1>4, <1>8, <1>9 DEF Known, Quiet
  <1>14. CardFollows'
    BY <1>3, <1>4, <1>9, <1>13, <1>p DEF IInv, CardFollows
  <1>15. Progress'
    <2>1. ASSUME ~said', ~initSaid', NEW j \in 0..1, j < op.i + 1
          PROVE  buff[j] = card.mem[op.sector + j]
      <3>1. CASE j = op.i
        BY <1>1, <1>3, <1>4, <1>10, <2>1, <3>1 DEF IInv, Progress, Here
      <3>2. CASE j /= op.i
        <4>1. j < op.i
          BY <1>6, <2>1, <3>2 DEF Slot
        <4> QED  BY <1>3, <1>4, <1>10, <2>1, <4>1 DEF IInv, Progress
      <3> QED  BY <3>1, <3>2
    <2> QED  BY <1>4, <1>7, <1>9, <1>10, <1>p, <2>1 DEF Progress
  <1> QED  BY <1>9, <1>11, <1>12, <1>14, <1>15 DEF IInv

\* sdcard_write_sector keeps the invariant and the other sectors.
LEMMA WriteStep ==
  ASSUME IInv, sdcard_write_sector
  PROVE  /\ IInv'
         /\ \A s \in Sectors : card'.mem[s] /= card.mem[s] => op.kind = "write" /\ s = Here
  <1>1. CASE pc = "cmd24" /\ Begin("cmd24", "block")
    BY <1>1, BeginStep
  <1>2. CASE SendBlock
    <2>1. pc \in Writing
      BY <1>2 DEF SendBlock, Writing
    <2> QED  BY <1>2, <2>1, SendStep, OtherSectors
  <1>3. CASE WaitNotBusy
    BY <1>3, WaitStep
  <1>4. CASE CheckWritten
    BY <1>4, CheckStep
  <1> QED  BY <1>1, <1>2, <1>3, <1>4 DEF sdcard_write_sector

-----------------------------------------------------------------------------
(* The card on its own, the board, and the theorems *)

\* The card ends programming while the driver does something else.
LEMMA DoneStep ==
  ASSUME IInv, CardDone
  PROVE  IInv' /\ card'.mem = card.mem
  <1>1. card \in Card /\ card.phase = "busy" /\ card' = [card EXCEPT !.phase = "cmd"] /\ "cmd" \in Phase
    BY DEF CardDone, IInv, Phase
  <1>2. /\ card' \in Card /\ card'.mem = card.mem /\ card'.ccs = card.ccs /\ card'.mode = card.mode
        /\ card'.blk = card.blk /\ card'.failed = card.failed /\ card'.at = card.at
        /\ card'.phase = "cmd" /\ card.phase = "busy"
    BY <1>1, PhaseSet
  <1>3. /\ pc' = pc /\ timeout' = timeout /\ is_standard_sd' = is_standard_sd /\ status' = status
        /\ SD_SECTOR_SIZE' = SD_SECTOR_SIZE /\ op' = op /\ buff' = buff /\ initSaid' = initSaid
        /\ said' = said /\ cs' = cs
    BY DEF CardDone, driver
  <1>4. InStep'
    BY <1>2, <1>3 DEF IInv, InStep, TypeOK
  <1>5. OpMatches'
    BY <1>3 DEF IInv, OpMatches
  <1>6. (Known' <=> Known) /\ Quiet' /\ Here' = Here
    BY <1>2, <1>3 DEF Known, Quiet, Here
  <1>7. CardFollows'
    BY <1>2, <1>3, <1>6 DEF IInv, CardFollows
  <1>8. Progress'
    BY <1>2, <1>3, <1>6 DEF IInv, Progress
  <1> QED  BY <1>2, <1>4, <1>5, <1>7, <1>8 DEF IInv

\* A driver whose variables are new, with a card that has its boot record.
LEMMA Booted ==
  ASSUME card \in Card, card.mem[0] = Boot, pc = "idle", timeout = 0, is_standard_sd = 0,
         status = "noinit", op = NoOp, buff = [k \in Slot |-> Junk],
         said = FALSE, initSaid = FALSE
  PROVE  IInv
  <1>1. op \in Ops /\ op.kind = "none"
    BY DEF NoOp, Ops
  <1>2. InStep
    BY SdAssumption DEF InStep, TypeOK, Value, Card
  <1>3. OpMatches
    BY <1>1, Zenon DEF OpMatches, Starting, Reading, Writing
  <1>4. CardFollows
    BY DEF CardFollows, Reading
  <1>5. Progress
    BY <1>1 DEF Progress
  <1> QED  BY <1>2, <1>3, <1>4, <1>5 DEF IInv

\* The board starts again, the card stays as it was.
LEMMA ResetStep ==
  ASSUME IInv, Reset
  PROVE  IInv' /\ card'.mem = card.mem
  <1>1. card' \in Card /\ card'.mem[0] = Boot /\ card' = card
    BY DEF IInv, CardFollows, Reset
  <1>2. /\ pc' = "idle" /\ timeout' = 0 /\ is_standard_sd' = 0 /\ status' = "noinit" /\ op' = NoOp
        /\ buff' = [k \in Slot |-> Junk] /\ said' = FALSE /\ initSaid' = FALSE
    BY DEF Reset
  <1>3. op' \in Ops /\ op'.kind = "none"
    BY <1>2 DEF NoOp, Ops
  <1>4. InStep'
    BY <1>1, <1>2, SdAssumption DEF InStep, TypeOK, Value, Card
  <1>5. OpMatches'
    BY <1>2, <1>3, Zenon DEF OpMatches, Starting, Reading, Writing
  <1>6. CardFollows'
    BY <1>1, <1>2 DEF CardFollows, Reading
  <1>7. Progress'
    BY <1>3 DEF Progress
  <1> QED  BY <1>1, <1>4, <1>5, <1>6, <1>7 DEF IInv

\* The first boot.
LEMMA InitHolds ==
  Init => IInv
  <1> SUFFICES ASSUME Init PROVE IInv
    OBVIOUS
  <1>1. PICK d \in [Sectors \ {0} -> Data] :
          card.mem = [s \in Sectors |-> IF s = 0 THEN Boot ELSE d[s]]
    BY DEF Init
  <1>2. card.mem \in [Sectors -> Value] /\ card.mem[0] = Boot /\ 0 \in Sectors
    BY <1>1, SdAssumption DEF Value, Sectors
  <1> DEFINE M == {[s \in Sectors |-> IF s = 0 THEN Boot ELSE d_[s]] : d_ \in [Sectors \ {0} -> Data]}
  <1>a. card \in [mode : {"sd"}, phase : {"cmd"}, ccs : BOOLEAN, blk : {1}, app : {FALSE},
                  slow : {Slow}, at : {0}, failed : {FALSE}, mem : M]
    BY Zenon DEF Init
  <1> HIDE DEF M
  <1>b. card = [mode |-> card.mode, phase |-> card.phase, ccs |-> card.ccs, blk |-> card.blk,
                app |-> card.app, slow |-> card.slow, at |-> card.at, failed |-> card.failed,
                mem |-> card.mem]
    BY <1>a
  <1>c. card.mode = "sd" /\ card.phase = "cmd" /\ card.ccs \in BOOLEAN /\ card.blk = 1
        /\ card.slow = Slow /\ card.at = 0
    BY <1>a
  <1>d. card.app \in BOOLEAN /\ card.failed \in BOOLEAN
    BY <1>a, Zenon
  <1>e. card.mode \in {"sd", "idle", "ready"} /\ card.phase \in Phase /\ card.blk \in Nat
        /\ card.slow \in Nat /\ card.at \in Sectors
    BY <1>2, <1>c, SdAssumption DEF Phase
  <1>3. card \in Card
    BY <1>2, <1>b, <1>c, <1>d, <1>e DEF Card
  <1> QED  BY <1>2, <1>3, Booted, Zenon DEF Init

\* A step of the driver, the card or the board keeps the invariant, and changes
\* no sector but the one a write is at.
LEMMA Steps ==
  ASSUME IInv, [Next]_vars
  PROVE  /\ IInv'
         /\ \A s \in Sectors : card'.mem[s] /= card.mem[s] => op.kind = "write" /\ s = Here
  <1>1. CASE disk_initialize \/ sd_init
    BY <1>1, InitStep, InitMem
  <1>2. CASE disk_read \/ disk_write
    BY <1>2, CallStep, Zenon DEF disk_read, disk_write, Call
  <1>3. CASE sdcard_read_sector
    BY <1>3, ReadStep
  <1>4. CASE sdcard_write_sector
    BY <1>4, WriteStep
  <1>5. CASE CardDone
    BY <1>5, DoneStep
  <1>6. CASE Reset
    BY <1>6, ResetStep
  <1>7. CASE UNCHANGED vars
    <2>1. /\ pc' = pc /\ timeout' = timeout /\ is_standard_sd' = is_standard_sd /\ status' = status
          /\ SD_SECTOR_SIZE' = SD_SECTOR_SIZE /\ op' = op /\ buff' = buff /\ initSaid' = initSaid
          /\ said' = said /\ cs' = cs /\ card' = card
      BY <1>7 DEF vars
    <2>2. InStep'
      BY <2>1 DEF IInv, InStep, TypeOK
    <2>3. OpMatches'
      BY <2>1 DEF IInv, OpMatches
    <2>4. (Known' <=> Known) /\ (Quiet' <=> Quiet) /\ Here' = Here
      BY <2>1 DEF Known, Quiet, Here
    <2>5. CardFollows'
      BY <2>1, <2>4 DEF IInv, CardFollows
    <2>6. Progress'
      BY <2>1, <2>4 DEF IInv, Progress
    <2> QED  BY <2>1, <2>2, <2>3, <2>5, <2>6 DEF IInv
  <1> QED  BY <1>1, <1>2, <1>3, <1>4, <1>5, <1>6, <1>7 DEF Next, Driver

\* The invariant, of which the properties are consequences.
THEOREM Invariant == Spec => []IInv
  <1>1. IInv /\ [Next]_vars => IInv'
    BY Steps
  <1> QED  BY <1>1, InitHolds, PTL DEF Spec

\* The driver and the card stay in step (sd_send_cmd, sd_end_cmd): only the
\* first command after a reset can meet a card in the middle of a block.
THEOREM KeepsInStep == Spec => []InStep
  <1>1. IInv => InStep
    BY DEF IInv
  <1> QED  BY <1>1, Invariant, PTL

\* A card that disk_initialize reported ready is ready, and the driver addresses
\* it the way it takes addresses.
THEOREM InitIsRight == Spec => []InitMatchesCard
  <1>1. IInv => InitMatchesCard
    BY DEF IInv, CardFollows, Known, InitMatchesCard
  <1> QED  BY <1>1, Invariant, PTL

\* disk_read that printed no error filled the buffer with the sectors asked for.
THEOREM ReadsAreRight == Spec => []ReadsRight
  <1>1. ASSUME IInv PROVE ReadsRight
    <2> SUFFICES ASSUME pc = "idle", op.kind = "read", ~said, ~initSaid, NEW i \in 0..(op.count - 1)
                 PROVE  buff[i] = card.mem[op.sector + i]
      BY DEF ReadsRight
    <2>1. op.i = op.count /\ op.count \in 0..2
      BY <1>1 DEF IInv, OpMatches, Ops
    <2>2. i \in 0..1 /\ i < op.i
      BY <2>1
    <2> QED  BY <1>1, <2>2 DEF IInv, Progress
  <1> QED  BY <1>1, Invariant, PTL

\* disk_write that printed no error is on the card, which is done with it.
THEOREM WritesAreThere == Spec => []WritesLand
  <1>1. ASSUME IInv PROVE WritesLand
    <2> SUFFICES ASSUME pc = "idle", op.kind = "write", ~said, ~initSaid
                 PROVE  /\ card.phase = "cmd"
                        /\ \A i \in 0..(op.count - 1) : card.mem[op.sector + i] = buff[i]
      BY DEF WritesLand
    <2>1. op.i = op.count /\ op.count \in 0..2
      BY <1>1 DEF IInv, OpMatches, Ops
    <2>2. card.phase = "cmd"
      BY <1>1 DEF IInv, Progress
    <2>3. ASSUME NEW i \in 0..(op.count - 1) PROVE card.mem[op.sector + i] = buff[i]
      <3>1. i \in 0..1 /\ i < op.i
        BY <2>1
      <3> QED  BY <1>1, <3>1 DEF IInv, Progress
    <2> QED  BY <2>2, <2>3
  <1> QED  BY <1>1, Invariant, PTL

\* No step changes a sector but the one a disk_write is at, whatever commands,
\* answers or blocks went wrong and wherever the board was reset.
THEOREM OthersAreKept == Spec => OthersKept
  <1>1. ASSUME IInv, [Next]_vars
        PROVE  [\A s \in Sectors :
                  card.mem'[s] /= card.mem[s] => op.kind = "write" /\ s = op.sector + op.i]_vars
    BY <1>1, Steps DEF Here
  <1> QED  BY <1>1, Invariant, PTL DEF Spec, OthersKept
=============================================================================

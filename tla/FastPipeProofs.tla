--------------------------- MODULE FastPipeProofs ----------------------------
(***************************************************************************)
(* The ring buffer of FastPipe implements Channel, and its retry counters  *)
(* and select() are right, for every length of the buffer, every set of    *)
(* readers and writers, and every patience.                                *)
(***************************************************************************)
EXTENDS FastPipe, SequenceTheorems, TLAPS

-----------------------------------------------------------------------------
(* The arithmetic of the ring.                                             *)

\* An index moved forward by less than the length of the buffer wraps at most
\* once (the increment modulo PIPE_BUF_LENGTH of Read and Write).
LEMMA Wrap ==
  ASSUME NEW a \in Slot, NEW j \in Slot
  PROVE  /\ (a + j) % PipeBufLength = IF a + j < PipeBufLength THEN a + j ELSE a + j - PipeBufLength
         /\ (a + j) % PipeBufLength \in Slot
  BY PipeAssumption DEF Slot

\* The distance from one index back to another, as Used and Fill compute it.
LEMMA Distance ==
  ASSUME NEW a \in Slot, NEW b \in Slot
  PROVE  /\ (a - b) % PipeBufLength = IF a >= b THEN a - b ELSE a - b + PipeBufLength
         /\ (a - b) % PipeBufLength \in Slot
  BY PipeAssumption DEF Slot

\* What is used and what is free fit the buffer; an empty pipe is one whose
\* indices meet.
LEMMA UsedSlot ==
  ASSUME front \in Slot, back \in Slot
  PROVE  /\ Used \in Slot /\ Free \in Slot /\ Used + Free = PipeBufLength - 1
         /\ Used = 0 <=> front = back
  BY PipeAssumption, Distance DEF Slot, Used, Free

\* The bytes Read copies are a sequence of bytes.
LEMMA TakenSeq ==
  ASSUME buf \in [Slot -> Byte], back \in Slot, NEW k \in 0..PipeBufLength
  PROVE  /\ Taken(k) \in Seq(Byte) /\ Len(Taken(k)) = k
         /\ \A j \in 1..k : (back + j - 1) % PipeBufLength \in Slot
  <1>1. \A j \in 1..k : (back + j - 1) % PipeBufLength \in Slot
    <2>1. SUFFICES ASSUME NEW j \in 1..k PROVE (back + (j - 1)) % PipeBufLength \in Slot
      BY PipeAssumption DEF Slot
    <2>2. j - 1 \in Slot
      BY PipeAssumption DEF Slot
    <2> QED BY <2>2, Wrap
  <1>2. Taken(k) \in [1..k -> Byte]
    BY <1>1 DEF Taken
  <1> QED BY <1>1, <1>2, PipeAssumption

-----------------------------------------------------------------------------
(* The queue of bytes from back to front.                                  *)

\* Read moves back over k bytes: these are the oldest of the queue, and the
\* queue keeps the others in order.
LEMMA TakeBytes ==
  ASSUME buf \in [Slot -> Byte], front \in Slot, back \in Slot, NEW k \in 0..Used,
         back' = (back + k) % PipeBufLength, buf' = buf, front' = front
  PROVE  /\ back' \in Slot
         /\ Taken(k) = SubSeq(Taken(Used), 1, k)
         /\ Taken(Used)' = SubSeq(Taken(Used), k + 1, Len(Taken(Used)))
  <1>1. Used \in Slot /\ Used \in 0..PipeBufLength /\ k \in Slot /\ k \in Nat
    BY UsedSlot, PipeAssumption DEF Slot
  <1>2. back' \in Slot /\ back' = IF back + k < PipeBufLength THEN back + k ELSE back + k - PipeBufLength
    BY <1>1, Wrap
  <1>3. Used' = Used - k
    <2>1. Used = IF front >= back THEN front - back ELSE front - back + PipeBufLength
      BY Distance DEF Used
    <2>2. Used' = IF front >= back' THEN front - back' ELSE front - back' + PipeBufLength
      BY <1>2, Distance DEF Used
    <2> QED BY <1>1, <1>2, <2>1, <2>2, PipeAssumption DEF Slot
  <1>4. Taken(Used) \in Seq(Byte) /\ Len(Taken(Used)) = Used
    BY <1>1, TakenSeq
  <1>5. \A j \in 1..(Used - k) : (back' + j - 1) % PipeBufLength = (back + (k + j) - 1) % PipeBufLength
    <2>1. SUFFICES ASSUME NEW j \in 1..(Used - k)
                   PROVE  (back' + (j - 1)) % PipeBufLength = (back + (k + j - 1)) % PipeBufLength
      BY <1>1, <1>2 DEF Slot
    <2>2. j - 1 \in Slot /\ k + j - 1 \in Slot
      BY <1>1, PipeAssumption DEF Slot
    <2>3. (back' + (j - 1)) % PipeBufLength
            = IF back' + (j - 1) < PipeBufLength THEN back' + (j - 1) ELSE back' + (j - 1) - PipeBufLength
      BY <1>2, <2>2, Wrap
    <2>4. (back + (k + j - 1)) % PipeBufLength
            = IF back + (k + j - 1) < PipeBufLength THEN back + (k + j - 1) ELSE back + (k + j - 1) - PipeBufLength
      BY <2>2, Wrap
    <2> QED BY <1>1, <1>2, <2>3, <2>4, PipeAssumption DEF Slot
  <1>6. Taken(k) = SubSeq(Taken(Used), 1, k)
    BY <1>1, <1>4, PipeAssumption DEF Taken, Slot
  <1>7. Taken(Used)' = SubSeq(Taken(Used), k + 1, Len(Taken(Used)))
    <2>1. Taken(Used)' = [j \in 1..(Used - k) |-> buf[(back' + j - 1) % PipeBufLength]]
      BY <1>3 DEF Taken
    <2>2. SubSeq(Taken(Used), k + 1, Len(Taken(Used)))
            = [j \in 1..(Used - k) |-> buf[(back + (k + j) - 1) % PipeBufLength]]
      BY <1>1, <1>4, PipeAssumption DEF Taken, Slot
    <2> QED BY <2>1, <2>2, <1>5
  <1> QED BY <1>2, <1>6, <1>7

\* A concatenation, element by element.
LEMMA Joined ==
  ASSUME NEW S, NEW s \in Seq(S), NEW t \in Seq(S)
  PROVE  s \o t = [j \in 1..(Len(s) + Len(t)) |-> IF j <= Len(s) THEN s[j] ELSE t[j - Len(s)]]
  <1>1. s \o t \in Seq(S) /\ Len(s \o t) = Len(s) + Len(t)
    OBVIOUS
  <1>2. \A u \in Seq(S) : u = [j \in 1..Len(u) |-> u[j]]
    OBVIOUS
  <1>3. \A j \in 1..(Len(s) + Len(t)) : (s \o t)[j] = IF j <= Len(s) THEN s[j] ELSE t[j - Len(s)]
    BY ConcatProperties, Zenon
  <1>4. s \o t = [j \in 1..(Len(s) + Len(t)) |-> (s \o t)[j]]
    BY <1>1, <1>2
  <1> QED BY <1>3, <1>4, Zenon

\* Write stores k bytes behind front: they follow the queue, none of whose
\* bytes is touched.
LEMMA AddBytes ==
  ASSUME buf \in [Slot -> Byte], front \in Slot, back \in Slot, NEW data \in Seq(Byte),
         NEW k \in 0..Free, k <= Len(data),
         buf' = Fill(data, k), front' = (front + k) % PipeBufLength, back' = back
  PROVE  /\ buf' \in [Slot -> Byte] /\ front' \in Slot
         /\ Taken(Used)' = Taken(Used) \o SubSeq(data, 1, k)
         /\ Used' = Used + k
  <1>1. /\ Used \in Slot /\ Used \in 0..PipeBufLength /\ k \in Slot /\ k \in Nat
        /\ Used + k < PipeBufLength /\ Len(data) \in Nat
    BY UsedSlot, PipeAssumption DEF Slot
  <1>2. front' \in Slot /\ front' = IF front + k < PipeBufLength THEN front + k ELSE front + k - PipeBufLength
    BY <1>1, Wrap
  <1>3. Used' = Used + k
    <2>1. Used = IF front >= back THEN front - back ELSE front - back + PipeBufLength
      BY Distance DEF Used
    <2>2. Used' = IF front' >= back THEN front' - back ELSE front' - back + PipeBufLength
      BY <1>2, Distance DEF Used
    <2> QED BY <1>1, <1>2, <2>1, <2>2, PipeAssumption DEF Slot
  <1>4. buf' \in [Slot -> Byte]
    <2>1. \A i \in Slot : (i - front) % PipeBufLength \in Slot
      BY Distance
    <2> QED BY <1>1, <2>1, PipeAssumption DEF Fill, Slot
  <1>5. Taken(Used) \in Seq(Byte) /\ Len(Taken(Used)) = Used
    BY <1>1, TakenSeq
  <1>6. ASSUME NEW j \in 1..(Used + k)
        PROVE  buf'[(back + j - 1) % PipeBufLength]
                 = IF j <= Used THEN buf[(back + j - 1) % PipeBufLength] ELSE data[j - Used]
    <2> DEFINE i == (back + j - 1) % PipeBufLength
    <2>1. j - 1 \in Slot /\ back + (j - 1) = back + j - 1
      BY <1>1, PipeAssumption DEF Slot
    <2>2. i \in Slot /\ i = IF back + (j - 1) < PipeBufLength THEN back + (j - 1)
                            ELSE back + (j - 1) - PipeBufLength
      BY <2>1, Wrap
    <2>3. (i - front) % PipeBufLength = IF i >= front THEN i - front ELSE i - front + PipeBufLength
      BY <2>2, Distance
    <2>4. Used = IF front >= back THEN front - back ELSE front - back + PipeBufLength
      BY Distance DEF Used
    <2> HIDE DEF i
    <2>5. buf'[i] = IF ((i - front) % PipeBufLength) + 1 <= k
                    THEN data[((i - front) % PipeBufLength) + 1] ELSE buf[i]
      BY <2>2 DEF Fill
    <2>6. CASE j <= Used
      <3>1. ~(((i - front) % PipeBufLength) + 1 <= k)
        BY <1>1, <2>2, <2>3, <2>4, <2>6, PipeAssumption DEF Slot
      <3> QED BY <2>5, <2>6, <3>1 DEF i
    <2>7. CASE j > Used
      <3>1. ((i - front) % PipeBufLength) + 1 = j - Used /\ j - Used <= k /\ ~(j <= Used)
        BY <1>1, <2>2, <2>3, <2>4, <2>7, PipeAssumption DEF Slot
      <3> QED BY <2>5, <3>1 DEF i
    <2> QED BY <2>6, <2>7, <1>1
  <1>7. Taken(Used)' = Taken(Used) \o SubSeq(data, 1, k)
    <2>1. Taken(Used)' = [j \in 1..(Used + k) |-> buf'[(back + j - 1) % PipeBufLength]]
      BY <1>3 DEF Taken
    <2>2. SubSeq(data, 1, k) \in Seq(Byte) /\ Len(SubSeq(data, 1, k)) = k
          /\ \A m \in 1..k : SubSeq(data, 1, k)[m] = data[m]
      BY <1>1
    <2>3. Taken(Used) \o SubSeq(data, 1, k)
            = [j \in 1..(Used + k) |-> IF j <= Used THEN buf[(back + j - 1) % PipeBufLength] ELSE data[j - Used]]
      <3> DEFINE q == Taken(Used)
                 d == SubSeq(data, 1, k)
      <3>1. q \o d = [j \in 1..(Len(q) + Len(d)) |-> IF j <= Len(q) THEN q[j] ELSE d[j - Len(q)]]
        BY <1>5, <2>2, Joined
      <3>2. \A j \in 1..(Used + k) : IF j <= Used THEN j \in 1..Used ELSE j - Used \in 1..k
        BY <1>1
      <3>3. \A j \in 1..Used : q[j] = buf[(back + j - 1) % PipeBufLength]
        BY DEF Taken
      <3>4. Len(q) = Used /\ Len(d) = k /\ \A m \in 1..k : d[m] = data[m]
        BY <1>5, <2>2
      <3> HIDE DEF q, d
      <3>5. q \o d = [j \in 1..(Used + k) |-> IF j <= Used THEN q[j] ELSE d[j - Used]]
        BY <3>1, <3>4
      <3>6. q \o d = [j \in 1..(Used + k) |-> IF j <= Used THEN buf[(back + j - 1) % PipeBufLength]
                                             ELSE data[j - Used]]
        BY <3>2, <3>3, <3>4, <3>5
      <3> QED BY <3>6 DEF q, d
    <2> QED BY <2>1, <2>3, <1>6
  <1> QED BY <1>2, <1>3, <1>4, <1>7

-----------------------------------------------------------------------------
(* The invariant.                                                          *)

\* The data of a write, and the bytes a read of at most MaxCount returns.
LEMMA DataSeq ==
  ASSUME NEW data \in Data
  PROVE  data \in Seq(Byte) /\ Len(data) \in 0..MaxCount
  <1>1. PICK k \in 0..MaxCount : data \in [1..k -> Byte]
    BY DEF Data
  <1> QED BY <1>1, PipeAssumption

\* A call that returns leaves its process in user mode with no call pending.
LEMMA Returns ==
  ASSUME TypeOK, NEW p \in Proc, NEW r \in Answer, Return(p, r)
  PROVE  /\ state' \in [Proc -> {"user", "waiting", "killed", "exited"}]
         /\ pending' \in [Proc -> Call] /\ answer' \in [Proc -> Answer]
         /\ \A q \in Proc : /\ state'[q] = IF q = p THEN "user" ELSE state[q]
                            /\ pending'[q] = IF q = p THEN NoCall ELSE pending[q]
                            /\ answer'[q] = IF q = p THEN r ELSE answer[q]
  <1>1. NoCall \in Call
    BY DEF Call
  <1> QED BY <1>1 DEF TypeOK, Return

\* A read keeps the counters fresh.
LEMMA ReadSomeFresh ==
  ASSUME CountsAreFresh, NEW p \in Readers, NEW count \in 0..MaxCount, ReadSome(p, count)
  PROVE  CountsAreFresh'
  <1> DEFINE k == IF count <= Used THEN count ELSE Used
  <1>1. p \in Proc /\ TypeOK
    BY DEF Proc, CountsAreFresh
  <1>2. Used \in Slot /\ k \in 0..Used /\ k \in 0..MaxCount /\ k \in 0..PipeBufLength
    BY <1>1, UsedSlot, PipeAssumption DEF TypeOK, Slot
  <1>3. back' \in Slot
    BY <1>1, <1>2, TakeBytes DEF ReadSome, TypeOK
  <1>4. Taken(k) \in Data
    <2>1. \A j \in 1..k : (back + j - 1) % PipeBufLength \in Slot
      BY <1>1, <1>2, TakenSeq DEF TypeOK
    <2>2. Taken(k) \in [1..k -> Byte]
      BY <1>1, <2>1 DEF Taken, TypeOK
    <2> QED BY <1>2, <2>2 DEF Data
  <1>5. [op |-> "read", bytes |-> Taken(k)] \in Answer
    BY <1>4 DEF Answer
  <1>6. pipe_write_count[p] = 0
    BY <1>1 DEF ReadSome, Calls, CountsAreFresh
  <1>7. Return(p, [op |-> "read", bytes |-> Taken(k)])
    BY DEF ReadSome
  <1> HIDE DEF k
  <1>8. /\ state' \in [Proc -> {"user", "waiting", "killed", "exited"}]
        /\ pending' \in [Proc -> Call] /\ answer' \in [Proc -> Answer]
        /\ \A q \in Proc : /\ state'[q] = IF q = p THEN "user" ELSE state[q]
                           /\ pending'[q] = IF q = p THEN NoCall ELSE pending[q]
    BY <1>1, <1>5, <1>7, Returns
  <1>9. /\ buf' = buf /\ front' = front /\ pipe_write_count' = pipe_write_count
        /\ pipe_read_count' = [pipe_read_count EXCEPT ![p] = 0]
    BY DEF ReadSome
  <1>10. TypeOK'
    BY <1>1, <1>3, <1>8, <1>9, PipeAssumption DEF TypeOK
  <1>11. \A q \in Proc : pipe_read_count'[q] = IF q = p THEN 0 ELSE pipe_read_count[q]
    BY <1>1, <1>9 DEF TypeOK
  <1> QED BY <1>6, <1>8, <1>9, <1>10, <1>11 DEF CountsAreFresh

\* So does a read of an empty pipe: the one counter that grows is the one of the
\* call that waits, and it stops one above the patience.
LEMMA ReadEmptyFresh ==
  ASSUME CountsAreFresh, NEW p \in Readers, NEW count \in 0..MaxCount, ReadEmpty(p, count)
  PROVE  CountsAreFresh'
  <1> DEFINE call == [op |-> "read", count |-> count]
  <1>1. p \in Proc /\ TypeOK /\ call \in Call /\ call.op = "read"
    BY DEF Proc, CountsAreFresh, Call
  <1>2. pipe_write_count[p] = 0
    BY <1>1 DEF ReadEmpty, Calls, CountsAreFresh
  <1> HIDE DEF call
  <1>3. CASE Kill(p, call) /\ UNCHANGED pipe_read_count
    <2>1. TypeOK'
      BY <1>1, <1>3 DEF TypeOK, ReadEmpty, Kill
    <2>2. \A q \in Proc : (state'[q] = IF q = p THEN "killed" ELSE state[q])
            /\ (pending'[q] = IF q = p THEN call ELSE pending[q])
            /\ pipe_read_count'[q] = pipe_read_count[q]
            /\ pipe_write_count'[q] = pipe_write_count[q]
      BY <1>1, <1>3 DEF TypeOK, ReadEmpty, Kill
    <2> QED BY <2>1, <2>2 DEF CountsAreFresh
  <1>4. CASE /\ ~(pipe_read_count[p] > ReadPatience)
             /\ pipe_read_count' = [pipe_read_count EXCEPT ![p] = @ + 1]
             /\ Retry(p, call)
    <2>1. pipe_read_count[p] + 1 \in 0..(ReadPatience + 1)
      BY <1>1, <1>4, PipeAssumption DEF TypeOK
    <2>2. TypeOK'
      BY <1>1, <1>4, <2>1 DEF TypeOK, ReadEmpty, Retry
    <2>3. \A q \in Proc : (state'[q] = IF q = p THEN "waiting" ELSE state[q])
            /\ (pending'[q] = IF q = p THEN call ELSE pending[q])
            /\ (q # p => pipe_read_count'[q] = pipe_read_count[q])
            /\ pipe_write_count'[q] = pipe_write_count[q]
      BY <1>1, <1>4 DEF TypeOK, ReadEmpty, Retry
    <2> QED BY <1>1, <1>2, <2>2, <2>3 DEF CountsAreFresh
  <1> QED BY <1>3, <1>4 DEF ReadEmpty, call

\* A write that returns resets its counter.
LEMMA WriteReturnFresh ==
  ASSUME CountsAreFresh, NEW p \in Writers, NEW data \in Data, NEW k \in 0..MaxCount,
         Calls(p, [op |-> "write", data |-> data]),
         Return(p, [op |-> "write", data |-> data, count |-> k]),
         pipe_write_count' = [pipe_write_count EXCEPT ![p] = 0],
         buf' \in [Slot -> Byte], front' \in Slot, back' = back, pipe_read_count' = pipe_read_count
  PROVE  CountsAreFresh'
  <1>1. p \in Proc /\ TypeOK
    BY DEF Proc, CountsAreFresh
  <1>2. pipe_read_count[p] = 0
    BY <1>1 DEF Calls, CountsAreFresh
  <1>3. [op |-> "write", data |-> data, count |-> k] \in Answer
    BY DEF Answer
  <1>4. /\ state' \in [Proc -> {"user", "waiting", "killed", "exited"}]
        /\ pending' \in [Proc -> Call] /\ answer' \in [Proc -> Answer]
        /\ \A q \in Proc : /\ state'[q] = IF q = p THEN "user" ELSE state[q]
                           /\ pending'[q] = IF q = p THEN NoCall ELSE pending[q]
    BY <1>1, <1>3, Returns
  <1>5. TypeOK'
    BY <1>1, <1>4, PipeAssumption DEF TypeOK
  <1>6. \A q \in Proc : pipe_write_count'[q] = IF q = p THEN 0 ELSE pipe_write_count[q]
    BY <1>1 DEF TypeOK
  <1> QED BY <1>2, <1>4, <1>5, <1>6 DEF CountsAreFresh

\* A write of all its data keeps the counters fresh.
LEMMA WriteAllFresh ==
  ASSUME CountsAreFresh, NEW p \in Writers, NEW data \in Data, WriteAll(p, data)
  PROVE  CountsAreFresh'
  <1>1. TypeOK /\ data \in Seq(Byte) /\ Len(data) \in 0..MaxCount
    BY DataSeq DEF CountsAreFresh
  <1>2. Free \in Slot /\ Len(data) \in 0..Free
    BY <1>1, UsedSlot, PipeAssumption DEF WriteAll, TypeOK, Slot
  <1>3. buf' \in [Slot -> Byte] /\ front' \in Slot
    BY <1>1, <1>2, AddBytes DEF WriteAll, TypeOK
  <1> QED BY <1>1, <1>3, WriteReturnFresh DEF WriteAll

\* And a write that fills the pipe, whichever of its three ends it has.
LEMMA WriteFullFresh ==
  ASSUME CountsAreFresh, NEW p \in Writers, NEW data \in Data, WriteFull(p, data)
  PROVE  CountsAreFresh'
  <1> DEFINE call == [op |-> "write", data |-> data]
  <1>1. p \in Proc /\ TypeOK /\ call \in Call /\ call.op = "write" /\ data \in Seq(Byte) /\ Len(data) \in 0..MaxCount
    BY DataSeq DEF Proc, CountsAreFresh, Call
  <1>2. Free \in Slot /\ Free \in 0..Free /\ Free <= Len(data) /\ Free \in 0..MaxCount
    <2>1. Free \in Slot
      BY <1>1, UsedSlot DEF TypeOK
    <2>2. Len(data) > Free
      BY DEF WriteFull
    <2> QED BY <1>1, <2>1, <2>2, PipeAssumption DEF Slot
  <1>3. buf' \in [Slot -> Byte] /\ front' \in Slot
    BY <1>1, <1>2, AddBytes DEF WriteFull, TypeOK
  <1>4. pipe_read_count[p] = 0 /\ back' = back /\ pipe_read_count' = pipe_read_count
    BY <1>1 DEF WriteFull, Calls, CountsAreFresh
  <1> HIDE DEF call
  <1>5. CASE Kill(p, call) /\ UNCHANGED pipe_write_count
    <2>1. TypeOK'
      BY <1>1, <1>3, <1>4, <1>5 DEF TypeOK, Kill
    <2>2. \A q \in Proc : (state'[q] = IF q = p THEN "killed" ELSE state[q])
            /\ (pending'[q] = IF q = p THEN call ELSE pending[q])
      BY <1>1, <1>5 DEF TypeOK, Kill
    <2> QED BY <1>4, <1>5, <2>1, <2>2 DEF CountsAreFresh
  <1>6. CASE /\ pipe_write_count[p] <= WritePatience
             /\ pipe_write_count' = [pipe_write_count EXCEPT ![p] = @ + 1]
             /\ Retry(p, call)
    <2>1. pipe_write_count[p] + 1 \in 0..(WritePatience + 1)
      BY <1>1, <1>6, PipeAssumption DEF TypeOK
    <2>2. TypeOK'
      BY <1>1, <1>3, <1>4, <1>6, <2>1 DEF TypeOK, Retry
    <2>3. \A q \in Proc : (state'[q] = IF q = p THEN "waiting" ELSE state[q])
            /\ (pending'[q] = IF q = p THEN call ELSE pending[q])
            /\ (q # p => pipe_write_count'[q] = pipe_write_count[q])
      BY <1>1, <1>6 DEF TypeOK, Retry
    <2> QED BY <1>1, <1>4, <2>2, <2>3 DEF CountsAreFresh
  <1>7. CASE /\ pipe_write_count' = [pipe_write_count EXCEPT ![p] = 0]
             /\ Return(p, [op |-> "write", data |-> data, count |-> Free])
    BY <1>2, <1>3, <1>4, <1>7, WriteReturnFresh DEF WriteFull
  <1> QED BY <1>5, <1>6, <1>7 DEF WriteFull, call

\* The counters are fresh in every step of the pipe.
LEMMA FreshStep == CountsAreFresh /\ [Next]_vars => CountsAreFresh'
  <1> SUFFICES ASSUME CountsAreFresh, [Next]_vars PROVE CountsAreFresh'
    OBVIOUS
  <1>1. ASSUME NEW p \in Readers, ReadStep(p) PROVE CountsAreFresh'
    BY <1>1, ReadSomeFresh, ReadEmptyFresh DEF ReadStep
  <1>2. ASSUME NEW p \in Writers, WriteStep(p) PROVE CountsAreFresh'
    BY <1>2, WriteAllFresh, WriteFullFresh DEF WriteStep
  <1>3. ASSUME NEW p \in Readers, TestPipe(p) PROVE CountsAreFresh'
    <2>1. p \in Proc /\ [op |-> "select", ready |-> front # back] \in Answer
      BY DEF Proc, Answer
    <2> QED BY <1>3, <2>1 DEF CountsAreFresh, TypeOK, TestPipe
  <1>4. ASSUME NEW p \in Proc, Exit(p) PROVE CountsAreFresh'
    <2>1. TypeOK' /\ \A q \in Proc : state'[q] = IF q = p THEN "exited" ELSE state[q]
      BY <1>4 DEF CountsAreFresh, TypeOK, Exit
    <2> QED BY <1>4, <2>1 DEF CountsAreFresh, Exit
  <1>5. CASE UNCHANGED vars
    BY <1>5 DEF vars, CountsAreFresh, TypeOK
  <1> QED BY <1>1, <1>2, <1>3, <1>4, <1>5 DEF Next

\* No call inherits the retries of an earlier one: __yield counts for the call
\* that waits and for no other, whatever the other processes do.
THEOREM FreshCounts == Spec => []CountsAreFresh
  <1>1. Init => CountsAreFresh
    <2>1. PipeBufLength \in Nat /\ 0 \in Slot /\ NoCall \in Call /\ NoCall \in Answer
      BY PipeAssumption DEF Slot, Call, Answer
    <2> QED BY <2>1, PipeAssumption DEF Init, CountsAreFresh, TypeOK
  <1> QED BY <1>1, FreshStep, PTL DEF Spec

-----------------------------------------------------------------------------
(* The refinement.                                                         *)

\* A read of bytes that are there receives them from the channel.
LEMMA ReadSomeReceives ==
  ASSUME CountsAreFresh, NEW p \in Readers, NEW count \in 0..MaxCount, ReadSome(p, count)
  PROVE  Chan!Next
  <1> DEFINE k == IF count <= Used THEN count ELSE Used
  <1>1. p \in Proc /\ TypeOK
    BY DEF Proc, CountsAreFresh
  <1>2. Used \in Slot /\ k \in 0..Used /\ Used \in 0..PipeBufLength
    BY <1>1, UsedSlot, PipeAssumption DEF TypeOK, Slot
  <1>3. /\ Taken(k) = SubSeq(Taken(Used), 1, k)
        /\ Taken(Used)' = SubSeq(Taken(Used), k + 1, Len(Taken(Used)))
    BY <1>1, <1>2, TakeBytes DEF ReadSome, TypeOK
  <1>4. Len(Taken(Used)) = Used
    BY <1>1, <1>2, TakenSeq DEF TypeOK
  <1>5. k = count \/ (k = Used /\ k < count /\ k > 0)
    BY <1>2, PipeAssumption DEF ReadSome, Slot
  <1>6. /\ Calls(p, [op |-> "read", count |-> count])
        /\ Return(p, [op |-> "read", bytes |-> Taken(k)])
    BY DEF ReadSome
  <1> HIDE DEF k
  <1>7. Chan!Receive(p, count, k)
    BY <1>3, <1>4, <1>5, <1>6 DEF Chan!Receive, Chan!Makes, Chan!Return, Chan!None, Calls, Return, NoCall
  <1>8. k \in 0..Len(Taken(Used))
    BY <1>2, <1>4
  <1> QED BY <1>1, <1>7, <1>8 DEF Chan!Next

\* A read of an empty pipe waits, or gives up when it has waited.
LEMMA ReadEmptyWaits ==
  ASSUME CountsAreFresh, NEW p \in Readers, NEW count \in 0..MaxCount, ReadEmpty(p, count)
  PROVE  Chan!Next
  <1> DEFINE call == [op |-> "read", count |-> count]
  <1>1. p \in Proc /\ TypeOK /\ call.op = "read" /\ Calls(p, call)
    BY DEF Proc, CountsAreFresh, ReadEmpty
  <1>2. Used = 0 /\ 0 \in 0..PipeBufLength /\ 0 \in 0..(PipeBufLength - 1)
    BY PipeAssumption DEF ReadEmpty
  <1>3. Taken(Used) = <<>>
    BY <1>1, <1>2, TakenSeq DEF TypeOK
  <1>4. Taken(Used)' = Taken(Used)
    BY DEF ReadEmpty, Taken, Used
  <1>5. CASE pipe_read_count[p] > ReadPatience /\ Kill(p, call)
    <2>1. state[p] = "waiting" /\ pending[p] = call
      BY <1>1, <1>5, PipeAssumption DEF Calls, CountsAreFresh
    <2>2. pending' = pending
      BY <1>1, <1>5, <2>1 DEF Kill, TypeOK
    <2>3. state' = [state EXCEPT ![p] = "killed"] /\ answer' = answer
      BY <1>5 DEF Kill
    <2>4. Chan!GiveUp(p, 0)
      BY <1>1, <1>3, <1>4, <2>1, <2>2, <2>3 DEF Chan!GiveUp
    <2> QED BY <1>1, <1>2, <2>4 DEF Chan!Next
  <1>6. CASE Retry(p, call)
    <2>1. Chan!Wait(p, call)
      BY <1>1, <1>3, <1>4, <1>6 DEF Chan!Wait, Chan!Makes, Chan!Blocks, Calls, Retry
    <2> QED BY <1>1, <2>1 DEF Chan!Next
  <1> QED BY <1>5, <1>6 DEF ReadEmpty

\* A write of all its data sends it.
LEMMA WriteAllSends ==
  ASSUME CountsAreFresh, NEW p \in Writers, NEW data \in Data, WriteAll(p, data)
  PROVE  Chan!Next
  <1> DEFINE k == Len(data)
  <1>1. p \in Proc /\ TypeOK /\ data \in Seq(Byte) /\ k \in Nat
    BY DataSeq DEF Proc, CountsAreFresh
  <1>2. Used \in Slot /\ Free \in Slot /\ Used + Free = PipeBufLength - 1 /\ Used \in 0..PipeBufLength
    BY <1>1, UsedSlot, PipeAssumption DEF TypeOK, Slot
  <1>3. k \in 0..Free
    BY <1>1, <1>2 DEF WriteAll, Slot
  <1>4. Taken(Used)' = Taken(Used) \o SubSeq(data, 1, k)
    BY <1>1, <1>3, AddBytes DEF WriteAll, TypeOK
  <1>5. Len(Taken(Used)) = Used
    BY <1>1, <1>2, TakenSeq DEF TypeOK
  <1>6. k + Len(Taken(Used)) <= PipeBufLength - 1
    BY <1>2, <1>3, <1>5, PipeAssumption DEF Slot
  <1>7. Chan!Send(p, data, k)
    BY <1>4, <1>6 DEF WriteAll, Chan!Send, Chan!Makes, Chan!Return, Chan!None, Calls, Return, NoCall
  <1>8. data \in Chan!Data /\ k \in 0..Len(data)
    BY <1>1 DEF Data, Chan!Data
  <1> QED BY <1>1, <1>7, <1>8 DEF Chan!Next

\* A write that fills the pipe sends what fits, waits when that is nothing, or
\* gives up when it has waited.
LEMMA WriteFullSends ==
  ASSUME CountsAreFresh, NEW p \in Writers, NEW data \in Data, WriteFull(p, data)
  PROVE  Chan!Next
  <1> DEFINE call == [op |-> "write", data |-> data]
  <1>1. /\ p \in Proc /\ TypeOK /\ call.op = "write" /\ call.data = data
        /\ data \in Seq(Byte) /\ Len(data) \in Nat /\ Calls(p, call) /\ Len(data) > Free
    BY DataSeq DEF Proc, CountsAreFresh, WriteFull
  <1>2. Used \in Slot /\ Free \in Slot /\ Used + Free = PipeBufLength - 1 /\ Used \in 0..PipeBufLength
    BY <1>1, UsedSlot, PipeAssumption DEF TypeOK, Slot
  <1>3. Free \in 0..Free /\ Free <= Len(data) /\ Free \in 0..Len(data) /\ Free \in 0..(PipeBufLength - 1)
    BY <1>1, <1>2, PipeAssumption DEF Slot
  <1>4. Taken(Used)' = Taken(Used) \o SubSeq(data, 1, Free) /\ Used' = Used + Free
    BY <1>1, <1>3, AddBytes DEF WriteFull, TypeOK
  <1>5. Len(Taken(Used)) = Used /\ Taken(Used) \in Seq(Byte)
    BY <1>1, <1>2, TakenSeq DEF TypeOK
  <1>6. Free + Len(Taken(Used)) = PipeBufLength - 1
    BY <1>2, <1>5, PipeAssumption DEF Slot
  <1>7. data \in Chan!Data
    BY DEF Data, Chan!Data
  <1>8. CASE pipe_write_count[p] > WritePatience /\ Kill(p, call)
    <2>1. state[p] = "waiting" /\ pending[p] = call
      BY <1>1, <1>8, PipeAssumption DEF Calls, CountsAreFresh
    <2>2. pending' = pending
      BY <1>1, <1>8, <2>1 DEF Kill, TypeOK
    <2>3. state' = [state EXCEPT ![p] = "killed"] /\ answer' = answer
      BY <1>8 DEF Kill
    <2>4. pending[p].op = "write" /\ pending[p].data = data
      BY <1>1, <2>1
    <2>5. Chan!GiveUp(p, Free)
      BY <1>1, <1>4, <1>6, <2>1, <2>2, <2>3, <2>4 DEF Chan!GiveUp
    <2> QED BY <1>1, <1>3, <2>5 DEF Chan!Next
  <1>9. CASE Free = 0 /\ Retry(p, call)
    <2>1. Taken(Used)' = Taken(Used)
      <3>1. SubSeq(data, 1, 0) = <<>>
        BY <1>1
      <3> QED BY <1>4, <1>5, <1>9, <3>1
    <2>2. Len(Taken(Used)) = PipeBufLength - 1
      BY <1>2, <1>6, <1>9 DEF Slot
    <2>3. Chan!Wait(p, call)
      BY <1>1, <1>9, <2>1, <2>2 DEF Chan!Wait, Chan!Makes, Chan!Blocks, Calls, Retry
    <2> QED BY <1>1, <1>7, <2>3 DEF Chan!Next
  <1>10. CASE Free # 0 /\ Return(p, [op |-> "write", data |-> data, count |-> Free])
    <2>1. Free > 0 /\ Free + Len(Taken(Used)) <= PipeBufLength - 1
      BY <1>2, <1>6, <1>10, PipeAssumption DEF Slot
    <2>2. Chan!Send(p, data, Free)
      BY <1>1, <1>4, <1>6, <1>10, <2>1
         DEF Chan!Send, Chan!Makes, Chan!Return, Chan!None, Calls, Return, NoCall
    <2> QED BY <1>1, <1>3, <1>7, <2>2 DEF Chan!Next
  <1>11. pipe_write_count[p] \in Nat
    BY <1>1, PipeAssumption DEF TypeOK
  <1> QED BY <1>8, <1>9, <1>10, <1>11, PipeAssumption DEF WriteFull

\* Every step of the ring buffer is a step of the channel, or none.
LEMMA ChannelStep == CountsAreFresh /\ [Next]_vars => [Chan!Next]_(Chan!cvars)
  <1> SUFFICES ASSUME CountsAreFresh, [Next]_vars PROVE [Chan!Next]_(Chan!cvars)
    OBVIOUS
  <1>1. ASSUME NEW p \in Readers, ReadStep(p) PROVE Chan!Next
    BY <1>1, ReadSomeReceives, ReadEmptyWaits DEF ReadStep
  <1>2. ASSUME NEW p \in Writers, WriteStep(p) PROVE Chan!Next
    BY <1>2, WriteAllSends, WriteFullSends DEF WriteStep
  <1>3. front \in Slot /\ back \in Slot /\ buf \in [Slot -> Byte] /\ Used \in 0..PipeBufLength
    BY UsedSlot, PipeAssumption DEF CountsAreFresh, TypeOK, Slot
  <1>4. Len(Taken(Used)) = Used /\ Taken(Used) \in Seq(Byte)
    BY <1>3, TakenSeq
  <1>5. ASSUME NEW p \in Readers, TestPipe(p) PROVE Chan!Next
    <2>1. (front # back) = (Taken(Used) # <<>>)
      BY <1>3, <1>4, UsedSlot
    <2>2. Taken(Used)' = Taken(Used)
      BY <1>5 DEF TestPipe, Taken, Used
    <2>3. Chan!Poll(p)
      BY <1>5, <2>1, <2>2 DEF TestPipe, Chan!Poll
    <2> QED BY <2>3 DEF Chan!Next, Proc
  <1>6. ASSUME NEW p \in Proc, Exit(p) PROVE Chan!Next
    <2>1. Taken(Used)' = Taken(Used)
      BY <1>6 DEF Exit, Taken, Used
    <2>2. Chan!Exit(p)
      BY <1>6, <2>1 DEF Exit, Chan!Exit
    <2> QED BY <2>2 DEF Chan!Next
  <1>7. CASE UNCHANGED vars
    BY <1>7 DEF vars, Chan!cvars, Taken, Used
  <1> QED BY <1>1, <1>2, <1>5, <1>6, <1>7 DEF Next

\* A pipe is a bounded first-in first-out channel: what Read returns is what
\* Write stored, each byte once and in order, whatever the length of the buffer.
THEOREM PipeIsChannel == Spec => ImplementsChannel
  <1>1. Init => Chan!Init
    <2> SUFFICES ASSUME Init PROVE Chan!Init
      OBVIOUS
    <2>1. 0 \in Slot /\ 0 \in 0..PipeBufLength
      BY PipeAssumption DEF Slot
    <2>2. Used = 0
      BY <2>1, UsedSlot DEF Init
    <2>3. Taken(Used) = <<>>
      BY <2>1, <2>2, TakenSeq DEF Init
    <2> QED BY <2>3 DEF Init, Chan!Init, Chan!None, NoCall
  <1> QED BY <1>1, FreshCounts, ChannelStep, PTL DEF Spec, ImplementsChannel, Chan!Spec

-----------------------------------------------------------------------------
(* select().                                                               *)

\* While TestPipe's answer stands, no step of another process empties the pipe.
LEMMA SelectStep == CountsAreFresh /\ SelectStaysTrue /\ [Next]_vars => SelectStaysTrue'
  <1> SUFFICES ASSUME CountsAreFresh, SelectStaysTrue, [Next]_vars,
                      NEW p \in Readers, Readers = {p},
                      answer'[p] = [op |-> "select", ready |-> TRUE]
               PROVE  Used' > 0
    BY DEF SelectStaysTrue
  <1>1. p \in Proc /\ TypeOK /\ answer \in [Proc -> Answer]
    BY DEF Proc, CountsAreFresh, TypeOK
  <1>2. Used \in Slot /\ Free \in Slot /\ (Used = 0 <=> front = back)
    BY <1>1, UsedSlot DEF TypeOK
  <1>3. answer[p] = [op |-> "select", ready |-> TRUE] => Used > 0
    BY DEF SelectStaysTrue
  <1>4. ASSUME NEW r, Return(p, r), r.op # "select" PROVE FALSE
    BY <1>1, <1>4 DEF Return
  <1>5. ASSUME NEW count \in 0..MaxCount, ReadSome(p, count) PROVE FALSE
    BY <1>4, <1>5 DEF ReadSome
  <1>6. ASSUME NEW count \in 0..MaxCount, ReadEmpty(p, count) PROVE Used' > 0
    BY <1>3, <1>6 DEF ReadEmpty, Kill, Retry, Used
  <1>7. ASSUME TestPipe(p) PROVE Used' > 0
    <2>1. front # back
      BY <1>1, <1>7 DEF TestPipe
    <2>2. Used' = Used
      BY <1>7 DEF TestPipe, Used
    <2> QED BY <1>2, <2>1, <2>2, PipeAssumption DEF Slot
  <1>8. ASSUME NEW w \in Writers, NEW data \in Data, NEW k \in 0..Free, k <= Len(data),
               buf' = Fill(data, k), front' = (front + k) % PipeBufLength, back' = back,
               answer'[p] = answer[p]
        PROVE  Used' > 0
    <2>1. data \in Seq(Byte) /\ Used' = Used + k
      BY <1>1, <1>8, DataSeq, AddBytes DEF TypeOK
    <2> QED BY <1>2, <1>3, <1>8, <2>1, PipeAssumption DEF Slot
  <1>9. ASSUME NEW w \in Writers, NEW data \in Data, WriteAll(w, data) PROVE Used' > 0
    <2>1. w # p
      BY <1>4, <1>9 DEF WriteAll
    <2>2. answer'[p] = answer[p]
      BY <1>1, <1>9, <2>1 DEF WriteAll, Return
    <2>3. Len(data) \in 0..Free /\ Len(data) <= Len(data)
      BY <1>2, <1>9, DataSeq, PipeAssumption DEF WriteAll, Slot
    <2> QED BY <1>8, <1>9, <2>2, <2>3 DEF WriteAll
  <1>10. ASSUME NEW w \in Writers, NEW data \in Data, WriteFull(w, data) PROVE Used' > 0
    <2>1. answer'[p] = answer[p]
      <3>1. CASE answer' = answer
        BY <3>1
      <3>2. CASE Return(w, [op |-> "write", data |-> data, count |-> Free])
        BY <1>1, <1>4, <3>2 DEF Return
      <3> QED BY <1>10, <3>1, <3>2 DEF WriteFull, Kill, Retry
    <2>2. Len(data) > Free /\ Len(data) \in Nat
      BY <1>10, DataSeq, PipeAssumption DEF WriteFull
    <2>3. Free \in 0..Free /\ Free <= Len(data)
      BY <1>2, <2>2, PipeAssumption DEF Slot
    <2> QED BY <1>8, <1>10, <2>1, <2>3 DEF WriteFull
  <1>11. ASSUME NEW q \in Proc, Exit(q) PROVE Used' > 0
    BY <1>3, <1>11 DEF Exit, Used
  <1>12. CASE UNCHANGED vars
    BY <1>3, <1>12 DEF vars, Used
  <1> QED BY <1>5, <1>6, <1>7, <1>9, <1>10, <1>11, <1>12 DEF Next, ReadStep, WriteStep

\* The only reader of a pipe can rely on select(): the answer 1 of TestPipe is
\* true until it reads.
THEOREM SelectHolds == Spec => []SelectStaysTrue
  <1>1. Init => SelectStaysTrue
    <2>1. NoCall # [op |-> "select", ready |-> TRUE]
      BY DEF NoCall
    <2> QED BY <2>1 DEF Init, SelectStaysTrue, Proc
  <1> QED BY <1>1, FreshCounts, SelectStep, PTL DEF Spec
=============================================================================

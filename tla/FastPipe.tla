------------------------------- MODULE FastPipe ------------------------------
(***************************************************************************)
(* One pipe of kernel/fs/FastPipe.h: a ring buffer shared by its readers   *)
(* and writers.  A system call runs to its end or to the yield inside it   *)
(* without being interrupted, so the byte loop of Read and Write is one    *)
(* step.  __yield() leaves the return address on the ecall: the call is    *)
(* made again, with the same arguments, when its process next runs.        *)
(*                                                                         *)
(* Nothing here says which process runs next: that is the scheduler's.     *)
(***************************************************************************)
EXTENDS Integers, Sequences

CONSTANTS
  Readers, Writers,   \* the processes that read and that write the pipe
  Byte,
  PipeBufLength,      \* PIPE_BUF_LENGTH
  MaxCount,           \* bound on the count argument of read and write
  ReadPatience,       \* 200: empty reads of a process before it is ended
  WritePatience       \* 110: the same for writes to a full pipe

ASSUME PipeAssumption ==
  /\ PipeBufLength \in Nat /\ PipeBufLength >= 2
  /\ MaxCount \in Nat
  /\ ReadPatience \in Nat
  /\ WritePatience \in Nat

VARIABLES
  buf,                \* pipe_buffer[i]
  front,              \* next slot to write
  back,               \* next slot to read
  pipe_read_count,
  pipe_write_count,
  state,              \* "user", "waiting", "killed" or "exited"
  pending,            \* the call a waiting process makes again
  answer              \* the last call that returned, and what it returned

vars == <<buf, front, back, pipe_read_count, pipe_write_count, state, pending, answer>>

Proc == Readers \cup Writers
Slot == 0..(PipeBufLength - 1)
Data == UNION {[1..k -> Byte] : k \in 0..MaxCount}
NoCall == [op |-> "none"]

\* Bytes between back and front, and the bytes that fit: one slot stays empty.
Used == (front - back) % PipeBufLength
Free == PipeBufLength - 1 - Used

\* Mutant of Fill: bytes are stored one slot too far.
FillShifted(data, k) ==
  [i \in Slot |-> LET o == ((i - front - 1) % PipeBufLength) + 1
                  IN  IF o <= k THEN data[o] ELSE buf[i]]

\* The buffer after k rounds of the loop of Write.
Fill(data, k) ==
  [i \in Slot |-> LET o == ((i - front) % PipeBufLength) + 1
                  IN  IF o <= k THEN data[o] ELSE buf[i]]

\* The user's buffer after k rounds of the loop of Read.
Taken(k) == [j \in 1..k |-> buf[(back + j - 1) % PipeBufLength]]

-----------------------------------------------------------------------------
\* A call starts in user mode, or is the one the process was waiting with.
Calls(p, call) ==
  \/ state[p] = "user"
  \/ state[p] = "waiting" /\ pending[p] = call

Return(p, result) ==
  /\ state' = [state EXCEPT ![p] = "user"]
  /\ pending' = [pending EXCEPT ![p] = NoCall]
  /\ answer' = [answer EXCEPT ![p] = result]

\* __yield(): the same call is made again.
Retry(p, call) ==
  /\ state' = [state EXCEPT ![p] = "waiting"]
  /\ pending' = [pending EXCEPT ![p] = call]
  /\ UNCHANGED answer

\* exit_process(0), inside the call.
Kill(p, call) ==
  /\ state' = [state EXCEPT ![p] = "killed"]
  /\ pending' = [pending EXCEPT ![p] = call]
  /\ UNCHANGED answer

\* Mutant of ReadSome: only a complete read resets the counter.
ReadSomeKeepsCount(p, count) ==
  LET k == IF count <= Used THEN count ELSE Used IN
  /\ Calls(p, [op |-> "read", count |-> count])
  /\ Used > 0 \/ count = 0
  /\ back' = (back + k) % PipeBufLength
  /\ pipe_read_count' = [pipe_read_count EXCEPT ![p] = IF k = count THEN 0 ELSE @]
  /\ Return(p, [op |-> "read", bytes |-> Taken(k)])
  /\ UNCHANGED <<buf, front, pipe_write_count>>

\* Read: k bytes are there.  All of them are returned, or count of them.
ReadSome(p, count) ==
  LET k == IF count <= Used THEN count ELSE Used IN
  /\ Calls(p, [op |-> "read", count |-> count])
  /\ Used > 0 \/ count = 0
  /\ back' = (back + k) % PipeBufLength
  /\ pipe_read_count' = [pipe_read_count EXCEPT ![p] = 0]
  /\ Return(p, [op |-> "read", bytes |-> Taken(k)])
  /\ UNCHANGED <<buf, front, pipe_write_count>>

\* Mutant of ReadEmpty: the process is never ended.
ReadEmptyForever(p, count) ==
  LET call == [op |-> "read", count |-> count] IN
  /\ Calls(p, call)
  /\ Used = 0 /\ count > 0
  /\ pipe_read_count' = [pipe_read_count EXCEPT ![p] =
                           IF @ > ReadPatience THEN @ ELSE @ + 1]
  /\ Retry(p, call)
  /\ UNCHANGED <<buf, front, back, pipe_write_count>>

\* Read of an empty pipe: yield and retry, or end the process.
ReadEmpty(p, count) ==
  LET call == [op |-> "read", count |-> count] IN
  /\ Calls(p, call)
  /\ Used = 0 /\ count > 0
  /\ IF pipe_read_count[p] > ReadPatience
     THEN Kill(p, call) /\ UNCHANGED pipe_read_count
     ELSE /\ pipe_read_count' = [pipe_read_count EXCEPT ![p] = @ + 1]
          /\ Retry(p, call)
  /\ UNCHANGED <<buf, front, back, pipe_write_count>>

\* Mutant of WriteAll: the slot kept empty is used.
WriteAllOverfull(p, data) ==
  /\ Calls(p, [op |-> "write", data |-> data])
  /\ Len(data) <= Free + 1
  /\ buf' = Fill(data, Len(data))
  /\ front' = (front + Len(data)) % PipeBufLength
  /\ pipe_write_count' = [pipe_write_count EXCEPT ![p] = 0]
  /\ Return(p, [op |-> "write", data |-> data, count |-> Len(data)])
  /\ UNCHANGED <<back, pipe_read_count>>

\* Write: every byte fits.
WriteAll(p, data) ==
  /\ Calls(p, [op |-> "write", data |-> data])
  /\ Len(data) <= Free
  /\ buf' = Fill(data, Len(data))
  /\ front' = (front + Len(data)) % PipeBufLength
  /\ pipe_write_count' = [pipe_write_count EXCEPT ![p] = 0]
  /\ Return(p, [op |-> "write", data |-> data, count |-> Len(data)])
  /\ UNCHANGED <<back, pipe_read_count>>

\* Write: the pipe fills up on the way.  The patience of the process is looked
\* at before the count of bytes already stored.
WriteFull(p, data) ==
  LET call == [op |-> "write", data |-> data] IN
  /\ Calls(p, call)
  /\ Len(data) > Free
  /\ buf' = Fill(data, Free)
  /\ front' = (front + Free) % PipeBufLength
  /\ CASE pipe_write_count[p] > WritePatience ->
            Kill(p, call) /\ UNCHANGED pipe_write_count
       [] pipe_write_count[p] <= WritePatience /\ Free = 0 ->
            /\ pipe_write_count' = [pipe_write_count EXCEPT ![p] = @ + 1]
            /\ Retry(p, call)
       [] OTHER ->
            /\ pipe_write_count' = [pipe_write_count EXCEPT ![p] = 0]
            /\ Return(p, [op |-> "write", data |-> data, count |-> Free])
  /\ UNCHANGED <<back, pipe_read_count>>

\* Mutant of TestPipe: the answer is that of a pipe with room.
TestPipeRoom(p) ==
  /\ state[p] = "user"
  /\ answer' = [answer EXCEPT ![p] = [op |-> "select", ready |-> Free > 0]]
  /\ UNCHANGED <<buf, front, back, pipe_read_count, pipe_write_count, state, pending>>

\* sys_pselect6: TestPipe answers 1 when there is something to read.
TestPipe(p) ==
  /\ state[p] = "user"
  /\ answer' = [answer EXCEPT ![p] = [op |-> "select", ready |-> front # back]]
  /\ UNCHANGED <<buf, front, back, pipe_read_count, pipe_write_count, state, pending>>

\* The process ends.  Closing a descriptor changes nothing in the pipe.
Exit(p) ==
  /\ state[p] = "user"
  /\ state' = [state EXCEPT ![p] = "exited"]
  /\ UNCHANGED <<buf, front, back, pipe_read_count, pipe_write_count, pending, answer>>

-----------------------------------------------------------------------------
\* OpenPipe; the bytes of pipe_buffer are what an earlier pipe left there.
Init ==
  /\ buf \in [Slot -> Byte]
  /\ front = 0
  /\ back = 0
  /\ pipe_read_count = [p \in Proc |-> 0]
  /\ pipe_write_count = [p \in Proc |-> 0]
  /\ state = [p \in Proc |-> "user"]
  /\ pending = [p \in Proc |-> NoCall]
  /\ answer = [p \in Proc |-> NoCall]

ReadStep(p) == \E count \in 0..MaxCount : ReadSome(p, count) \/ ReadEmpty(p, count)
WriteStep(p) == \E data \in Data : WriteAll(p, data) \/ WriteFull(p, data)

Next ==
  \/ \E p \in Readers : ReadStep(p) \/ TestPipe(p)
  \/ \E p \in Writers : WriteStep(p)
  \/ \E p \in Proc : Exit(p)

Spec == Init /\ [][Next]_vars

\* A process that waits runs again: the ready queue is served in order
\* (Scheduler!ReadyProcessRuns).
FairSpec ==
  /\ Spec
  /\ \A p \in Readers : WF_vars(state[p] = "waiting" /\ ReadStep(p))
  /\ \A p \in Writers : WF_vars(state[p] = "waiting" /\ WriteStep(p))

-----------------------------------------------------------------------------
(* Properties.                                                             *)

Call ==
  {NoCall}
    \cup [op : {"read"}, count : 0..MaxCount]
    \cup [op : {"write"}, data : Data]

Answer ==
  {NoCall}
    \cup [op : {"read"}, bytes : Data]
    \cup [op : {"write"}, data : Data, count : 0..MaxCount]
    \cup [op : {"select"}, ready : BOOLEAN]

TypeOK ==
  /\ buf \in [Slot -> Byte]
  /\ front \in Slot
  /\ back \in Slot
  /\ pipe_read_count \in [Proc -> 0..(ReadPatience + 1)]
  /\ pipe_write_count \in [Proc -> 0..(WritePatience + 1)]
  /\ state \in [Proc -> {"user", "waiting", "killed", "exited"}]
  /\ pending \in [Proc -> Call]
  /\ answer \in [Proc -> Answer]

\* The retry counters are per process, not per call, and yet no call inherits
\* the retries of an earlier one: a process in user mode has none on record, and
\* one that waits has only those of the call it waits in.  The state has its
\* type besides.
CountsAreFresh ==
  /\ TypeOK
  /\ \A p \in Proc :
       /\ state[p] = "user" => pipe_read_count[p] = 0 /\ pipe_write_count[p] = 0
       /\ state[p] = "waiting" => \/ pending[p].op = "read" /\ pipe_write_count[p] = 0
                                  \/ pending[p].op = "write" /\ pipe_read_count[p] = 0

\* A select that answered 1 is still true when the only reader of the pipe acts
\* on it, whatever the writers have done since.
SelectStaysTrue ==
  \A p \in Readers :
    Readers = {p} /\ answer[p] = [op |-> "select", ready |-> TRUE] => Used > 0

\* The ring buffer is a first-in first-out channel: no byte is lost, invented,
\* duplicated or reordered, and every count returned is exact.
Chan == INSTANCE Channel WITH
          Capacity <- PipeBufLength - 1,
          queue <- Taken(Used)

ImplementsChannel == Chan!Spec

\* No call on a pipe blocks for ever: it returns, or the process is ended.
CallsEnd == \A p \in Proc : state[p] = "waiting" ~> state[p] # "waiting"

=============================================================================

------------------------------- MODULE Channel -------------------------------
(***************************************************************************)
(* What a pipe promises: a bounded first-in first-out queue of bytes.  A   *)
(* read takes the oldest bytes and returns exactly those, a write adds a   *)
(* prefix of its data and returns its length, and a call that can move no  *)
(* byte waits, until it gives up and takes its process with it.            *)
(***************************************************************************)
EXTENDS Integers, Sequences

CONSTANTS Proc, Byte, Capacity, MaxCount

VARIABLES
  queue,    \* bytes written and not yet read, the oldest first
  state,    \* "user", "waiting", "killed" or "exited"
  pending,  \* the call a process waits in, or was killed in
  answer    \* the last call that returned, and what it returned

cvars == <<queue, state, pending, answer>>

None == [op |-> "none"]
Data == UNION {[1..k -> Byte] : k \in 0..MaxCount}

Init ==
  /\ queue = <<>>
  /\ state = [p \in Proc |-> "user"]
  /\ pending = [p \in Proc |-> None]
  /\ answer = [p \in Proc |-> None]

\* A process in user mode makes any call, one that waits only the same again.
Makes(p, call) == state[p] = "user" \/ (state[p] = "waiting" /\ pending[p] = call)

Return(p, result) ==
  /\ state' = [state EXCEPT ![p] = "user"]
  /\ pending' = [pending EXCEPT ![p] = None]
  /\ answer' = [answer EXCEPT ![p] = result]

\* A read of n bytes returns k: as many as there are, but not none.
Receive(p, n, k) ==
  /\ Makes(p, [op |-> "read", count |-> n])
  /\ k = n \/ (k = Len(queue) /\ k < n /\ k > 0)
  /\ queue' = SubSeq(queue, k + 1, Len(queue))
  /\ Return(p, [op |-> "read", bytes |-> SubSeq(queue, 1, k)])

\* A write of data adds k bytes: as many as there is room for, but not none.
Send(p, data, k) ==
  /\ Makes(p, [op |-> "write", data |-> data])
  /\ k + Len(queue) <= Capacity
  /\ k = Len(data) \/ (k + Len(queue) = Capacity /\ k > 0)
  /\ queue' = queue \o SubSeq(data, 1, k)
  /\ Return(p, [op |-> "write", data |-> data, count |-> k])

\* Only a read of an empty channel and a write to a full one wait.
Blocks(call) ==
  \/ call.op = "read" /\ queue = <<>>
  \/ call.op = "write" /\ Len(queue) = Capacity

Wait(p, call) ==
  /\ Makes(p, call)
  /\ Blocks(call)
  /\ state' = [state EXCEPT ![p] = "waiting"]
  /\ pending' = [pending EXCEPT ![p] = call]
  /\ UNCHANGED <<queue, answer>>

\* A process is killed only inside a call that has waited: a read that still
\* finds nothing, or a write that fills the channel, with k bytes, and could
\* not be finished.
GiveUp(p, k) ==
  /\ state[p] = "waiting"
  /\ \/ pending[p].op = "read" /\ queue = <<>> /\ UNCHANGED queue
     \/ /\ pending[p].op = "write"
        /\ k < Len(pending[p].data) /\ k + Len(queue) = Capacity
        /\ queue' = queue \o SubSeq(pending[p].data, 1, k)
  /\ state' = [state EXCEPT ![p] = "killed"]
  /\ UNCHANGED <<pending, answer>>

\* A poll answers whether a read would return at once.
Poll(p) ==
  /\ state[p] = "user"
  /\ answer' = [answer EXCEPT ![p] = [op |-> "select", ready |-> queue # <<>>]]
  /\ UNCHANGED <<queue, state, pending>>

Exit(p) ==
  /\ state[p] = "user"
  /\ state' = [state EXCEPT ![p] = "exited"]
  /\ UNCHANGED <<queue, pending, answer>>

Next ==
  \E p \in Proc :
    \/ \E n \in 0..MaxCount :
         \/ \E k \in 0..Len(queue) : Receive(p, n, k)
         \/ Wait(p, [op |-> "read", count |-> n])
    \/ \E data \in Data :
         \/ \E k \in 0..Len(data) : Send(p, data, k)
         \/ Wait(p, [op |-> "write", data |-> data])
    \/ \E k \in 0..Capacity : GiveUp(p, k)
    \/ Poll(p)
    \/ Exit(p)

Spec == Init /\ [][Next]_cvars
=============================================================================

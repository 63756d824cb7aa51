------------------------------ MODULE Scheduler ------------------------------
(***************************************************************************)
(* The cooperative process scheduler of kernel/scheduler.cpp: one running  *)
(* process, a ready queue, a queue of processes blocked in wait(), the     *)
(* exit notices (signal_list) that wake them, and the loop that reboots    *)
(* the machine between two self tests.                                     *)
(*                                                                         *)
(* Timer interrupts stay disabled (asm/boot.s), so a process gives up the  *)
(* processor only inside a trap: every action is one trap handler from     *)
(* its entry to the sret of the process it resumes, schedule() included.   *)
(* At this level yield(), __yield() and yield_with_return() differ only in *)
(* the return address they leave behind, and an exit code is a payload no  *)
(* property looks at: both are left out.                                   *)
(***************************************************************************)
EXTENDS Integers, Sequences, Functions

CONSTANTS
  NTests,         \* length of the self test list (test_total)
  MaxClones,      \* bound on the clone() calls of a behaviour
  Pointers,       \* kinds of status pointer the programs pass to wait4
  UnfreezeAfter,  \* schedule() calls before blocked processes get priority
  IntMax          \* largest value of the C int that counts schedule() calls

ASSUME WorkloadAssumption ==
  /\ NTests \in Nat
  /\ MaxClones \in Nat
  /\ Pointers \subseteq {"null", "stack", "data"}
ASSUME CounterAssumption ==
  /\ UnfreezeAfter \in Nat
  /\ IntMax \in Nat
  /\ UnfreezeAfter < IntMax

VARIABLES
  machine,        \* "boot", "on", "panic" or "off"
  running,        \* pid of the running PCB, 0 for nullptr
  runnable,       \* ready queue
  blocked,        \* processes inside wait()
  ppid,           \* pid of the creator; 1 for a self test, which has none
  aspace,         \* page table the process runs on, named by its first owner
  signal_list,    \* pids of exited children whose notice is still pending
  wstatus,        \* where the status of a blocked wait() is to be stored
  global_pid,     \* last pid handed out
  try_unfreeze_times,
  memory_dirty,   \* a test has run since the last boot
  test_cnt,       \* tests started so far
  fast_pid,       \* pid cached for the fast getppid path; its process owns satp
  reaped          \* history: how wait() reported each child

vars == <<machine, running, runnable, blocked, ppid, aspace, signal_list,
          wstatus, global_pid, try_unfreeze_times, memory_dirty, test_cnt,
          fast_pid, reaped>>

procVars == <<ppid, aspace, global_pid>>
testVars == <<machine, memory_dirty, test_cnt>>

Pid == 2..(1 + NTests + MaxClones)
NoPid == 0

\* The status pointer of wait4: null, into the user stack page (identity mapped
\* in every page table), or to static data of the program.
Pointer == {"null", "stack", "data"}
\* "no": not reaped. "none asked": null pointer. "own": stored in the waiter's
\* memory. "foreign": stored through another process's page table. "skipped":
\* a pointer was given and nothing was stored.
Report == {"no", "none asked", "own", "foreign", "skipped"}

\* Mutant of Erase: the shift starts one slot late.
EraseLate(s, i) == [j \in 1..(Len(s) - 1) |-> IF j <= i THEN s[j] ELSE s[j + 1]]

\* Vector::erase(int) and pop_front: shift the tail one slot down.
Erase(s, i) == [j \in 1..(Len(s) - 1) |-> IF j < i THEN s[j] ELSE s[j + 1]]

Running == {running} \ {NoPid}
\* The processes search_by_pid finds.
Live == Running \cup Range(runnable) \cup Range(blocked)

\* A 32 bit int increment, as the build compiles it.
Increment(n) == IF n = IntMax THEN -IntMax - 1 ELSE n + 1

-----------------------------------------------------------------------------
(* schedule() and what it calls.  The parameters are the queues and notice *)
(* lists as the handler left them: rq, bq, sg for runnable, blocked and    *)
(* signal_list, ws for wstatus.                                            *)

\* *wstatus is stored with the satp of the process that ran last.
Store(p, ptr) ==
  CASE ptr = "null"  -> "none asked"
    [] ptr = "stack" -> "own"
    [] ptr = "data"  -> IF aspace[fast_pid] = aspace[p] THEN "own" ELSE "foreign"

Signalled(bq, sg) == {i \in DOMAIN bq : sg[bq[i]] # <<>>}

\* Mutant of Resume: the cache is filled only once.
ResumeStale(p) == running' = p /\ fast_pid' = IF fast_pid = NoPid THEN p ELSE fast_pid

Resume(p) == running' = p /\ fast_pid' = p

\* Mutant of TryToUnfreeze: the notice is read but not popped.
UnfreezeWithoutPop(rq, bq, sg, ws) ==
  \E i \in Signalled(bq, sg) :
    /\ \A j \in Signalled(bq, sg) : i <= j
    /\ Resume(bq[i])
    /\ blocked' = Erase(bq, i)
    /\ runnable' = rq
    /\ reaped' = [reaped EXCEPT ![Head(sg[bq[i]])] = Store(bq[i], ws[bq[i]])]
    /\ signal_list' = sg
    /\ UNCHANGED <<procVars, testVars>>

\* try_to_unfreeze(): the first blocked process with a notice runs at once.
TryToUnfreeze(rq, bq, sg, ws) ==
  \E i \in Signalled(bq, sg) :
    /\ \A j \in Signalled(bq, sg) : i <= j
    /\ Resume(bq[i])
    /\ blocked' = Erase(bq, i)
    /\ runnable' = rq
    /\ reaped' = [reaped EXCEPT ![Head(sg[bq[i]])] = Store(bq[i], ws[bq[i]])]
    /\ signal_list' = [sg EXCEPT ![bq[i]] = Tail(@)]
    /\ UNCHANGED <<procVars, testVars>>

\* Mutant of PickRunnable: the queue is used as a stack.
PickNewest(rq, bq, sg) ==
  /\ rq # <<>>
  /\ Resume(rq[Len(rq)])
  /\ runnable' = Erase(rq, Len(rq))
  /\ blocked' = bq
  /\ signal_list' = sg
  /\ UNCHANGED <<procVars, testVars, reaped>>

\* The head of the ready queue runs.
PickRunnable(rq, bq, sg) ==
  /\ rq # <<>>
  /\ Resume(rq[1])
  /\ runnable' = Erase(rq, 1)
  /\ blocked' = bq
  /\ signal_list' = sg
  /\ UNCHANGED <<procVars, testVars, reaped>>

\* No process can run: panic when some are blocked, _start() when a test has
\* run.  (The branch that starts a test without a reboot is in Boot.)
NothingToRun(rq, bq, sg) ==
  /\ rq = <<>>
  /\ bq # <<>> \/ memory_dirty
  /\ machine' = IF bq # <<>> THEN "panic" ELSE "boot"
  /\ running' = NoPid
  /\ runnable' = rq
  /\ blocked' = bq
  /\ signal_list' = sg
  /\ UNCHANGED <<procVars, memory_dirty, test_cnt, fast_pid, reaped>>

\* Mutant of Schedule: the panic is not preceded by a last try_to_unfreeze().
ScheduleHastyPanic(rq, bq, sg, ws) ==
  /\ wstatus' = ws
  /\ try_unfreeze_times' = Increment(try_unfreeze_times)
  /\ \/ try_unfreeze_times > UnfreezeAfter /\ TryToUnfreeze(rq, bq, sg, ws)
     \/ /\ ~(try_unfreeze_times > UnfreezeAfter /\ Signalled(bq, sg) # {})
        /\ PickRunnable(rq, bq, sg) \/ NothingToRun(rq, bq, sg)

\* Mutant of Schedule: blocked processes are looked at only when none is ready.
ScheduleReadyFirst(rq, bq, sg, ws) ==
  /\ wstatus' = ws
  /\ try_unfreeze_times' = Increment(try_unfreeze_times)
  /\ \/ rq = <<>> /\ TryToUnfreeze(rq, bq, sg, ws)
     \/ PickRunnable(rq, bq, sg)
     \/ Signalled(bq, sg) = {} /\ NothingToRun(rq, bq, sg)

\* schedule() with running = nullptr, after a process has given up the processor.
Schedule(rq, bq, sg, ws) ==
  /\ wstatus' = ws
  /\ try_unfreeze_times' = Increment(try_unfreeze_times)
  /\ \/ /\ try_unfreeze_times > UnfreezeAfter \/ rq = <<>>
        /\ TryToUnfreeze(rq, bq, sg, ws)
     \/ /\ ~(try_unfreeze_times > UnfreezeAfter /\ Signalled(bq, sg) # {})
        /\ PickRunnable(rq, bq, sg)
     \/ /\ Signalled(bq, sg) = {}
        /\ NothingToRun(rq, bq, sg)

-----------------------------------------------------------------------------
(* The trap handlers.                                                      *)

Up == machine = "on" /\ running # NoPid

\* Mutant of Notify: only a parent already inside wait() is told.
NotifyBlocked(sg, p) ==
  [q \in Pid |-> IF q = p THEN <<>>
                 ELSE IF q = ppid[p] /\ q \in Range(blocked) THEN Append(sg[q], p)
                 ELSE sg[q]]

\* PCB::kill: the notice goes to the parent when search_by_pid finds it, and
\* the process's own list goes away with its PCB.
Notify(sg, p) ==
  [q \in Pid |-> IF q = p THEN <<>>
                 ELSE IF q = ppid[p] /\ q \in Live THEN Append(sg[q], p)
                 ELSE sg[q]]

\* sys_clone: a thread (stack # 0) shares the page table, a fork gets its own.
Clone(thread) ==
  /\ Up
  /\ global_pid - 1 - test_cnt < MaxClones
  /\ global_pid' = global_pid + 1
  /\ ppid' = [ppid EXCEPT ![global_pid'] = running]
  /\ aspace' = [aspace EXCEPT ![global_pid'] =
                  IF thread THEN aspace[running] ELSE global_pid']
  /\ runnable' = Append(runnable, global_pid')
  /\ UNCHANGED <<testVars, running, blocked, signal_list, wstatus,
                 try_unfreeze_times, fast_pid, reaped>>

\* yield, __yield and yield_with_return.
Yield ==
  /\ Up
  /\ Schedule(Append(runnable, running), blocked, signal_list, wstatus)

\* wait() with a pending notice: answered at once, the status store being
\* commented out in the code.
WaitPending(ptr) ==
  /\ Up
  /\ signal_list[running] # <<>>
  /\ reaped' = [reaped EXCEPT ![Head(signal_list[running])] =
                  IF ptr = "null" THEN "none asked" ELSE "skipped"]
  /\ signal_list' = [signal_list EXCEPT ![running] = Tail(@)]
  /\ UNCHANGED <<procVars, testVars, running, runnable, blocked, wstatus,
                 try_unfreeze_times, fast_pid>>

\* wait() without one: block, whether or not there is a child to wait for.
WaitBlock(ptr) ==
  /\ Up
  /\ signal_list[running] = <<>>
  /\ Schedule(runnable, Append(blocked, running), signal_list,
              [wstatus EXCEPT ![running] = ptr])

\* exit_process: sys_exit, a page fault, and execve, whose first statement it is.
ExitProcess ==
  /\ Up
  /\ Schedule(runnable, blocked, Notify(signal_list, running), wstatus)

\* sys_kill of a process other than the caller: the victim leaves its queue.
KillIn(queue, p) ==
  \E i \in DOMAIN queue : queue[i] = p /\ queue' = Erase(queue, i)

Kill(p) ==
  /\ Up
  /\ \/ KillIn(runnable, p) /\ UNCHANGED blocked
     \/ KillIn(blocked, p) /\ UNCHANGED runnable
  /\ signal_list' = Notify(signal_list, p)
  /\ UNCHANGED <<procVars, testVars, running, wstatus, try_unfreeze_times,
                 fast_pid, reaped>>

\* init_thread: init_scheduler, then schedule() with no process at all.
\* create_process panics when the program is not on the disk; otherwise the
\* schedule() that follows it resumes the only process there is.
StartTest ==
  /\ test_cnt < NTests
  /\ test_cnt' = test_cnt + 1
  /\ global_pid' = global_pid + 1
  /\ ppid' = [ppid EXCEPT ![global_pid'] = 1]
  /\ aspace' = [aspace EXCEPT ![global_pid'] = global_pid']
  /\ memory_dirty' = TRUE
  /\ machine' = "on"
  /\ Resume(global_pid')
  /\ try_unfreeze_times' = Increment(Increment(try_unfreeze_times))

ProgramMissing ==
  /\ test_cnt < NTests
  /\ test_cnt' = test_cnt + 1
  /\ machine' = "panic"
  /\ memory_dirty' = FALSE
  /\ running' = NoPid
  /\ try_unfreeze_times' = Increment(try_unfreeze_times)
  /\ UNCHANGED <<procVars, fast_pid>>

NoTestLeft ==
  /\ test_cnt = NTests
  /\ machine' = "off"
  /\ memory_dirty' = FALSE
  /\ running' = NoPid
  /\ try_unfreeze_times' = Increment(try_unfreeze_times)
  /\ UNCHANGED <<procVars, test_cnt, fast_pid>>

Boot ==
  /\ machine = "boot"
  /\ runnable' = <<>>
  /\ blocked' = <<>>
  /\ signal_list' = [p \in Pid |-> <<>>]
  /\ StartTest \/ ProgramMissing \/ NoTestLeft
  /\ UNCHANGED <<wstatus, reaped>>

\* shutdown(): nothing happens any more.
Halted == machine \in {"panic", "off"} /\ UNCHANGED vars

-----------------------------------------------------------------------------
Init ==
  /\ machine = "boot"
  /\ running = NoPid
  /\ runnable = <<>>
  /\ blocked = <<>>
  /\ ppid = [p \in Pid |-> 1]
  /\ aspace = [p \in Pid |-> p]
  /\ signal_list = [p \in Pid |-> <<>>]
  /\ wstatus = [p \in Pid |-> "null"]
  /\ global_pid = 1
  /\ try_unfreeze_times = 0
  /\ memory_dirty = FALSE
  /\ test_cnt = 0
  /\ fast_pid = NoPid
  /\ reaped = [p \in Pid |-> "no"]

Next ==
  \/ Boot
  \/ \E thread \in BOOLEAN : Clone(thread)
  \/ Yield
  \/ \E ptr \in Pointers : WaitPending(ptr) \/ WaitBlock(ptr)
  \/ ExitProcess
  \/ \E p \in Pid : Kill(p)
  \/ Halted

Spec == Init /\ [][Next]_vars

\* A program that never traps again stops every other one, the timer being
\* off: programs are assumed to keep trapping.
FairSpec == Spec /\ WF_vars(Next)

-----------------------------------------------------------------------------
(* Properties.                                                             *)

\* Created processes, dead ones included.
Created == 2..global_pid

TypeOK ==
  /\ machine \in {"boot", "on", "panic", "off"}
  /\ running \in Pid \cup {NoPid}
  /\ runnable \in Seq(Pid)
  /\ blocked \in Seq(Pid)
  /\ ppid \in [Pid -> Pid \cup {1}]
  /\ aspace \in [Pid -> Pid]
  /\ signal_list \in [Pid -> Seq(Pid)]
  /\ wstatus \in [Pid -> Pointer]
  /\ global_pid \in 1..(1 + test_cnt + MaxClones)
  /\ try_unfreeze_times \in (-IntMax - 1)..IntMax
  /\ memory_dirty \in BOOLEAN
  /\ test_cnt \in 0..NTests
  /\ fast_pid \in Pid \cup {NoPid}
  /\ reaped \in [Pid -> Report]

\* The three-state model: every process that has not exited is running, ready
\* or blocked, exactly one of them and exactly once, through every path of
\* clone, yield, wait, exit, kill and schedule().  A machine that runs has a
\* running process, and one that boots or is off has none at all.
OneState ==
  /\ IsInjective(runnable)
  /\ IsInjective(blocked)
  /\ Range(runnable) \cap Range(blocked) = {}
  /\ running \notin Range(runnable) \cup Range(blocked)
  /\ Live \subseteq Created
  /\ machine = "on" <=> running # NoPid
  /\ machine \in {"boot", "off"} => Live = {}

\* A pending notice names a dead child of its receiver that wait() has not
\* reported, and no notice is there twice: PCB::kill runs once per process.
NoticesOnce ==
  \A q \in Pid : \A i \in DOMAIN signal_list[q] :
    LET c == signal_list[q][i] IN
    /\ q \in Live
    /\ c \in Created \ Live
    /\ ppid[c] = q
    /\ reaped[c] = "no"
    /\ \A j \in DOMAIN signal_list[q] : signal_list[q][j] = c => i = j

\* No exit is lost: while its parent lives, a dead child has either been
\* reported by wait() or its notice is still in the parent's signal_list,
\* whatever queue the parent was in when the child exited or was killed.
NoLostExit ==
  \A c \in Created \ Live :
    ppid[c] \in Live => reaped[c] # "no" \/ c \in Range(signal_list[ppid[c]])

\* The panic "There exists a dead waiting loop" is justified: every process
\* left is blocked, and each child of each of them is blocked too or has been
\* reported, so no exit could have woken anybody.
DeadWaitIsReal ==
  machine = "panic" =>
    /\ Live = Range(blocked)
    /\ \A c \in Created :
         ppid[c] \in Live => c \in Range(blocked) \/ reaped[c] # "no"

\* The pid cached for the fast system call path is the one of the process that
\* runs, after every switch.
FastPidCurrent == running # NoPid => fast_pid = running

\* Processes are created after their creator, and only a dead one is reported.
Lineage ==
  /\ \A c \in Created : ppid[c] \in 1..(c - 1)
  /\ \A c \in Pid : c \in Live \/ c \notin Created => reaped[c] = "no"

\* schedule() panics only when the ready queue is empty and no list holds a notice.
PanicQuiet ==
  machine = "panic" => runnable = <<>> /\ \A p \in Live : signal_list[p] = <<>>

\* The inductive invariant behind the safety properties above.
IInv ==
  /\ TypeOK
  /\ OneState
  /\ Lineage
  /\ NoticesOnce
  /\ NoLostExit
  /\ PanicQuiet
  /\ FastPidCurrent

\* A blocked process with a pending notice runs again (or is killed, or the
\* machine stops) even if other processes yield for ever: this is what the
\* counter in schedule() is for, overflow included.
SignalledWaiterRuns ==
  \A p \in Pid :
    (p \in Range(blocked) /\ signal_list[p] # <<>>)
      ~> (p \notin Range(blocked) \/ machine # "on")

\* Blocked processes overtake the ready queue, but do not starve it.
ReadyProcessRuns ==
  \A p \in Pid : p \in Range(runnable) ~> (p \notin Range(runnable) \/ machine # "on")

\* waitpid.c reads the exit status back after waitpid: wait() stores a status
\* for every caller that gives it a pointer.
StatusStored == \A c \in Pid : reaped[c] # "skipped"
=============================================================================

-------------------------------- MODULE Memory -------------------------------
(***************************************************************************)
(* The memory of the processes of one self test: the stack of free pages   *)
(* (kernel/memory/memory.cpp), the page tables (lib/stl/PageTableUtil.h),  *)
(* and what a process holds through reference counted pointers: program    *)
(* pages (elf_control), break (brk_control) and mappings (mmap_control).   *)
(* Memory is initialised when a test starts and the kernel boots again     *)
(* when its last process is gone.                                          *)
(*                                                                         *)
(* An address is a page number.  Physical pages are 1..NPages; the program,*)
(* the break and the mappings start at ELF, BRK and MMAP.  One table page  *)
(* stands for the tables CreateMapping adds when a region is first mapped, *)
(* and the base page of a page table for those of init_pageTable.          *)
(*                                                                         *)
(* Nothing here says which process runs next: that is the scheduler's.     *)
(***************************************************************************)
EXTENDS Integers, Sequences, FiniteSets, TLC

CONSTANTS
  NPages,             \* page_count
  NText, NData,       \* pages of the program's segments
  MaxPid,             \* bound on processes and threads
  MaxBreak, MaxMap,   \* bounds on the pages asked of brk and mmap
  MaxAddr,            \* bound on mmap_start
  MaxCalls            \* bound on system calls

ASSUME MemoryAssumption ==
  /\ NPages \in 1..99
  /\ NText \in 1..40 /\ NData \in 1..40
  /\ MaxPid \in Nat /\ MaxBreak \in 1..99 /\ MaxMap \in Nat /\ MaxAddr \in 1..99
  /\ MaxCalls \in Nat

VARIABLES
  pool,               \* memory_pool[0..memory_pointer]
  proc,               \* the PCBs: stack, and space, the shared control objects
  spaces,             \* the control objects of each process that was created
  text,               \* segments[0], shared by all forks: pages and count
  unfreed,            \* PCBs that sys_kill took off the lists and did not delete
  last_pid,
  halted,             \* why panic() stopped the machine
  lost,               \* pages of ended processes that do not return to the pool
  shared,             \* stacks released without counting: a thread's, a suicide's
  suicides,           \* processes that killed themselves and go on
  calls               \* system calls made

vars == <<pool, proc, spaces, text, unfreed, last_pid, halted, lost, shared, suicides, calls>>

Page == 1..NPages
ELF == 100
BRK == 200
MMAP == 300
Live == DOMAIN proc
Range1(s) == {s[i] : i \in DOMAIN s}

\* The i-th page alloc_page() gives from here, and the pool after k of them.
Taken(i) == pool[Len(pool) + 1 - i]
Left(k) == SubSeq(pool, 1, Len(pool) - k)

Halt(why) ==
  /\ halted' = why
  /\ UNCHANGED <<pool, proc, spaces, text, unfreed, last_pid, lost, shared, suicides>>

\* CreateMapping for each address of new: an entry that is in use stays.
CreateMapping(table, new) == table @@ new

\* Successive addresses for successive pages.
Window(begin, pages) ==
  [v \in {begin + i - 1 : i \in DOMAIN pages} |-> pages[v - begin + 1]]

\* A region has its tables once an address of it was mapped.
Reached(table, begin) == \E v \in DOMAIN table : v \div 100 = begin \div 100

\* Pages that n new pages of a region take, tables included.
Cost(fresh, n) == IF fresh /\ n > 0 THEN n + 1 ELSE n

\* The n pages themselves, after off others: the table is taken behind the first.
Fresh(fresh, n, off) == [i \in 1..n |-> Taken(off + IF fresh /\ i > 1 THEN i + 1 ELSE i)]
Tables(fresh, n, off) == IF fresh /\ n > 0 THEN {Taken(off + 2)} ELSE {}

ProgramTable(textPages, dataPages) == Window(ELF, textPages \o dataPages)

-----------------------------------------------------------------------------
\* create_process: base, then for each page of load_elf the page and, before the
\* second, the table; then the stack.
Init ==
  LET top(i) == NPages + 1 - i
      pages == [i \in 1..(NText + NData) |-> top(IF i > 1 THEN i + 2 ELSE 2)]
      textPages == SubSeq(pages, 1, NText)
      dataPages == SubSeq(pages, NText + 1, NText + NData)
      used == NText + NData + 3
  IN
  /\ used <= NPages
  /\ pool = [i \in 1..(NPages - used) |-> i]
  /\ proc = 1 :> [stack |-> top(used), space |-> 1]
  /\ spaces = 1 :> [table |-> ProgramTable(textPages, dataPages),
                    tables |-> {top(1), top(3)},
                    data |-> dataPages, brk |-> <<>>, page_count |-> 0, below |-> FALSE,
                    mmap |-> <<>>, mmap_start |-> MMAP, again |-> FALSE, count |-> 1]
  /\ text = [pages |-> textPages, count |-> 1]
  /\ unfreed = <<>> /\ last_pid = 1 /\ halted = "no"
  /\ lost = {} /\ shared = {} /\ suicides = {} /\ calls = 0

\* Mutant of clone_thread: the references are copied and not counted.
clone_thread_Uncounted(p) ==
  /\ proc' = (last_pid + 1) :> proc[p] @@ proc
  /\ last_pid' = last_pid + 1
  /\ shared' = shared \cup {proc[p].stack}
  /\ UNCHANGED <<pool, spaces, text, unfreed, halted, lost, suicides>>

\* clone with a stack: a thread.  It shares every control object, and the field
\* stack of its PCB is its creator's.
clone_thread(p) ==
  /\ proc' = (last_pid + 1) :> proc[p] @@ proc
  /\ last_pid' = last_pid + 1
  /\ spaces' = [spaces EXCEPT ![proc[p].space].count = @ + 1]
  /\ shared' = shared \cup {proc[p].stack}
  /\ UNCHANGED <<pool, text, unfreed, halted, lost, suicides>>

\* The mappings a fork records: page and address have changed places.
Inherited(units, pages) ==
  [i \in DOMAIN units |-> [mapped_to |-> pages[i], source_addr |-> units[i].mapped_to]]

\* Mutant of DataCopy: the data segment is shared like the text segment.
DataCopy_Shared(sp) == sp.data

DataCopy(sp) == [i \in DOMAIN sp.data |-> Taken(3 + i)]

\* The control objects of a forked child: the text pages are its parent's, the
\* others are copies, mapped where the parent has them.
ForkedSpace(sp, b, m, off, off2) ==
  LET dataPages == DataCopy(sp)
      brkPages == Fresh(TRUE, b, off)
      mapPages == Fresh(TRUE, m, off2)
      units == Inherited(sp.mmap, mapPages)
  IN [table |-> ProgramTable(text.pages, dataPages) @@ Window(BRK, brkPages)
                @@ [v \in {sp.mmap[i].mapped_to : i \in 1..m} |->
                      mapPages[CHOOSE i \in 1..m : sp.mmap[i].mapped_to = v]],
      tables |-> {Taken(2), Taken(3)} \cup Tables(TRUE, b, off) \cup Tables(TRUE, m, off2),
      data |-> dataPages, brk |-> brkPages, page_count |-> b, below |-> FALSE,
      mmap |-> units, mmap_start |-> sp.mmap_start, again |-> FALSE, count |-> 1]

\* clone without a stack: stack, page table, program, break, mappings, in this
\* order.  A break that went below its start has no pages to copy at some index;
\* a mapping that was inherited before has a physical page for an address, which
\* the kernel's own mapping covers.
clone_fork(p) ==
  LET sp == spaces[proc[p].space]
      b == Len(sp.brk)
      m == Len(sp.mmap)
      off == 3 + NData
      off2 == off + Cost(TRUE, b)
      need == off2 + Cost(TRUE, m)
      child == last_pid + 1
  IN
  \/ sp.page_count > b /\ Halt("index")
  \/ (\E i \in 1..m : sp.mmap[i].mapped_to \in Page) /\ Halt("entry used")
  \/ need > Len(pool) /\ Halt("no page")
  \/ /\ sp.page_count <= b /\ need <= Len(pool)
     /\ \A i \in 1..m : sp.mmap[i].mapped_to \notin Page
     /\ pool' = Left(need)
     /\ proc' = child :> [stack |-> Taken(1), space |-> child] @@ proc
     /\ spaces' = child :> ForkedSpace(sp, b, m, off, off2) @@ spaces
     /\ text' = [text EXCEPT !.count = @ + 1]
     /\ last_pid' = child
     /\ UNCHANGED <<unfreed, halted, lost, shared, suicides>>

-----------------------------------------------------------------------------

\* page_count after brk.  A break below the start makes the int need_page
\* negative: it is compared as a large unsigned number and becomes the count.
PageCount(count, n, want) == IF n < 0 THEN 1000 ELSE IF want > count THEN want ELSE count

\* Mutant of BreakTable: the pages are mapped one address too low.
BreakTable_Low(sp, pages) ==
  CreateMapping(sp.table, Window(BRK + sp.page_count - 1, pages))

\* The page table when the break grows by these pages.
BreakTable(sp, pages) == CreateMapping(sp.table, Window(BRK + sp.page_count, pages))

\* brk for n pages; the first call takes a page whatever it asks for.
brk(p, n) ==
  LET s == proc[p].space
      sp == spaces[s]
      want == IF n > 1 THEN n ELSE 1
      more == IF want > sp.page_count THEN want - sp.page_count ELSE 0
      first == sp.page_count = 0
      pages == Fresh(first, more, 0)
  IN
  IF Cost(first, more) > Len(pool) THEN Halt("no page")
  ELSE
  /\ pool' = Left(Cost(first, more))
  /\ spaces' = [spaces EXCEPT
       ![s].brk = @ \o pages,
       ![s].page_count = PageCount(@, n, want),
       ![s].below = @ \/ n < 0,
       ![s].table = BreakTable(sp, pages),
       ![s].tables = @ \cup Tables(first, more, 0)]
  /\ UNCHANGED <<proc, text, unfreed, last_pid, halted, lost, shared, suicides>>

\* mmap of n pages at mmap_start.
mmap(p, n) ==
  LET s == proc[p].space
      sp == spaces[s]
      first == ~Reached(sp.table, MMAP)
      pages == Fresh(first, n, 0)
  IN
  /\ sp.mmap_start + n <= MMAP + MaxAddr
  /\ IF Cost(first, n) > Len(pool) THEN Halt("no page")
     ELSE
     /\ pool' = Left(Cost(first, n))
     /\ spaces' = [spaces EXCEPT
          ![s].mmap = @ \o [i \in 1..n |-> [mapped_to |-> sp.mmap_start + i - 1,
                                            source_addr |-> pages[i]]],
          ![s].mmap_start = @ + n,
          ![s].table = CreateMapping(@, Window(sp.mmap_start, pages)),
          ![s].tables = @ \cup Tables(first, n, 0)]
     /\ UNCHANGED <<proc, text, unfreed, last_pid, halted, lost, shared, suicides>>

\* The addresses that munmap finds recorded, and their page.
Recorded(sp) == {sp.mmap[i].mapped_to : i \in DOMAIN sp.mmap}

SourceOf(sp, a) ==
  LET i == CHOOSE i \in DOMAIN sp.mmap : sp.mmap[i].mapped_to = a IN sp.mmap[i].source_addr

Unmapped(sp, asked) == SelectSeq(sp.mmap, LAMBDA u : u.mapped_to \notin asked)

\* munmap, from the last page to the first.  The entries of the page table stay,
\* and when nothing is left mapped the addresses start again.
munmap(p, a, n) ==
  LET s == proc[p].space
      sp == spaces[s]
      asked == a..(a + n - 1)
      kept == Unmapped(sp, asked)
  IN
  \/ ~(asked \subseteq Recorded(sp)) /\ Halt("munmap")
  \/ /\ asked \subseteq Recorded(sp)
     /\ pool' = pool \o [i \in 1..n |-> SourceOf(sp, a + n - i)]
     /\ spaces' = [spaces EXCEPT
          ![s].mmap = kept,
          ![s].mmap_start = IF kept = <<>> THEN MMAP ELSE @,
          ![s].again = @ \/ kept = <<>>]
     /\ UNCHANGED <<proc, text, unfreed, last_pid, halted, lost, shared, suicides>>

-----------------------------------------------------------------------------
\* The page of a mapping is in the one or, after a fork, in the other field.
PageOf(u) == IF u.mapped_to \in Page THEN u.mapped_to ELSE u.source_addr

\* Pages that the destructors give to the kernel heap, or to no one.
NotReturned(sp) ==
  Range1(sp.brk) \cup sp.tables \cup {PageOf(u) : u \in Range1(sp.mmap)}

\* Pages that return to the pool with the last reference: the data segment, and
\* with the last process of the program the text segment.
Returned(sp) == sp.data \o (IF text.count = 1 THEN text.pages ELSE <<>>)

\* The control objects after a reference to s is dropped.
Decrease(s) ==
  IF spaces[s].count > 1 THEN [spaces EXCEPT ![s].count = @ - 1]
  ELSE [t \in DOMAIN spaces \ {s} |-> spaces[t]]

\* The rest of exit_process: deleting the PCB.
Delete(p, freed) ==
  LET s == proc[p].space
      last == spaces[s].count = 1
  IN
  /\ pool' = pool \o freed \o (IF last THEN Returned(spaces[s]) ELSE <<>>)
  /\ spaces' = Decrease(s)
  /\ text' = IF last THEN [text EXCEPT !.count = @ - 1] ELSE text
  /\ lost' = IF last THEN lost \cup NotReturned(spaces[s]) ELSE lost
  /\ proc' = [q \in Live \ {p} |-> proc[q]]
  /\ UNCHANGED <<unfreed, last_pid, halted, shared, suicides>>


\* exit_process: PCB::kill gives the stack back, counted or not.
exit_process(p) == Delete(p, <<proc[p].stack>>)

\* sys_kill: PCB::kill, and the process leaves its list; its PCB is not deleted.
\* The caller is in no list: it goes on, on a stack it no longer owns.
sys_kill(p, q) ==
  /\ pool' = Append(pool, proc[q].stack)
  /\ \/ /\ p /= q
        /\ proc' = [r \in Live \ {q} |-> proc[r]]
        /\ unfreed' = q :> proc[q].space @@ unfreed
        /\ UNCHANGED <<shared, suicides>>
     \/ /\ p = q
        /\ shared' = shared \cup {proc[q].stack}
        /\ suicides' = suicides \cup {p}
        /\ UNCHANGED <<proc, unfreed>>
  /\ UNCHANGED <<spaces, text, last_pid, halted, lost>>

\* One system call of the process that runs.
Calls ==
  /\ halted = "no" /\ calls < MaxCalls
  /\ calls' = calls + 1

Next ==
  \/ \E p \in Live : Calls /\ last_pid < MaxPid /\ clone_thread(p)
  \/ \E p \in Live : Calls /\ last_pid < MaxPid /\ clone_fork(p)
  \/ \E p \in Live, n \in -1..MaxBreak : Calls /\ brk(p, n)
  \/ \E p \in Live, n \in 1..MaxMap : Calls /\ mmap(p, n)
  \/ \E p \in Live, n \in 1..MaxMap, a \in MMAP..(MMAP + MaxAddr - 1) : Calls /\ munmap(p, a, n)
  \/ \E p \in Live : Calls /\ exit_process(p)
  \/ \E p, q \in Live : Calls /\ sys_kill(p, q)

Spec == Init /\ [][Next]_vars

-----------------------------------------------------------------------------
(* Properties *)

\* Every page that is held is a page, and every process has its control objects.
TypeOK ==
  /\ pool \in Seq(Page)
  /\ \A p \in Live : proc[p].stack \in Page /\ proc[p].space \in DOMAIN spaces
  /\ \A s \in DOMAIN spaces :
       /\ spaces[s].tables \subseteq Page
       /\ Range1(spaces[s].table) \subseteq Page
       /\ spaces[s].count \in 1..MaxPid

\* What pages are used for, each use with its page: free, stack, segment, break,
\* mapping, table.
Indexed(kind, owner, seq) == {<<kind, owner, i, seq[i]>> : i \in DOMAIN seq}
Uses ==
  Indexed("pool", 0, pool)
  \cup {<<"stack", p, 0, proc[p].stack>> : p \in Live}
  \cup (IF text.count > 0 THEN Indexed("text", 0, text.pages) ELSE {})
  \cup UNION {Indexed("data", s, spaces[s].data) \cup Indexed("brk", s, spaces[s].brk)
              \cup {<<"mmap", s, i, PageOf(spaces[s].mmap[i])>> : i \in DOMAIN spaces[s].mmap}
              \cup {<<"table", s, 0, x>> : x \in spaces[s].tables} : s \in DOMAIN spaces}

\* A page is put to one use at a time, in whatever order the processes fork, map,
\* unmap and end, unless it is a stack that a thread was started on or whose
\* process killed itself (PCB::kill releases it without counting).  The state
\* has its type besides.
OneUse ==
  LET uses == {u \in Uses : u[4] \notin shared}
  IN  TypeOK /\ Cardinality(uses) = Cardinality({u[4] : u \in uses})


\* The page table of a process leads each program, break and mapped address to
\* the page its control objects record, also after forks; the mappings of a
\* process that unmapped everything and maps again are the exception
\* (CreateMapping keeps the old entry).
TablesMatch ==
  \A s \in DOMAIN spaces :
    LET sp == spaces[s]
        at(v) == IF v \in DOMAIN sp.table THEN sp.table[v] ELSE 0
    IN /\ \A i \in 1..NText : at(ELF + i - 1) = text.pages[i]
       /\ \A i \in 1..NData : at(ELF + NText + i - 1) = sp.data[i]
       /\ \A i \in DOMAIN sp.brk : at(BRK + i - 1) = sp.brk[i]
       /\ \A u \in Range1(sp.mmap) :
            \/ sp.again
            \/ at(u.mapped_to) = u.source_addr
            \/ at(u.source_addr) = u.mapped_to


\* The reference counts are the numbers of references: a process's objects are
\* counted once for each of its threads that was not deleted, killed ones
\* included, and the text segment once for each process that still has objects.
CountsExact ==
  /\ text.count = Cardinality(DOMAIN spaces)
  /\ \A s \in DOMAIN spaces :
       spaces[s].count = Cardinality({p \in Live : proc[p].space = s})
                         + Cardinality({z \in DOMAIN unfreed : unfreed[z] = s})

\* Threads of a process share it by counted references: a thread that ends takes
\* nothing from the others, whose stack is never a free page.  PCB::kill releases
\* the stack of the first that ends.
StacksNotFree == \A p \in Live \ suicides : proc[p].stack \notin Range1(pool)
=============================================================================

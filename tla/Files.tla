-------------------------------- MODULE Files --------------------------------
(***************************************************************************)
(* Files as programs see them: the one table of descriptors for all        *)
(* processes (fs/file_describer.h) with its reference counted OpenedFile   *)
(* objects, the tree of the virtual file system (fs/VFS.h), the map from   *)
(* a path to a file of the FAT driver (fs/FS.cpp), the table of pipes, the *)
(* path arithmetic and the system calls that use them, and the reboot      *)
(* between two tests, which reads the tree from the card again.            *)
(*                                                                         *)
(* A path is the sequence of its units.  A file is its length: which bytes *)
(* it holds is FatFs's matter.  `volume' is what the mounted FAT driver    *)
(* answers, `disk' what is on the card for certain: an earlier volume,     *)
(* since the driver writes its window when it needs it or is told to sync. *)
(* System calls run to their end before another starts.                    *)
(***************************************************************************)
EXTENDS Naturals, FiniteSets, Sequences, SequencesExt

CONSTANTS
  NFd,        \* FILE_DESCRIBER_ARRAY_LENGTH (120)
  MaxPipe,    \* MAX_PIPE_COUNT (10)
  PipeRefs,   \* the count a descriptor of a pipe starts with (999)
  MaxUnits,   \* PATH_UNIT_MAX_COUNT (16)
  MaxOpened,  \* bound: OpenedFile objects at one time
  MaxSize,    \* bound: length of a file
  MaxCalls,   \* bound: system calls of a behaviour
  MaxBoots,   \* bound: boots of a behaviour
  Paths,      \* the paths programs use, and
  Raw,        \* the strings they write for them
  Targets,    \* the descriptors they name to dup3 and fcntl
  Modes,      \* the flags O_CREATE and O_DIRECTORY they open them with
  Cards       \* the contents of the card before the first boot

ASSUME FilesAssumption ==
  /\ {NFd, MaxPipe, PipeRefs, MaxUnits, MaxOpened} \subseteq Nat \ {0}
  /\ {MaxSize, MaxCalls, MaxBoots} \subseteq Nat
  /\ NFd > 2 /\ MaxOpened > 1 /\ Targets \subseteq 0..(NFd - 1)

VARIABLES
  fd_array,       \* file describer of each descriptor
  opened,         \* OpenedFile objects: path and reference count, 0 when deleted
  path_to_fs_el,  \* FS: the open FAT file or directory of each path
  tree,           \* VFS: children of each directory node, in list order
  volume,         \* entries of each directory, as the FAT driver sees them
  disk,           \* the same on the card
  fd_to_buff_address,           \* the pipe of each descriptor, 0 when none
  current_pipe_buffer_pointer,  \* pipes opened since boot
  dirInfo,        \* name in the static buffer of VFS::scan
  cwd,            \* working directory of the program
  halted,         \* why the machine has stopped, "no" while it runs
  calls, boots,   \* how many there were
  lost,           \* history: references in describers dropped without release
  again,          \* history: paths opened while they were open
  failed,         \* history: paths whose last FS::open failed
  written,        \* history: length of each file, as its programs left it
  cut             \* history: paths that were open, or had been twice, at a reboot

table == <<fd_array, opened, lost>>
store == <<path_to_fs_el, tree, volume, disk>>
pipes == <<fd_to_buff_address, current_pipe_buffer_pointer>>
vars == <<table, store, pipes, dirInfo, cwd, halted, calls, boots, again, failed, written, cut>>

Fds == 0..(NFd - 1)
Ids == 1..MaxOpened
NoPath == <<"">>
Console == <<"dev", "console">>
Dirs == {<<>>} \cup {Front(p) : p \in Paths}
AllPaths == Paths \cup Dirs \cup {Console, NoPath}
NoDescriber == [file |-> 0, refs |-> 0, pipe |-> FALSE]
NoElement == [kind |-> "none", open |-> FALSE, size |-> 0, dirty |-> FALSE]

-----------------------------------------------------------------------------
(* Paths: getAbsolutePath, the tree and the FAT directories.               *)

\* getAbsolutePath on the units of the joined string; NoPath for NULL.
Step(acc, unit) ==
  CASE acc = NoPath \/ unit = "." -> acc
    [] unit = ".." -> IF acc = <<>> THEN NoPath ELSE Front(acc)
    [] OTHER -> IF Len(acc) + 1 >= MaxUnits THEN NoPath ELSE Append(acc, unit)
getAbsolutePath == [raw \in Raw, base \in AllPaths |-> FoldLeft(Step, <<>>, base \o raw)]

Named(s, name) == {i \in DOMAIN s : s[i].name = name}
First(s, name) == s[CHOOSE i \in Named(s, name) : \A j \in Named(s, name) : i <= j]

\* VFS::search: the file system of the first node with that name on every level.
search(t, p) ==
  IF p = <<>> THEN "FatFs"
  ELSE IF p # NoPath /\ \A k \in 1..Len(p) :
            /\ SubSeq(p, 1, k - 1) \in Dirs
            /\ Named(t[SubSeq(p, 1, k - 1)], p[k]) # {}
       THEN First(t[Front(p)], Last(p)).fs
       ELSE "none"

\* Mutant: the new node becomes the first child.
appendChild_Front(s, node) == <<node>> \o s
\* File::appendChild: the last child's name is not compared.
appendChild(s, node) ==
  IF \E i \in 1..(Len(s) - 1) : s[i].name = node.name THEN s ELSE Append(s, node)

InDir(v, p) == p # <<>> /\ Named(v[Front(p)], Last(p)) # {}
IsDir(v, p) == p = <<>> \/ (InDir(v, p) /\ First(v[Front(p)], Last(p)).dir)
Holds(v, p) == p # <<>> /\ IsDir(v, Front(p)) /\ InDir(v, p)
IsFile(v, p) == Holds(v, p) /\ ~First(v[Front(p)], Last(p)).dir
SizeOf(v, p) == First(v[Front(p)], Last(p)).size

\* The directory with the entry of p as given, in its place or at the end.
Entered(v, p, dir, size) ==
  LET e == [name |-> Last(p), dir |-> dir, size |-> size] IN
  [v EXCEPT ![Front(p)] = IF InDir(v, p)
                          THEN [i \in DOMAIN @ |-> IF @[i].name = e.name THEN e ELSE @[i]]
                          ELSE Append(@, e)]

-----------------------------------------------------------------------------
(* Boot: vfs_init, InitializeFileDescriber, FastPipe::Init.                *)

\* VFS::scan of one directory: the entries read, and the buffer once more at
\* the end, which holds the last entry read or that of an earlier directory.
Listed(es, last) ==
  LET names == [i \in DOMAIN es |-> es[i].name] IN
  [i \in 1..(Len(es) + 1) |->
     [name |-> IF i <= Len(es) THEN names[i] ELSE IF es = <<>> THEN last ELSE Last(names),
      fs |-> "FatFs"]]

LastRead(es, last) == IF es = <<>> THEN last ELSE Last(es).name

\* The directories below the root are scanned in the order of its entries.
scan(v, last) ==
  LET Sub(acc, e) ==
        LET d == <<e.name>> IN
        IF d \in Dirs /\ e.dir
        THEN [t |-> [acc.t EXCEPT ![d] = Listed(v[d], acc.last)], last |-> LastRead(v[d], acc.last)]
        ELSE acc
  IN FoldLeft(Sub, [t |-> [d \in Dirs |-> IF d = <<>> THEN Listed(v[d], last) ELSE <<>>],
                    last |-> LastRead(v[<<>>], last)], v[<<>>])

\* VFS::mkdir of a node that has no directory on the card.
Mounted(t, d, name, fs) ==
  IF Named(t[d], name) # {} THEN t ELSE [t EXCEPT ![d] = appendChild(@, [name |-> name, fs |-> fs])]

\* vfs_init on the contents of a card; f_mkdir("/dev") fails when it is there.
vfs_init(card, last) ==
  LET read == scan(card, last)
      made == ~InDir(card, <<"dev">>)
      t1 == IF made THEN Mounted(read.t, <<>>, "dev", "FatFs") ELSE read.t
      t2 == Mounted(t1, <<"dev">>, "console", "StdoutFs")
  IN [volume |-> IF made THEN Entered(card, <<"dev">>, TRUE, 0) ELSE card,
      tree |-> Mounted(t2, <<"dev">>, "null", "NullFs"),
      last |-> read.last]

\* The descriptors and OpenedFile objects of InitializeFileDescriber.
Describers == [fd \in Fds |-> CASE fd = 0 -> [file |-> 1, refs |-> 1, pipe |-> FALSE]
                                [] fd \in {1, 2} -> [file |-> 2, refs |-> 1, pipe |-> FALSE]
                                [] OTHER -> NoDescriber]
Objects == [o \in Ids |-> CASE o = 1 -> [path |-> NoPath, count |-> 1]
                            [] o = 2 -> [path |-> Console, count |-> 2]
                            [] OTHER -> [path |-> NoPath, count |-> 0]]

Init ==
  \E card \in Cards : \E b \in {vfs_init(card, "")} :
    /\ fd_array = Describers /\ opened = Objects /\ lost = [o \in Ids |-> 0]
    /\ path_to_fs_el = [p \in AllPaths |-> NoElement]
    /\ tree = b.tree /\ volume = b.volume /\ disk = b.volume /\ dirInfo = b.last
    /\ fd_to_buff_address = [fd \in Fds |-> 0] /\ current_pipe_buffer_pointer = 0
    /\ cwd = <<>> /\ halted = "no" /\ calls = 0 /\ boots = 1
    /\ again = {} /\ failed = {} /\ cut = {}
    /\ written = [p \in AllPaths |-> IF IsFile(b.volume, p) THEN SizeOf(b.volume, p) ELSE 0]

\* A test has ended and the machine starts again: what the driver has not
\* written is gone, and so are the descriptors.  It may have written its window
\* since the last change, for a sector that it needed.
Reboot ==
  /\ halted = "no" /\ boots < MaxBoots
  /\ \E card \in {disk, volume} : \E b \in {vfs_init(card, dirInfo)} :
       /\ tree' = b.tree /\ volume' = b.volume /\ disk' = b.volume /\ dirInfo' = b.last
  /\ boots' = boots + 1
  /\ fd_array' = Describers /\ opened' = Objects /\ lost' = [o \in Ids |-> 0]
  /\ path_to_fs_el' = [p \in AllPaths |-> NoElement]
  /\ fd_to_buff_address' = [fd \in Fds |-> 0] /\ current_pipe_buffer_pointer' = 0
  /\ cwd' = <<>> /\ again' = {} /\ failed' = {}
  /\ cut' = cut \cup again \cup {p \in AllPaths : path_to_fs_el[p].kind # "none"}
  /\ UNCHANGED <<halted, calls, written>>

-----------------------------------------------------------------------------
(* Closing: what the end of a reference does.                              *)

\* The part of the state that a close changes.
Now == [opened |-> opened, el |-> path_to_fs_el, volume |-> volume, disk |-> disk, halted |-> "no"]

\* f_close: the length of a changed file goes into its entry, and to the card.
f_close(s, p) ==
  LET v == Entered(s.volume, p, FALSE, s.el[p].size) IN
  IF s.el[p].dirty THEN [s EXCEPT !.volume = v, !.disk = v] ELSE s

\* Mutant: the element is erased and its file not closed.
FS_close_Erase(s, p) == [s EXCEPT !.el[p] = NoElement]
\* FS::close: Map::get stops the machine when the path has no element.
FS_close(s, p) ==
  IF s.el[p].kind = "none" THEN [s EXCEPT !.halted = "no element"]
  ELSE [f_close(s, p) EXCEPT !.el[p] = NoElement]

\* ~OpenedFile: VFS::close of its path, on the file system the tree gives.
Deleted(s, p) ==
  CASE search(tree, p) = "FatFs" -> FS_close(s, p)
    [] search(tree, p) = "StdoutFs" -> [s EXCEPT !.halted = "not implemented"]
    [] OTHER -> s

\* Mutant: the object is deleted with one reference left.
Released_Early(o, s) ==
  LET n == [s EXCEPT !.opened[o].count = @ - 1] IN
  IF n.opened[o].count <= 1 THEN Deleted(n, n.opened[o].path) ELSE n
\* RefCountPtr: one reference to the OpenedFile o less, on the state s.
Released(o, s) ==
  LET n == [s EXCEPT !.opened[o].count = @ - 1] IN
  IF n.opened[o].count = 0 THEN Deleted(n, n.opened[o].path) ELSE n

\* FD::Erase leaves descriptor 1, and one whose own count is not used up.
Stays(fd) == fd = 1 \/ fd_array[fd].file = 0 \/ fd_array[fd].refs > 1
Erased(fd) == IF Stays(fd) THEN Now ELSE Released(fd_array[fd].file, Now)
Emptied(fd) ==
  CASE fd = 1 \/ fd_array[fd].file = 0 -> fd_array
    [] fd_array[fd].refs > 1 -> [fd_array EXCEPT ![fd].refs = @ - 1]
    [] OTHER -> [fd_array EXCEPT ![fd] = NoDescriber]

Becomes(s) ==
  /\ opened' = s.opened /\ path_to_fs_el' = s.el
  /\ volume' = s.volume /\ disk' = s.disk /\ halted' = s.halted

-----------------------------------------------------------------------------
(* System calls.                                                           *)

Call == halted = "no" /\ calls < MaxCalls /\ calls' = calls + 1 /\ UNCHANGED <<boots, cut, dirInfo>>
Stop(why) ==
  /\ halted' = why
  /\ UNCHANGED <<table, store, pipes, cwd, again, failed, written>>
Exists(fd) == fd_array[fd].file # 0
Unused == {fd \in Fds : ~Exists(fd)}
Lowest(S) == CHOOSE x \in S : \A y \in S : x <= y
PathOf(fd) == opened[fd_array[fd].file].path

\* atFdCWD: relative to the working directory, to a descriptor's path, or
\* absolute.  The copy of a NULL result is undefined, and no program asks for it.
Bases == {<<>>, cwd} \cup ({PathOf(fd) : fd \in {f \in Fds : Exists(f)}} \ {NoPath})
atFdCWD == {getAbsolutePath[raw, base] : raw \in Raw, base \in Bases} \cap Paths

\* sys_close, FD::TryCloseFile.
sys_close(fd) ==
  /\ Call
  /\ IF Exists(fd)
     THEN /\ Becomes(Erased(fd)) /\ fd_array' = Emptied(fd)
          /\ UNCHANGED <<tree, pipes, cwd, lost, again, failed, written>>
     ELSE Stop("unused descriptor")

\* Mutant: the copy shares the OpenedFile and is not counted.
CopyFd_Uncounted(source, target) ==
  /\ Becomes(Erased(target))
  /\ fd_array' = [fd_array EXCEPT ![target] = [file |-> fd_array[source].file, refs |-> 1, pipe |-> FALSE]]
  /\ lost' = IF Exists(target) /\ Stays(target) THEN [lost EXCEPT ![fd_array[target].file] = @ + 1] ELSE lost
  /\ UNCHANGED <<tree, pipes, cwd, again, failed, written>>
\* FD::CopyFd: Erase of the target, then a new describer over whatever is left
\* there, not marked as a pipe.
CopyFd(source, target) ==
  /\ \E s \in {Erased(target)} : Becomes([s EXCEPT !.opened[fd_array[source].file].count = @ + 1])
  /\ fd_array' = [fd_array EXCEPT ![target] = [file |-> fd_array[source].file, refs |-> 1, pipe |-> FALSE]]
  /\ lost' = IF Exists(target) /\ Stays(target) THEN [lost EXCEPT ![fd_array[target].file] = @ + 1] ELSE lost
  /\ UNCHANGED <<tree, pipes, cwd, again, failed, written>>

\* sys_dup, where `from' is 0, and sys_fcntl: a copy at the first unused
\* descriptor from there on.
sys_fcntl(fd, from) ==
  /\ Call
  /\ CASE {u \in Unused : u >= from} = {} -> Stop("no descriptor")
       [] ~Exists(fd) -> Stop("unused descriptor")
       [] OTHER -> CopyFd(fd, Lowest({u \in Unused : u >= from}))

\* sys_dup3: a copy at a given descriptor.
sys_dup3(fd, target) ==
  /\ Call /\ fd # target
  /\ IF Exists(fd) THEN CopyFd(fd, target) ELSE Stop("unused descriptor")

\* Mutant: the buffer handed out is the one of the last pipe.
OpenPipe_Same(a, b) ==
  /\ current_pipe_buffer_pointer' = 1
  /\ fd_to_buff_address' = [fd_to_buff_address EXCEPT ![a] = 1, ![b] = 1]
\* FastPipe::OpenPipe: each pipe has the next of the buffers.
OpenPipe(a, b) ==
  /\ current_pipe_buffer_pointer' = current_pipe_buffer_pointer + 1
  /\ fd_to_buff_address' = [fd_to_buff_address EXCEPT ![a] = current_pipe_buffer_pointer + 1,
                                                      ![b] = current_pipe_buffer_pointer + 1]

\* sys_pipe2, FD::CreatePipe: two describers of one OpenedFile without a path.
sys_pipe2 ==
  /\ Call
  /\ CASE Cardinality(Unused) < 2 -> Stop("no descriptor")
       [] current_pipe_buffer_pointer >= MaxPipe -> Stop("no pipe")
       [] OTHER ->
          \E r \in {Lowest(Unused)} : \E w \in {Lowest(Unused \ {r})} :
          \E o \in {i \in Ids : opened[i].count = 0 /\ lost[i] = 0} :
            /\ \A i \in 1..(o - 1) : opened[i].count # 0
            /\ opened' = [opened EXCEPT ![o] = [path |-> NoPath, count |-> 2]]
            /\ fd_array' = [fd_array EXCEPT ![r] = [file |-> o, refs |-> PipeRefs, pipe |-> TRUE],
                                            ![w] = [file |-> o, refs |-> PipeRefs, pipe |-> TRUE]]
            /\ OpenPipe(r, w)
            /\ UNCHANGED <<store, lost, cwd, halted, again, failed, written>>

\* FS::open: the element is put whether or not the driver opens the file, in
\* the place of the one that was there; O_CREATE truncates a file.
Opens(p, create, dir) ==
  IF dir \/ p = <<>> THEN IsDir(volume, p)
  ELSE IF create THEN IsDir(volume, Front(p)) /\ ~IsDir(volume, p)
       ELSE IsFile(volume, p)
FS_open(p, create, dir) ==
  LET ok == Opens(p, create, dir)
      new == ok /\ create /\ ~dir
      v == IF new THEN Entered(volume, p, FALSE, 0) ELSE volume
      el == [kind |-> IF dir \/ p = <<>> THEN "dir" ELSE "file", open |-> ok, dirty |-> new,
             size |-> IF ok /\ IsFile(v, p) THEN SizeOf(v, p) ELSE 0]
  IN [ok |-> ok, volume |-> v, el |-> el]

\* VFS::open: with O_CREATE the file system of the parent opens the file, and
\* its node is appended; without, the one of the node itself does.
VfsOpen(p, create, dir) ==
  LET fs == search(tree, IF create THEN Front(p) ELSE p)
      r == FS_open(p, create, dir)
  IN CASE fs = "none" -> [fs |-> fs, ok |-> FALSE]
       [] fs = "FatFs" ->
          [fs |-> fs, ok |-> r.ok, volume |-> r.volume, el |-> r.el,
           tree |-> IF r.ok /\ create
                    THEN [tree EXCEPT ![Front(p)] = appendChild(@, [name |-> Last(p), fs |-> fs])]
                    ELSE tree]
       [] fs = "StdoutFs" -> [fs |-> fs, ok |-> FALSE]
       [] OTHER -> [fs |-> fs, ok |-> TRUE]

\* FD::OpenNewFile on the outcome o of VFS::open.
OpenNewFile(p, o) ==
  IF o.ok
  THEN \E i \in {k \in Ids : opened[k].count = 0 /\ lost[k] = 0} :
         /\ \A k \in 1..(i - 1) : opened[k].count # 0
         /\ opened' = [opened EXCEPT ![i] = [path |-> p, count |-> 1]]
         /\ fd_array' = [fd_array EXCEPT ![Lowest(Unused)] = [file |-> i, refs |-> 1, pipe |-> FALSE]]
  ELSE UNCHANGED <<opened, fd_array>>

\* sys_openat.
sys_openat(p, create, dir) ==
  /\ Call
  /\ IF Unused = {} THEN Stop("no descriptor")
     ELSE \E o \in {VfsOpen(p, create, dir)} :
          CASE o.fs = "StdoutFs" -> Stop("not implemented")
            [] o.fs = "FatFs" ->
               /\ OpenNewFile(p, o)
               /\ path_to_fs_el' = [path_to_fs_el EXCEPT ![p] = o.el]
               /\ tree' = o.tree /\ volume' = o.volume
               /\ disk' \in {disk, volume}
               /\ again' = IF \E i \in Ids : opened[i].count > 0 /\ opened[i].path = p
                           THEN again \cup {p} ELSE again
               /\ failed' = IF o.ok THEN failed \ {p} ELSE failed \cup {p}
               /\ written' = [written EXCEPT ![p] = IF o.ok /\ create /\ ~dir THEN 0 ELSE @]
               /\ UNCHANGED <<pipes, cwd, lost, halted>>
            [] OTHER ->
               /\ OpenNewFile(p, o)
               /\ UNCHANGED <<store, pipes, cwd, lost, halted, again, failed, written>>

\* The operations each file system has; the others stop the machine.
Implemented == [FatFs |-> {"read", "write", "lseek"}, NullFs |-> {"write"}, StdoutFs |-> {"write"}]

\* sys_read, sys_readv, sys_write, sys_writev, sys_lseek: a write, and a seek
\* behind the end, may make an open file longer.
Access(fd, op) ==
  /\ Call
  /\ IF ~Exists(fd) THEN Stop("unused descriptor")
     ELSE \E p \in {PathOf(fd)} : \E fs \in {search(tree, p)} :
          CASE fs = "none" -> UNCHANGED <<table, store, pipes, cwd, halted, again, failed, written>>
            [] fs # "none" /\ op \notin Implemented[fs] -> Stop("not implemented")
            [] fs = "FatFs" /\ path_to_fs_el[p].kind = "none" -> Stop("no element")
            [] fs = "FatFs" /\ path_to_fs_el[p].kind # "none" ->
               \E n \in IF op # "read" /\ path_to_fs_el[p].open /\ path_to_fs_el[p].kind = "file"
                        THEN path_to_fs_el[p].size..MaxSize ELSE {path_to_fs_el[p].size} :
                 /\ path_to_fs_el' = [path_to_fs_el EXCEPT
                      ![p] = [@ EXCEPT !.size = n, !.dirty = @ \/ n # path_to_fs_el[p].size]]
                 /\ written' = [written EXCEPT ![p] = IF n # path_to_fs_el[p].size THEN n ELSE @]
                 /\ UNCHANGED <<table, tree, volume, disk, pipes, cwd, halted, again, failed>>
            [] OTHER -> UNCHANGED <<table, store, pipes, cwd, halted, again, failed, written>>

\* sys_mkdirat, VFS::mkdir, f_mkdir, which syncs.
sys_mkdirat(p) ==
  /\ Call
  /\ IF search(tree, Front(p)) = "FatFs" /\ IsDir(volume, Front(p)) /\ ~Holds(volume, p)
     THEN /\ volume' = Entered(volume, p, TRUE, 0) /\ disk' = volume'
          /\ tree' = Mounted(tree, Front(p), Last(p), "FatFs")
          /\ UNCHANGED path_to_fs_el
     ELSE UNCHANGED store
  /\ UNCHANGED <<table, pipes, cwd, halted, again, failed, written>>

\* sys_chdir: the directory need not exist.
sys_chdir(raw) ==
  /\ Call
  /\ getAbsolutePath[raw, cwd] \in Dirs
  /\ cwd' = getAbsolutePath[raw, cwd]
  /\ UNCHANGED <<table, store, pipes, halted, again, failed, written>>

Next ==
  \/ Reboot
  \/ \E fd \in Fds : sys_close(fd)
  \/ \E fd \in Fds, from \in Targets : sys_fcntl(fd, from)
  \/ \E fd \in Fds, target \in Targets : sys_dup3(fd, target)
  \/ sys_pipe2
  \/ \E p \in atFdCWD, m \in Modes : sys_openat(p, m.create, m.dir)
  \/ \E fd \in Fds, op \in {"read", "write", "lseek"} : Access(fd, op)
  \/ \E p \in atFdCWD : sys_mkdirat(p)
  \/ \E raw \in Raw : sys_chdir(raw)

Spec == Init /\ [][Next]_vars

-----------------------------------------------------------------------------
(* Properties.                                                             *)

Entries == [name : STRING, dir : BOOLEAN, size : 0..MaxSize]
TypeOK ==
  /\ fd_array \in [Fds -> [file : Ids \cup {0}, refs : 0..(PipeRefs + 1), pipe : BOOLEAN]]
  /\ DOMAIN opened = Ids /\ \A o \in Ids : opened[o].path \in AllPaths /\ opened[o].count \in Nat
  /\ path_to_fs_el \in [AllPaths -> [kind : {"none", "file", "dir"}, open : BOOLEAN,
                                     size : 0..MaxSize, dirty : BOOLEAN]]
  /\ \A p \in Dirs : \A v \in {volume, disk} : \A i \in DOMAIN v[p] : v[p][i] \in Entries
  /\ fd_to_buff_address \in [Fds -> 0..MaxPipe] /\ current_pipe_buffer_pointer \in 0..MaxPipe
  /\ cwd \in Dirs

\* A descriptor of a FAT file can be used until it is closed: the map of the
\* FAT layer has an open element for its path, whatever is duplicated, closed,
\* redirected or opened on other paths in between, and the machine stops for
\* want of an element (Map::get) only after some path was opened twice at a
\* time, which is the one thing the map by path cannot represent.
DescriptorsUsable ==
  /\ TypeOK
  /\ \A fd \in Fds : Exists(fd) /\ search(tree, PathOf(fd)) = "FatFs" /\ PathOf(fd) \notin again
                       => path_to_fs_el[PathOf(fd)].open
  /\ halted = "no element" => again # {}

\* The count of each OpenedFile is exact: its descriptors, and the describers
\* that CopyFd wrote over where Erase leaves them (descriptor 1, pipes).  So a
\* file is closed with its last descriptor, and the FAT layer holds an element
\* without one only for a path that a failed open left, one opened twice, or
\* one below /dev that O_CREATE opened on the card.
FilesCounted ==
  /\ \A o \in Ids : opened[o].count = Cardinality({fd \in Fds : fd_array[fd].file = o}) + lost[o]
  /\ \A p \in AllPaths : path_to_fs_el[p].kind # "none" =>
       \/ \E o \in Ids : opened[o].count > 0 /\ opened[o].path = p
       \/ p \in failed \cup again
       \/ search(tree, p) # "FatFs"

\* What programs wrote to a file is recorded once the file is closed, in the
\* driver and on the card, and a later reboot does not change it: only a file
\* that was open at a reboot, or twice at a time, can be another length.
ClosedIsRecorded ==
  \A p \in Paths :
    path_to_fs_el[p].kind = "none" /\ p \notin again \cup cut /\ halted = "no" =>
      \A v \in {volume, disk} : IsFile(v, p) => SizeOf(v, p) = written[p]

\* A descriptor marked as a pipe has one, and two have the same buffer only
\* when one call of pipe2 made both, through every close, dup and reuse.
PipesApart ==
  \A a, b \in {fd \in Fds : fd_array[fd].pipe} :
    /\ fd_to_buff_address[a] # 0
    /\ fd_to_buff_address[a] = fd_to_buff_address[b] => fd_array[a].file = fd_array[b].file

\* No call hides what the tree shows: until the next boot a path stays with the
\* file system it is found on, duplicate nodes or not.  And all that is on the
\* card is found in the tree, after every call and every boot.
StaysReachable ==
  [][/\ boots' = boots /\ tree' # tree =>
          \A p \in Paths : search(tree, p) # "none" => search(tree', p) = search(tree, p)
     /\ <<tree, volume>>' # <<tree, volume>> =>
          \A p \in Paths : Holds(volume', p) => search(tree', p) # "none"]_vars

\* The null device is what /dev/null names: the design has NullFs implement it.
DevicesStay == search(tree, <<"dev", "null">>) = "NullFs"
=============================================================================

------------------------------- MODULE FatFs -------------------------------
(***************************************************************************)
(* The FAT32 driver (driver/fatfs/ff.c) over the block layer of diskio.c.  *)
(*                                                                         *)
(* A volume is a function from sector numbers to sectors, a sector holds   *)
(* SS units, and a unit is one FAT entry, one directory entry or one byte  *)
(* of file data: the record field k tells which.  The driver reaches FAT,  *)
(* directories and, in this build (FF_FS_TINY), file data through one      *)
(* write-back window of one sector.  fs is the FATFS object with that      *)
(* window; fs.disk is the volume as the running call sees it and fs.log    *)
(* the sector writes the call has issued that are not yet on the card;     *)
(* card is what survives a loss of power.  A call is one action that       *)
(* computes the whole call; the sectors then reach the card one by one,    *)
(* in order, and power may fail between any two of them.                   *)
(*                                                                         *)
(* diskio.c answers RES_OK to every transfer, so the disk-error paths of   *)
(* ff.c are unreachable and left out; exFAT, locking and fast seek are     *)
(* compiled out.  The callers keep the rule of ffconf.h:271 (no second     *)
(* open and no removal of an open object).                                 *)
(***************************************************************************)
EXTENDS Integers, Sequences, FiniteSets

CONSTANTS NFatEnt,    \* n_fatent: clusters are 2 .. NFatEnt-1
          CSize,      \* csize: sectors of a cluster
          SS,         \* units of a sector
          NFats,      \* n_fats: copies of the FAT, 1 or 2
          Files,      \* paths of files, sequences of names
          Dirs,       \* paths of directories
          LongNames,  \* names that need a long-name entry
          Lengths,    \* transfer sizes of f_read and f_write
          Offsets,    \* positions given to f_lseek
          MaxOps, MaxCrashes   \* bounds on the length of a behaviour

VARIABLES fs, card, fil,
          content,    \* what each path should hold: Absent, IsDir or its bytes
          ret,        \* the last call: its name, path, result and data
          ops, crashes, torn

vars == <<fs, card, fil, content, ret, ops, crashes, torn>>

ASSUME FatFsAssumption ==
  /\ NFatEnt \in Nat /\ NFatEnt > 2 /\ CSize \in {1, 2, 4} /\ SS \in Nat \ {0, 1}
  /\ NFats \in {1, 2} /\ Lengths \subseteq Nat /\ Offsets \subseteq Nat

Root     == 2                                   \* dirbase: first cluster of the root
FsInfo   == 1
FatBase  == 2
FSize    == (NFatEnt + SS - 1) \div SS          \* sectors of one FAT
DataBase == FatBase + NFats * FSize
Sectors  == 0 .. DataBase + CSize * (NFatEnt - 2) - 1
EOC      == NFatEnt                             \* 0x0FFFFFFF: any value >= n_fatent
Clusters == 2 .. NFatEnt - 1
None     == -1

Fat(v)   == [k |-> "fat", v |-> v]
Byte(v)  == [k |-> "data", v |-> v]
End      == [k |-> "end", v |-> 0]
Deleted  == [k |-> "del", v |-> 0]
(* The short name of an entry is the name itself (num = 0) or, when the    *)
(* name does not fit, its numbered alias num; a long-name entry carries    *)
(* the checksum of the short name it belongs to.                           *)
Lfn(name, num, ord, first) ==
  [k |-> "lfn", name |-> name, sum |-> <<name, num>>, ord |-> ord, first |-> first]
Sfn(name, num, attr, clust, size) ==
  [k |-> "sfn", name |-> name, num |-> num, attr |-> attr, clust |-> clust, size |-> size]
Filled(u) == [i \in 0 .. SS - 1 |-> u]
Entries(name) == IF name \in LongNames THEN 2 ELSE 1
Smaller(a, b) == IF a < b THEN a ELSE b

-----------------------------------------------------------------------------
(* The window.                                                             *)

disk_write(S, sect, data) ==
  [S EXCEPT !.disk[sect] = data, !.log = Append(@, [sect |-> sect, data |-> data])]

sync_window(S) ==
  IF ~S.wflag THEN S
  ELSE LET mirrored(T) == IF NFats = 2 /\ S.winsect - FatBase \in 0 .. FSize - 1
                          THEN disk_write(T, S.winsect + FSize, S.win) ELSE T
       IN mirrored([disk_write(S, S.winsect, S.win) EXCEPT !.wflag = FALSE])

move_window(S, sect) ==
  LET loaded(T) == [T EXCEPT !.winsect = sect, !.win = T.disk[sect]]
  IN IF sect = S.winsect THEN S ELSE loaded(sync_window(S))

sync_fs_Lazy(S) == S
sync_fs(S) ==
  LET written(T, info) == [disk_write(T, FsInfo, info) EXCEPT
                             !.winsect = FsInfo, !.win = info, !.fsi_flag = FALSE]
      synced(T) == IF ~T.fsi_flag THEN T
                   ELSE written(T, Filled([k |-> "fsi", free |-> T.free_clst, last |-> T.last_clst]))
  IN synced(sync_window(S))

Put(S, i, u) == [S EXCEPT !.win[i % SS] = u, !.wflag = TRUE]

clst2sect(c) == IF c \in Clusters THEN DataBase + CSize * (c - 2) ELSE 0

-----------------------------------------------------------------------------
(* The FAT.  get_fat answers [s, v]: it moves the window.                  *)

get_fat(S, c) ==
  LET entry(T) == [s |-> T, v |-> T.win[c % SS].v]
  IN IF c \notin Clusters THEN [s |-> S, v |-> 1] ELSE entry(move_window(S, FatBase + c \div SS))

put_fat(S, c, v) ==
  IF c \notin Clusters THEN S
  ELSE Put(move_window(S, FatBase + c \div SS), c, Fat(v))

CountFree_Forgotten(T) == [T EXCEPT !.fsi_flag = TRUE]
CountFree(T) ==
  IF T.free_clst < NFatEnt - 2 THEN [T EXCEPT !.free_clst = @ + 1, !.fsi_flag = TRUE] ELSE T

RECURSIVE remove_chain(_, _)
remove_chain(S, c) ==      \* [s, ok]; pclst is 0 in every call the kernel makes
  LET more(T, v) == IF v >= NFatEnt THEN [s |-> T, ok |-> TRUE] ELSE remove_chain(T, v)
      free(g) == IF g.v < 2 THEN [s |-> g.s, ok |-> g.v = 0]
                 ELSE more(CountFree(put_fat(g.s, c, 0)), g.v)
  IN IF c \notin Clusters THEN [s |-> S, ok |-> FALSE] ELSE free(get_fat(S, c))

RECURSIVE FindFree(_, _, _)
FindFree(S, scl, n) ==     \* the search loop of create_chain
  LET ncl == IF n + 1 >= NFatEnt THEN 2 ELSE n + 1
      try(g) == CASE g.v = 0 -> [s |-> g.s, v |-> ncl]
                  [] g.v = 1 -> [s |-> g.s, v |-> 1]
                  [] ncl = scl -> [s |-> g.s, v |-> 0]
                  [] OTHER -> FindFree(g.s, scl, ncl)
  IN IF n + 1 >= NFatEnt /\ ncl > scl THEN [s |-> S, v |-> 0] ELSE try(get_fat(S, ncl))

create_chain(S, c) ==      \* [s, v]: v is the cluster, 0 when there is none
  LET counted(T, v) == [s |-> [T EXCEPT !.last_clst = v, !.fsi_flag = TRUE,
                                        !.free_clst = IF @ <= NFatEnt - 2 THEN @ - 1 ELSE @],
                        v |-> v]
      link(T, v) == counted(IF c = 0 THEN T ELSE put_fat(T, c, v), v)
      take(g)    == IF g.v < 2 THEN g ELSE link(put_fat(g.s, g.v, EOC), g.v)
      search(T, scl) == FindFree(T, scl, scl)
      hint(low, dflt) == IF S.last_clst \in low .. NFatEnt - 1 THEN S.last_clst ELSE dflt
      next       == IF c + 1 >= NFatEnt THEN 2 ELSE c + 1
      after(g)   == IF g.v = 0 THEN [s |-> g.s, v |-> next] ELSE search(g.s, hint(2, c))
      stretch(g) == CASE g.v < 2 -> [s |-> g.s, v |-> 1]
                      [] g.v \in Clusters -> g
                      [] S.free_clst = 0 -> [s |-> g.s, v |-> 0]
                      [] OTHER -> take(after(get_fat(g.s, next)))
  IN CASE c # 0 -> stretch(get_fat(S, c))
       [] S.free_clst = 0 -> [s |-> S, v |-> 0]
       [] OTHER -> take(search(S, hint(1, 1)))

-----------------------------------------------------------------------------
(* Directories.  A directory object is [sclust, dptr, clust, sect, blk_ofs];*)
(* its entry is unit dptr % SS of sector sect once the window is there.     *)

PerCluster == CSize * SS
At(S, dp) == S.win[dp.dptr % SS]

RECURSIVE FollowTable(_, _, _)
FollowTable(S, c, ofs) ==
  LET on(g) == IF g.v \in Clusters THEN FollowTable(g.s, g.v, ofs - PerCluster)
               ELSE [s |-> g.s, clust |-> 0, ofs |-> 0]
  IN IF ofs < PerCluster THEN [s |-> S, clust |-> c, ofs |-> ofs] ELSE on(get_fat(S, c))

dir_sdi(S, sclust, ofs) ==     \* [s, r, dp]
  LET at(f, sect) ==
        [s |-> f.s, r |-> IF sect = 0 THEN "int_err" ELSE "ok",
         dp |-> [sclust |-> sclust, dptr |-> ofs, clust |-> f.clust,
                 sect |-> sect + f.ofs \div SS, blk_ofs |-> None]]
      found(f) == at(f, clst2sect(f.clust))
  IN found(FollowTable(S, IF sclust = 0 THEN Root ELSE sclust, ofs))

RECURSIVE ClearFrom(_, _, _)
ClearFrom(S, sect, n) ==
  IF n = CSize THEN S ELSE ClearFrom(disk_write(S, sect + n, Filled(End)), sect, n + 1)

dir_clear(S, c) ==
  ClearFrom([sync_window(S) EXCEPT !.winsect = clst2sect(c), !.win = Filled(End)], clst2sect(c), 0)

dir_next(S, dp, stretch) ==
  LET ofs == dp.dptr + 1
      stop(T, r) == [s |-> T, r |-> r, dp |-> dp]
      to(T, c, sect) == [s |-> T, r |-> "ok",
                         dp |-> [dp EXCEPT !.dptr = ofs, !.clust = c, !.sect = sect]]
      added(n) == CASE n.v = 0 -> stop(n.s, "denied")
                    [] n.v = 1 -> stop(n.s, "int_err")
                    [] OTHER -> to(dir_clear(n.s, n.v), n.v, clst2sect(n.v))
      follow(g) == CASE g.v <= 1 -> stop(g.s, "int_err")
                     [] g.v < NFatEnt -> to(g.s, g.v, clst2sect(g.v))
                     [] stretch -> added(create_chain(g.s, dp.clust))
                     [] OTHER -> [stop(g.s, "no_file") EXCEPT !.dp.sect = 0]
  IN CASE dp.sect = 0 -> stop(S, "no_file")
       [] ofs % SS # 0 -> to(S, dp.clust, dp.sect)
       [] ofs % PerCluster # 0 -> to(S, dp.clust, dp.sect + 1)
       [] OTHER -> follow(get_fat(S, dp.clust))

RECURSIVE AllocFrom(_, _, _, _)
AllocFrom(S, dp, n, want) ==   \* n free entries in a row end before dp
  LET on(x, m) == IF x.r = "ok" THEN AllocFrom(x.s, x.dp, m, want)
                  ELSE [x EXCEPT !.r = IF @ = "no_file" THEN "denied" ELSE @]
      test(T, m) == IF m = want THEN [s |-> T, r |-> "ok", dp |-> dp]
                    ELSE on(dir_next(T, dp, TRUE), m)
      count(T) == test(T, IF At(T, dp).k \in {"end", "del"} THEN n + 1 ELSE 0)
  IN count(move_window(S, dp.sect))

dir_alloc(S, sclust, want) ==
  LET from(d) == IF d.r # "ok" THEN d ELSE AllocFrom(d.s, d.dp, 0, want)
  IN from(dir_sdi(S, sclust, 0))

(* The long-name entries before a short entry count only when they are     *)
(* complete, in order and carry its checksum.  l is the run read so far:   *)
(* the next ordinal expected (0: complete), its checksum, where it began.  *)
NoLfn == [ord |-> 255, sum |-> <<"", 0>>, blk |-> None]

NextLfn(l, e, dptr, same) ==
  LET b == IF e.first THEN [ord |-> e.ord, sum |-> e.sum, blk |-> dptr] ELSE l
  IN [b EXCEPT !.ord = IF e.ord = @ /\ e.sum = b.sum /\ same THEN @ - 1 ELSE 255]

(* num > 0 looks for the alias num of name among the short names only.     *)
RECURSIVE FindFrom(_, _, _, _, _)
FindFrom(S, dp, l, name, num) ==
  LET hit(e) == /\ e.k = "sfn"
                /\ \/ l.ord = 0 /\ l.sum = <<e.name, e.num>>
                   \/ e.name = name /\ e.num = num /\ (num = 0 => name \notin LongNames)
      l2(e) == IF e.k # "lfn" THEN NoLfn
               ELSE IF num > 0 THEN l ELSE NextLfn(l, e, dp.dptr, e.name = name)
      on(x, m) == IF x.r # "ok" THEN x ELSE FindFrom(x.s, x.dp, m, name, num)
      test(T, e) == CASE e.k = "end" -> [s |-> T, r |-> "no_file", dp |-> dp]
                      [] hit(e) -> [s |-> T, r |-> "ok", dp |-> [dp EXCEPT !.blk_ofs = l.blk]]
                      [] OTHER -> on(dir_next(T, dp, FALSE), l2(e))
      seen(T) == test(T, At(T, dp))
  IN seen(move_window(S, dp.sect))

dir_find(S, sclust, name, num) ==
  LET from(d) == IF d.r # "ok" THEN d ELSE FindFrom(d.s, d.dp, NoLfn, name, num)
  IN from(dir_sdi(S, sclust, 0))

RECURSIVE NumberedName(_, _, _, _)
NumberedName(S, sclust, name, n) ==      \* [f, n]: the first alias not in use
  LET test(f) == IF f.r # "ok" THEN [f |-> f, n |-> n] ELSE NumberedName(f.s, sclust, name, n + 1)
  IN test(dir_find(S, sclust, name, n))

RECURSIVE PutLfns(_, _, _, _, _)
PutLfns(S, dp, n, name, num) ==          \* bottom first
  LET on(x) == IF x.r # "ok" THEN x ELSE PutLfns(x.s, x.dp, n - 1, name, num)
      entry == Lfn(name, num, n, n = Entries(name) - 1)
  IN IF n = 0 THEN [s |-> S, r |-> "ok", dp |-> dp]
     ELSE on(dir_next(Put(move_window(S, dp.sect), dp.dptr, entry), dp, FALSE))

dir_register(S, sclust, name) ==
  LET more == Entries(name) - 1
      put(p, num) == IF p.r # "ok" THEN p
                     ELSE [p EXCEPT !.s = Put(move_window(@, p.dp.sect), p.dp.dptr,
                                              Sfn(name, num, "file", 0, 0))]
      lfns(d, num) == IF d.r # "ok" THEN d ELSE PutLfns(d.s, d.dp, more, name, num)
      set(a, num) == IF a.r # "ok" \/ more = 0 THEN put(a, num)
                     ELSE put(lfns(dir_sdi(a.s, sclust, a.dp.dptr - more), num), num)
      alloc(g) == IF g.f.r # "no_file" THEN g.f
                  ELSE set(dir_alloc(g.f.s, sclust, more + 1), g.n)
  IN alloc(IF more = 0 THEN [f |-> [s |-> S, r |-> "no_file"], n |-> 0]
           ELSE NumberedName(S, sclust, name, 1))

RECURSIVE DeleteTo(_, _, _)
DeleteTo(S, dp, last) ==
  LET on(x) == IF x.r = "ok" THEN DeleteTo(x.s, x.dp, last)
               ELSE [x EXCEPT !.r = IF @ = "no_file" THEN "int_err" ELSE @]
      next(T) == IF dp.dptr >= last THEN [s |-> T, r |-> "ok", dp |-> dp]
                 ELSE on(dir_next(T, dp, FALSE))
  IN next(Put(move_window(S, dp.sect), dp.dptr, Deleted))

dir_remove(S, dp) ==
  LET from(d) == IF d.r # "ok" THEN d ELSE DeleteTo(d.s, d.dp, dp.dptr)
  IN from(IF dp.blk_ofs = None THEN [s |-> S, r |-> "ok", dp |-> dp]
          ELSE dir_sdi(S, dp.sclust, dp.blk_ofs))

RECURSIVE dir_read(_, _)
dir_read(S, dp) ==             \* the next file or directory other than dots
  LET on(x) == IF x.r = "ok" THEN dir_read(x.s, x.dp) ELSE [x EXCEPT !.dp.sect = 0]
      test(T, e) == CASE e.k = "end" -> [s |-> T, r |-> "no_file", dp |-> [dp EXCEPT !.sect = 0]]
                      [] e.k = "sfn" /\ e.name \notin {".", ".."} -> [s |-> T, r |-> "ok", dp |-> dp]
                      [] OTHER -> on(dir_next(T, dp, FALSE))
      seen(T) == test(T, At(T, dp))
  IN IF dp.sect = 0 THEN [s |-> S, r |-> "no_file", dp |-> dp] ELSE seen(move_window(S, dp.sect))

RECURSIVE FollowFrom(_, _, _)
FollowFrom(S, sclust, path) ==
  LET into(f) ==
        CASE f.r # "ok" -> [f EXCEPT !.r = IF @ = "no_file" /\ Len(path) > 1 THEN "no_path" ELSE @]
          [] Len(path) = 1 -> f
          [] At(f.s, f.dp).attr # "dir" -> [f EXCEPT !.r = "no_path"]
          [] OTHER -> FollowFrom(f.s, At(f.s, f.dp).clust, Tail(path))
  IN into(dir_find(S, sclust, Head(path), 0))

follow_path(S, path) == FollowFrom(S, 0, path)
-----------------------------------------------------------------------------
(* The calls.  A FIL is [open, modified, err, sclust, objsize, fptr, clust, *)
(* sect, dir_sect, dir_ptr]; an operator answers the FATFS object s, the    *)
(* result r and what else the call produces.                                *)

Closed == [open |-> FALSE, modified |-> FALSE, err |-> FALSE, sclust |-> 0, objsize |-> 0,
           fptr |-> 0, clust |-> 0, sect |-> 0, dir_sect |-> 0, dir_ptr |-> 0]

Last(path) == path[Len(path)]

Truncated_EntryKept(S, dp) ==
  LET back(c) == IF c.ok THEN [c EXCEPT !.s = move_window(@, S.winsect)] ELSE c
  IN IF At(S, dp).clust = 0 THEN [s |-> S, ok |-> TRUE] ELSE back(remove_chain(S, At(S, dp).clust))
Truncated_ChainKept(S, dp) ==
  [s |-> Put(S, dp.dptr, [At(S, dp) EXCEPT !.clust = 0, !.size = 0]), ok |-> TRUE]

(* The entry in the window is emptied and its chain freed.                 *)
Truncated(S, dp) ==
  LET back(c, T, cl) == IF ~c.ok THEN c
                        ELSE [c EXCEPT !.s = [move_window(@, T.winsect) EXCEPT !.last_clst = cl - 1]]
      freed(T, cl) == IF cl = 0 THEN [s |-> T, ok |-> TRUE] ELSE back(remove_chain(T, cl), T, cl)
      cut(e) == freed(Put(S, dp.dptr, Sfn(e.name, e.num, "file", 0, 0)), e.clust)
  IN cut(At(S, dp))

f_open(S, path, create) ==
  LET fail(T, r) == [s |-> T, r |-> r, f |-> Closed]
      opened(T, dp, e) ==
        [s |-> T, r |-> "ok",
         f |-> [Closed EXCEPT !.open = TRUE, !.modified = create, !.sclust = e.clust,
                  !.objsize = e.size, !.dir_sect = T.winsect, !.dir_ptr = dp.dptr]]
      got(t, dp) == IF ~t.ok THEN fail(t.s, "int_err") ELSE opened(t.s, dp, At(t.s, dp))
      found(o) == CASE o.r # "ok" -> fail(o.s, o.r)
                    [] At(o.s, o.dp).attr = "dir" -> fail(o.s, IF create THEN "denied" ELSE "no_file")
                    [] create -> got(Truncated(o.s, o.dp), o.dp)
                    [] OTHER -> got([s |-> o.s, ok |-> TRUE], o.dp)
      made(p) == IF create /\ p.r = "no_file" THEN dir_register(p.s, p.dp.sclust, Last(path)) ELSE p
  IN found(made(follow_path(S, path)))

Csect(f) == (f.fptr \div SS) % CSize

Newest_OnDisk(T, k, i) == T.disk[k][i]
Newest(T, k, i) ==             \* a dirty window replaces its sector
  IF T.wflag /\ T.winsect = k THEN T.win[i] ELSE T.disk[k][i]

RECURSIVE ReadFrom(_, _, _, _)
ReadFrom(S, f, n, acc) ==      \* n bytes to go, acc read
  LET edge == f.fptr % SS = 0
      at   == f.fptr % SS
      cached(T, sect, m) ==    \* through the window
        LET g == [f EXCEPT !.sect = sect, !.fptr = @ + m]
        IN ReadFrom(T, g, n - m, acc \o [i \in 1 .. m |-> T.win[at + i - 1]])
      direct(T, c, sect, cc) ==
        ReadFrom(T, [f EXCEPT !.clust = c, !.fptr = @ + cc * SS], n - cc * SS,
                 acc \o [i \in 1 .. cc * SS |-> Newest(T, sect + (i - 1) \div SS, (i - 1) % SS)])
      sector(T, c, sect, cc) ==
        IF cc > 0 THEN direct(T, c, sect, cc)
        ELSE LET g == [f EXCEPT !.clust = c, !.sect = sect, !.fptr = @ + n]
                 out(W) == ReadFrom(W, g, 0, acc \o [i \in 1 .. n |-> W.win[i - 1]])
             IN out(move_window(T, sect))
      on(g) == IF clst2sect(g.v) = 0
               THEN [s |-> g.s, r |-> "int_err", f |-> [f EXCEPT !.err = TRUE], data |-> acc]
               ELSE sector(g.s, g.v, clst2sect(g.v) + Csect(f), Smaller(n \div SS, CSize - Csect(f)))
  IN CASE n = 0 -> [s |-> S, r |-> "ok", f |-> f, data |-> acc]
       [] ~edge -> cached(move_window(S, f.sect), f.sect, Smaller(SS - at, n))
       [] Csect(f) # 0 -> on([s |-> S, v |-> f.clust])
       [] f.fptr = 0 -> on([s |-> S, v |-> f.sclust])
       [] OTHER -> on(get_fat(S, f.clust))

f_read(S, f, btr) == ReadFrom(S, f, Smaller(btr, f.objsize - f.fptr), <<>>)

RECURSIVE WriteSectors(_, _, _, _)
WriteSectors(S, sect, cc, u) ==
  IF cc = 0 THEN S ELSE WriteSectors(disk_write(S, sect, Filled(u)), sect + 1, cc - 1, u)

RECURSIVE WriteFrom(_, _, _, _, _)
WriteFrom(S, f, n, u, done) ==           \* every byte of the buffer is u
  LET at == f.fptr % SS
      moved(c, sect, m) ==
        [f EXCEPT !.clust = c, !.sclust = IF @ = 0 THEN c ELSE @, !.sect = sect,
           !.fptr = @ + m, !.objsize = IF f.fptr + m > @ THEN f.fptr + m ELSE @]
      filled(W, m) == [W EXCEPT !.wflag = TRUE,
                         !.win = [i \in 0 .. SS - 1 |-> IF i \in at .. at + m - 1 THEN u ELSE @[i]]]
      cached(T, c, sect, m) == WriteFrom(filled(move_window(T, sect), m), moved(c, sect, m), n - m, u, done + m)
      refill(T, sect, cc) == IF T.winsect \in sect .. sect + cc - 1
                             THEN [T EXCEPT !.win = Filled(u), !.wflag = FALSE] ELSE T
      direct(T, c, sect, cc) == WriteFrom(refill(WriteSectors(T, sect, cc, u), sect, cc),
                                          moved(c, f.sect, cc * SS), n - cc * SS, u, done + cc * SS)
      grown(T, sect) == IF f.fptr >= f.objsize      \* do not read a sector about to be made
                        THEN [sync_window(T) EXCEPT !.winsect = sect] ELSE T
      sector(T, c, sect, cc) == IF cc > 0 THEN direct(T, c, sect, cc)
                                ELSE cached(grown(T, sect), c, sect, n)
      end(T) == [s |-> T, r |-> "ok", f |-> [f EXCEPT !.modified = TRUE], n |-> done]
      on(g) == CASE g.v = 0 -> end(g.s)
                 [] g.v = 1 -> [s |-> g.s, r |-> "int_err", f |-> [f EXCEPT !.err = TRUE], n |-> done]
                 [] OTHER -> sector(IF g.s.winsect = f.sect THEN sync_window(g.s) ELSE g.s, g.v,
                                    clst2sect(g.v) + Csect(f), Smaller(n \div SS, CSize - Csect(f)))
  IN CASE n = 0 -> end(S)
       [] at # 0 -> cached(S, f.clust, f.sect, Smaller(SS - at, n))
       [] Csect(f) # 0 -> on([s |-> S, v |-> f.clust])
       [] f.fptr = 0 /\ f.sclust # 0 -> on([s |-> S, v |-> f.sclust])
       [] OTHER -> on(create_chain(S, IF f.fptr = 0 THEN 0 ELSE f.clust))

f_write(S, f, btw, u) == WriteFrom(S, f, btw, u, 0)

f_sync(S, f) ==
  LET stored(T, e) == sync_fs(Put(T, f.dir_ptr, [e EXCEPT !.clust = f.sclust, !.size = f.objsize]))
      update(T) == stored(T, T.win[f.dir_ptr % SS])
  IN IF ~f.modified THEN [s |-> S, f |-> f]
     ELSE [s |-> update(move_window(S, f.dir_sect)), f |-> [f EXCEPT !.modified = FALSE]]

f_close(S, f) == [f_sync(S, f) EXCEPT !.f = Closed]

RECURSIVE SeekFrom(_, _, _)
SeekFrom(S, f, ofs) ==         \* the cluster following loop
  LET g == [f EXCEPT !.fptr = @ + PerCluster]
      on(c) == CASE c.v = 0 -> [s |-> c.s, r |-> "ok", f |-> g, ofs |-> 0]
                 [] c.v = 1 -> [s |-> c.s, r |-> "int_err", f |-> [g EXCEPT !.err = TRUE], ofs |-> 0]
                 [] OTHER -> SeekFrom(c.s, [g EXCEPT !.clust = c.v], ofs - PerCluster)
  IN IF ofs <= PerCluster THEN [s |-> S, r |-> "ok", f |-> f, ofs |-> ofs]
     ELSE on(create_chain(S, f.clust))

f_lseek(S, f, to) ==
  LET start == ((f.fptr - 1) \div PerCluster) * PerCluster
      land(k, end, nsect) ==
        [s |-> k.s, r |-> "ok",
         f |-> [k.f EXCEPT !.fptr = end, !.modified = @ \/ end > f.objsize,
                  !.objsize = IF end > @ THEN end ELSE @,
                  !.sect = IF end % SS # 0 THEN nsect ELSE @]]
      there(k) == IF k.r # "ok" THEN [s |-> k.s, r |-> k.r, f |-> k.f]
                  ELSE land(k, k.f.fptr + k.ofs,
                            IF k.ofs % SS = 0 THEN 0 ELSE clst2sect(k.f.clust) + k.ofs \div SS)
      top(c) == [f EXCEPT !.fptr = 0, !.sclust = c, !.clust = c]
      first(c) == CASE c.v = 0 -> there([s |-> c.s, r |-> "ok", f |-> top(0), ofs |-> 0])
                    [] c.v = 1 -> [s |-> c.s, r |-> "int_err", f |-> [f EXCEPT !.err = TRUE]]
                    [] OTHER -> there(SeekFrom(c.s, top(c.v), to))
  IN CASE to = 0 -> [s |-> S, r |-> "ok", f |-> [f EXCEPT !.fptr = 0]]
       [] f.fptr > 0 /\ (to - 1) \div PerCluster >= (f.fptr - 1) \div PerCluster ->
            there(SeekFrom(S, [f EXCEPT !.fptr = start], to - start))
       [] OTHER -> first(IF f.sclust = 0 THEN create_chain(S, 0) ELSE [s |-> S, v |-> f.sclust])

f_unlink(S, path) ==
  LET ended(c) == IF c.ok THEN [s |-> sync_fs(c.s), r |-> "ok"] ELSE [s |-> c.s, r |-> "int_err"]
      freed(m, c) == CASE m.r # "ok" -> [s |-> m.s, r |-> m.r]
                       [] c = 0 -> ended([s |-> m.s, ok |-> TRUE])
                       [] OTHER -> ended(remove_chain(m.s, c))
      gone(T, p, c) == freed(dir_remove(T, p.dp), c)
      emptied(x, p, c) == IF x.r = "no_file" THEN gone(x.s, p, c)
                          ELSE [s |-> x.s, r |-> IF x.r = "ok" THEN "denied" ELSE x.r]
      test(d) == IF d.r # "ok" THEN d ELSE dir_read(d.s, d.dp)
      found(p, e) == IF e.attr = "dir" THEN emptied(test(dir_sdi(p.s, e.clust, 0)), p, e.clust)
                     ELSE gone(p.s, p, e.clust)
      named(p) == IF p.r # "ok" THEN [s |-> p.s, r |-> p.r] ELSE found(p, At(p.s, p.dp))
  IN named(follow_path(S, path))

f_mkdir(S, path) ==
  LET entry(g, e, c) == sync_fs(Put(g.s, g.dp.dptr, [e EXCEPT !.clust = c, !.attr = "dir"]))
      ended(g, c) == IF g.r # "ok" THEN [s |-> remove_chain(g.s, c).s, r |-> g.r]
                     ELSE [s |-> entry(g, At(g.s, g.dp), c), r |-> "ok"]
      dots(T, c, up) == Put(Put(T, 0, Sfn(".", 0, "dir", c, 0)), 1, Sfn("..", 0, "dir", up, 0))
      fill(c, up) ==
        IF c.v < 2 THEN [s |-> c.s, r |-> IF c.v = 0 THEN "denied" ELSE "int_err"]
        ELSE ended(dir_register(dots(dir_clear(c.s, c.v), c.v, up), up, Last(path)), c.v)
      named(p) == IF p.r # "no_file" THEN [s |-> p.s, r |-> IF p.r = "ok" THEN "exist" ELSE p.r]
                  ELSE fill(create_chain(p.s, 0), p.dp.sclust)
  IN named(follow_path(S, path))

f_opendir(S, path) ==
  LET found(p, e) == IF e.attr # "dir" THEN [p EXCEPT !.r = "no_path"] ELSE dir_sdi(p.s, e.clust, 0)
      named(p) == IF p.r = "ok" THEN found(p, At(p.s, p.dp))
                  ELSE [p EXCEPT !.r = IF @ = "no_file" THEN "no_path" ELSE @]
  IN IF path = <<>> THEN dir_sdi(S, 0, 0) ELSE named(follow_path(S, path))

RECURSIVE f_readdir(_, _, _)
f_readdir(S, dp, acc) ==       \* called until it reports the end
  LET on(x, e) == IF x.r \in {"ok", "no_file"} THEN f_readdir(x.s, x.dp, Append(acc, e))
                  ELSE [s |-> x.s, r |-> x.r, data |-> acc]
      one(e) == IF e.r = "ok" THEN on(dir_next(e.s, e.dp, FALSE), At(e.s, e.dp))
                ELSE [s |-> e.s, r |-> IF e.r = "no_file" THEN "ok" ELSE e.r, data |-> acc]
  IN one(dir_read(S, dp))

f_mount(disk) ==
  [disk |-> disk, log |-> <<>>, winsect |-> FsInfo, win |-> disk[FsInfo], wflag |-> FALSE,
   last_clst |-> disk[FsInfo][0].last, free_clst |-> disk[FsInfo][0].free, fsi_flag |-> FALSE]

-----------------------------------------------------------------------------
(* What a volume holds, read with no window and no driver state.           *)

FatOf(disk, c) == disk[FatBase + c \div SS][c % SS].v

RECURSIVE Follow(_, _, _)
Follow(disk, c, seen) ==       \* the chain from c; 0 ends a broken one
  IF c \notin Clusters \/ \E i \in DOMAIN seen : seen[i] = c
  THEN IF c = EOC THEN seen ELSE Append(seen, 0)
  ELSE Follow(disk, FatOf(disk, c), Append(seen, c))

Chain(disk, c) == IF c = 0 THEN <<>> ELSE Follow(disk, c, <<>>)
Whole(chain) == \A i \in DOMAIN chain : chain[i] # 0

UnitOf(disk, chain, i) ==      \* unit i, from 0, of the object with this chain
  disk[clst2sect(chain[(i \div PerCluster) + 1]) + ((i % PerCluster) \div SS)][i % SS]

Table(disk, c) ==              \* the entries of a directory up to its end mark
  LET upto(all) == IF \E i \in DOMAIN all : all[i].k = "end"
                   THEN SubSeq(all, 1, (CHOOSE i \in DOMAIN all : /\ all[i].k = "end"
                                          /\ \A j \in 1 .. i - 1 : all[j].k # "end") - 1)
                   ELSE all
      units(ch) == IF ~Whole(ch) THEN <<>>
                   ELSE upto([i \in 1 .. Len(ch) * PerCluster |-> UnitOf(disk, ch, i - 1)])
  IN units(Chain(disk, IF c = 0 THEN Root ELSE c))

IsObject(e) == e.k = "sfn" /\ e.name \notin {".", ".."}
Named(tab, i, name) ==         \* entry i is what name names
  /\ IsObject(tab[i]) /\ tab[i].name = name
  /\ name \in LongNames => i > 1 /\ tab[i - 1].k = "lfn" /\ tab[i - 1].sum = <<name, tab[i].num>>

RECURSIVE Resolve(_, _, _)
Resolve(disk, c, path) ==      \* the entries path names below directory c
  LET below(hit) == IF Len(path) = 1 THEN hit
                    ELSE UNION {Resolve(disk, e.clust, Tail(path)) : e \in {x \in hit : x.attr = "dir"}}
      named(tab) == {tab[i] : i \in {j \in DOMAIN tab : Named(tab, j, Head(path))}}
  IN below(named(Table(disk, c)))

Absent   == [k |-> "absent", d |-> <<>>]
IsDir    == [k |-> "dir", d |-> <<>>]
Bytes(d) == [k |-> "file", d |-> d]
Any      == 0                  \* a byte no write has set

Value(u) == IF u.k = "data" THEN u.v ELSE Any
Matches(found, want) ==
  Len(found) = Len(want) /\ \A i \in DOMAIN want : want[i] \in {Any, found[i]}

Holds(disk, p) ==
  LET data(e, ch) == Bytes([i \in 1 .. e.size |-> Value(UnitOf(disk, ch, i - 1))])
      this(e) == IF e.attr = "dir" THEN IsDir ELSE data(e, Chain(disk, e.clust))
      entry(es) == IF es = {} THEN Absent ELSE this(CHOOSE x \in es : TRUE)
  IN entry(Resolve(disk, 0, p))

-----------------------------------------------------------------------------
(* Behaviours.  A call runs when the sectors of the one before it are on   *)
(* the card: disk_write returns only then, and the kernel has one thread.  *)

Paths == Files \cup Dirs

Format ==                      \* a fresh volume: the root is one empty cluster
  [s \in Sectors |->
     IF s = FsInfo THEN Filled([k |-> "fsi", free |-> NFatEnt - 3, last |-> Root])
     ELSE IF s \in FatBase .. DataBase - 1
     THEN [i \in 0 .. SS - 1 |->
             LET c == ((s - FatBase) % FSize) * SS + i
             IN Fat(IF c <= Root THEN EOC ELSE 0)]
     ELSE Filled(IF s \in DataBase .. DataBase + CSize - 1 THEN End ELSE Byte(Any))]

Init ==
  /\ card = Format /\ fs = f_mount(card)
  /\ fil = [p \in Files |-> Closed] /\ content = [p \in Paths |-> Absent]
  /\ ret = [op |-> "mount", path |-> <<>>, r |-> "ok", data |-> <<>>]
  /\ ops = 0 /\ crashes = 0 /\ torn = FALSE

Ready == fs.log = <<>> /\ ops < MaxOps /\ ~torn

Call(op, p, T, r, data) ==
  /\ fs' = T /\ ret' = [op |-> op, path |-> p, r |-> r, data |-> data]
  /\ ops' = ops + 1 /\ UNCHANGED <<card, crashes, torn>>

Open(p, create) ==
  /\ Ready /\ ~fil[p].open
  /\ \E o \in {f_open(fs, p, create)} :
       /\ Call("open", p, o.s, o.r, <<>>)
       /\ fil' = [fil EXCEPT ![p] = o.f]
       /\ content' = IF create /\ o.r = "ok" THEN [content EXCEPT ![p] = Bytes(<<>>)] ELSE content

Usable(p) == fil[p].open /\ ~fil[p].err

Read(p, n) ==
  /\ Ready /\ Usable(p)
  /\ \E o \in {f_read(fs, fil[p], n)} :
       /\ Call("read", p, o.s, o.r, [at |-> fil[p].fptr, n |-> n, got |-> o.data])
       /\ fil' = [fil EXCEPT ![p] = o.f] /\ UNCHANGED content

(* d with the bytes from at + 1 to at + n replaced by v; a gap is Any.     *)
Overlaid(d, at, n, v) ==
  [i \in 1 .. (IF at + n > Len(d) THEN at + n ELSE Len(d)) |->
     IF i \in at + 1 .. at + n THEN v ELSE IF i \in DOMAIN d THEN d[i] ELSE Any]

Write(p, n) ==
  /\ Ready /\ Usable(p)
  /\ \E o \in {f_write(fs, fil[p], n, Byte(ops + 1))} :
       /\ Call("write", p, o.s, o.r, [n |-> n, done |-> o.n])
       /\ fil' = [fil EXCEPT ![p] = o.f]
       /\ content' = [content EXCEPT ![p] = Bytes(Overlaid(@.d, fil[p].fptr, o.n, ops + 1))]

Close(p) ==
  /\ Ready /\ fil[p].open
  /\ \E o \in {f_close(fs, fil[p])} :
       /\ Call("close", p, o.s, "ok", <<>>)
       /\ fil' = [fil EXCEPT ![p] = o.f] /\ UNCHANGED content

Seek(p, to) ==
  /\ Ready /\ Usable(p)
  /\ \E o \in {f_lseek(fs, fil[p], to)} :
       /\ Call("lseek", p, o.s, o.r, [to |-> to, at |-> o.f.fptr])
       /\ fil' = [fil EXCEPT ![p] = o.f]
       /\ content' = [content EXCEPT ![p] = Bytes(Overlaid(@.d, o.f.fptr, 0, Any))]

Unlink(p) ==
  /\ Ready
  /\ p \in Files => ~fil[p].open
  /\ \E o \in {f_unlink(fs, p)} :
       /\ Call("unlink", p, o.s, o.r, <<>>)
       /\ content' = IF o.r = "ok" THEN [content EXCEPT ![p] = Absent] ELSE content
       /\ UNCHANGED fil

Mkdir(p) ==
  /\ Ready
  /\ \E o \in {f_mkdir(fs, p)} :
       /\ Call("mkdir", p, o.s, o.r, <<>>)
       /\ content' = IF o.r = "ok" THEN [content EXCEPT ![p] = IsDir] ELSE content
       /\ UNCHANGED fil

Stat(p) ==
  /\ Ready
  /\ \E o \in {follow_path(fs, p)} :
       /\ Call("stat", p, o.s, o.r, IF o.r = "ok" THEN <<At(o.s, o.dp)>> ELSE <<>>)
       /\ UNCHANGED <<fil, content>>

ReadDir(p) ==
  /\ Ready
  /\ \E d \in {f_opendir(fs, p)} :
       IF d.r # "ok" THEN Call("readdir", p, d.s, d.r, <<>>)
       ELSE \E o \in {f_readdir(d.s, d.dp, <<>>)} : Call("readdir", p, o.s, o.r, o.data)
  /\ UNCHANGED <<fil, content>>

(* The next sector the running call wrote reaches the card.                *)
WriteOut ==
  /\ fs.log # <<>>
  /\ card' = [card EXCEPT ![Head(fs.log).sect] = Head(fs.log).data]
  /\ fs' = [fs EXCEPT !.log = Tail(@)]
  /\ UNCHANGED <<fil, content, ret, ops, crashes, torn>>

(* A path whose contents the card must hold: it is not open with changes,  *)
(* nor the one whose call has sectors on their way.                        *)
Settled(p) ==
  /\ p \in Files => ~fil[p].modified
  /\ fs.log # <<>> => p # ret.path

DirChains(disk) ==
  LET tops == {0} \cup {e.clust : e \in UNION {Resolve(disk, 0, p) : p \in Dirs}}
  IN {Chain(disk, IF c = 0 THEN Root ELSE c) : c \in tops}

(* dir_next links a cluster to the table before dir_clear empties it: the  *)
(* table then holds whatever the cluster held before.                      *)
Stretching ==
  \E ch \in DirChains(card), i \in DOMAIN fs.log :
    /\ fs.log[i].data = Filled(End)
    /\ \E c \in Clusters, k \in 1 .. Len(ch) :
         ch[k] = c /\ fs.log[i].sect \in clst2sect(c) .. clst2sect(c) + CSize - 1

(* Power fails: the driver's memory is lost and the volume mounted again.  *)
PowerLoss ==
  /\ crashes < MaxCrashes
  /\ crashes' = crashes + 1 /\ torn' = (torn \/ Stretching)
  /\ fs' = f_mount(card) /\ fil' = [p \in Files |-> Closed]
  /\ content' = IF torn' THEN content
                ELSE [p \in Paths |-> IF Settled(p) THEN content[p] ELSE Holds(card, p)]
  /\ ret' = [op |-> "mount", path |-> <<>>, r |-> "ok", data |-> <<>>]
  /\ UNCHANGED <<card, ops>>

Next ==
  \/ \E p \in Files : \/ \E create \in BOOLEAN : Open(p, create)
                      \/ \E n \in Lengths : Read(p, n) \/ Write(p, n)
                      \/ \E to \in Offsets : Seek(p, to)
                      \/ Close(p)
  \/ \E p \in Paths : Unlink(p) \/ Stat(p)
  \/ \E p \in Dirs : Mkdir(p)
  \/ \E p \in Dirs \cup {<<>>} : ReadDir(p)
  \/ WriteOut \/ PowerLoss

Spec == Init /\ [][Next]_vars

-----------------------------------------------------------------------------
(* Properties.                                                             *)

(* The FIL, FATFS and volume keep their shapes: a file pointer is within   *)
(* its file and every sector the driver names is a sector of the volume.   *)
TypeOK ==
  /\ \A p \in Files : /\ fil[p].fptr \in 0 .. fil[p].objsize
                      /\ fil[p].sclust \in Clusters \cup {0} /\ fil[p].clust \in Clusters \cup {0}
                      /\ {fil[p].sect, fil[p].dir_sect} \subseteq Sectors
  /\ fs.winsect \in Sectors /\ DOMAIN fs.win = 0 .. SS - 1
  /\ DOMAIN card = Sectors /\ DOMAIN fs.disk = Sectors
  /\ ret.r \in {"ok", "no_file", "no_path", "denied", "exist"}

RECURSIVE Objects(_, _, _)
Objects(disk, c, depth) ==     \* every object at or below directory c
  LET tab  == Table(disk, c)
      here == {[dir |-> c, i |-> i, e |-> tab[i]] : i \in {j \in DOMAIN tab : IsObject(tab[j])}}
  IN here \cup (IF depth = 0 THEN {} ELSE
                UNION {Objects(disk, o.e.clust, depth - 1) : o \in {x \in here : x.e.attr = "dir"}})

InChain(ch) == {ch[i] : i \in DOMAIN ch}

SoundVolume(disk) ==
  LET objs == Objects(disk, 0, 2)
      ch(o) == Chain(disk, o.e.clust)
      root == Chain(disk, Root)
  IN /\ Whole(root)
     /\ \A d \in {0} \cup {o.e.clust : o \in {x \in objs : x.e.attr = "dir"}} :
          \A i \in DOMAIN Table(disk, d) : Table(disk, d)[i].k \in {"sfn", "lfn", "del"}
     /\ \A o \in objs : /\ Whole(ch(o)) /\ Len(ch(o)) * PerCluster >= o.e.size
                        /\ o.e.attr = "dir" => o.e.clust # 0
                        /\ InChain(ch(o)) \cap InChain(root) = {}
     /\ \A o1, o2 \in objs : o1 # o2 =>
          /\ InChain(ch(o1)) \cap InChain(ch(o2)) = {}
          /\ ~(o1.dir = o2.dir /\ o1.e.name = o2.e.name /\ o1.e.num = o2.e.num)

(* After every single sector write, and so after a loss of power at any    *)
(* point, the card holds a volume whose chains are whole, in use, long     *)
(* enough for their files and disjoint: ff.c orders its writes (a new      *)
(* cluster before the link to it, a removed entry before its chain is      *)
(* freed, an entry last).  The one exception is named by Stretching.       *)
(* The state has its type besides.                                         *)
VolumeSound == TypeOK /\ (torn \/ Stretching \/ SoundVolume(card))

(* What f_close or f_unlink has completed stays: while other calls run,    *)
(* and across a loss of power in the middle of them, the card holds every  *)
(* settled path exactly as it was left.                                    *)
CompletedStays ==
  torn \/ \A p \in Paths : Settled(p) =>
            LET h == Holds(card, p)
            IN h.k = content[p].k /\ Matches(h.d, content[p].d)

(* f_read returns the bytes last written at its position, all that were    *)
(* asked for up to the end of file, whichever mix of window, direct and    *)
(* growing-edge transfers wrote them.                                      *)
ReadsBack ==
  ret.op = "read" =>
    LET d == content[ret.path].d
        n == Smaller(ret.data.n, Len(d) - ret.data.at)
    IN /\ ret.r = "ok"
       /\ Matches([i \in DOMAIN ret.data.got |-> Value(ret.data.got[i])],
                  SubSeq(d, ret.data.at + 1, ret.data.at + n))



View(T) == [T.disk EXCEPT ![T.winsect] = IF T.wflag THEN T.win ELSE @]
FreeIn(disk) == {c \in Clusters : FatOf(disk, c) = 0}

(* Without a loss of power free_clst is the number of free clusters after  *)
(* every call, including the ones that fail half way: create_chain trusts  *)
(* it to refuse.                                                           *)
FreeCountExact == crashes = 0 => fs.free_clst = Cardinality(FreeIn(View(fs)))

(* The second FAT is the first one whenever no call is running.            *)
FatsAgree ==
  NFats = 2 => \A s \in FatBase .. FatBase + FSize - 1 : card[s] = card[s + FSize]

(* Without a loss of power no cluster is lost: when every file is closed   *)
(* the clusters in use are those of the objects, in both FATs.             *)
NoLostClusters ==
  crashes = 0 /\ fs.log = <<>> =>
    /\ FatsAgree
    /\ (\A p \in Files : ~fil[p].open) =>
         LET v == View(fs)
         IN Clusters \ FreeIn(v) = InChain(Chain(v, Root)) \cup
              UNION {InChain(Chain(v, o.e.clust)) : o \in Objects(v, 0, 2)}
=============================================================================

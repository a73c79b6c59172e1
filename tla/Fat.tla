-------------------------------- MODULE Fat ---------------------------------
(***************************************************************************)
(* The FAT32 volume below the directory level: the cluster allocator       *)
(* (fs/fat32/bitmap.rs), the contents of the files (fs/fat32/fat_inode.rs, *)
(* fat_osinode.rs) and the page cache between them and the disk            *)
(* (fs/cache.rs).                                                          *)
(*                                                                         *)
(* A file holds cells; CellsPerClus of them fill a cluster and ClusPerPage *)
(* clusters a page of the cache.  The cells a write stores carry the name  *)
(* of the file.  A frame that was never filled and a cluster that was freed *)
(* read as Junk.  The inode lock is held for the whole of a call, so a     *)
(* call is one step.                                                       *)
(***************************************************************************)
EXTENDS Integers, FiniteSets, SequencesExt

CONSTANTS Files, Zero, Junk, Absent,
          TotEnt,         \* tot_ent, the entries of the table the allocator scans
          FirstData,      \* entries below it are in use when the volume is mounted
          VacantMax,      \* VACANT_CLUS_CACHE_SIZE
          CellsPerClus, ClusPerPage,
          MaxSize,        \* bound on the size of a file
          MaxWrite,       \* cells one write stores at most
          MaxGrow,        \* clusters one call may ask for
          Holes,          \* may a write start past the end of the file
          Forgets,        \* may the tree let go of a node that was not deleted
          MayFill         \* may a call find too few free clusters

VARIABLES fat, vacant_clus, hint,      \* Fat
          disk,                        \* disk[c]: the cells of cluster c
          clus_list, size,             \* FileContent of each inode
          cache,                       \* cache[f]: the cached pages of f
          linked, opened               \* the directory tree and a descriptor hold the inode

vars == <<fat, vacant_clus, hint, disk, clus_list, size, cache, linked, opened>>

FREE == 0
EOC  == TotEnt
NoClus == 0          \* None; cluster 0 is never handed out
Data == FirstData..(TotEnt - 1)
PageCells == CellsPerClus * ClusPerPage
Live == linked \union opened

Init ==
  /\ fat = [c \in 0..(TotEnt - 1) |-> IF c < FirstData THEN EOC ELSE FREE]
  /\ vacant_clus = <<>> /\ hint = 0
  /\ disk = [c \in Data |-> [i \in 0..(CellsPerClus - 1) |-> Junk]]
  /\ clus_list = [f \in Files |-> <<>>] /\ size = [f \in Files |-> 0]
  /\ cache = [f \in Files |-> <<>>]
  /\ linked = {} /\ opened = {}

-----------------------------------------------------------------------------
\* The allocator: the volume after an operation.  last is the cluster the next
\* one is linked to, list what was handed out so far.

Volume == [fat |-> fat, vacant |-> vacant_clus, hint |-> hint]

set_next_clus(v, current, next) ==
  IF current = NoClus THEN v ELSE [v EXCEPT !.fat[current] = next]

\* Chains are walked until a free, bad or end mark; at most TotEnt links are
\* followed here.
get_all_clus_num(table, first) ==
  LET walk[k \in 0..TotEnt] ==
        IF k = 0 THEN <<first>>
        ELSE LET w == walk[k - 1] next == table[Last(w)] IN
             IF Len(w) < k \/ next = FREE \/ next >= EOC THEN w ELSE Append(w, next)
  IN walk[TotEnt]

FreeIn(table, S) == {c \in S : table[c] = FREE}

get_next_free_clus(table, start) ==
  LET up == FreeIn(table, start..(TotEnt - 1)) down == FreeIn(table, 0..(start - 1)) IN
  IF up # {} THEN Min(up) ELSE IF down # {} THEN Min(down) ELSE NoClus

\* The own entry of the cluster found stays FREE until the next one is linked.
alloc_one(v) ==
  LET popped == v.vacant # <<>>
      c == IF popped THEN Last(v.vacant) ELSE get_next_free_clus(v.fat, v.hint) IN
  IF c = NoClus THEN [v EXCEPT !.last = NoClus, !.failed = TRUE]
  ELSE [set_next_clus(v, v.last, c) EXCEPT
          !.vacant = IF popped THEN Front(@) ELSE @,
          !.hint = IF popped THEN @ ELSE (c + 1) % TotEnt,
          !.last = c, !.list = Append(@, c)]

\* The loop stops at the first failure, whose None also skips the end mark.
alloc(v, n, last) ==
  LET start == [fat |-> v.fat, vacant |-> v.vacant, hint |-> v.hint,
                last |-> last, list |-> <<>>, failed |-> FALSE]
      a[k \in 0..n] == IF k = 0 THEN start
                       ELSE IF a[k - 1].failed THEN a[k - 1] ELSE alloc_one(a[k - 1])
  IN set_next_clus(a[n], a[n].last, EOC)

\* free() mutated: the list that remains is not ended.
FreeKeepsLink(v, list, last) ==
  LET room == VacantMax - Len(v.vacant) IN
  [v EXCEPT !.fat = [c \in DOMAIN @ |-> IF c \in ToSet(list) THEN FREE ELSE @[c]],
            !.vacant = @ \o SubSeq(list, 1, IF room < Len(list) THEN room ELSE Len(list))]

free(v, list, last) ==
  LET room == VacantMax - Len(v.vacant) IN
  set_next_clus(
    [v EXCEPT !.fat = [c \in DOMAIN @ |-> IF c \in ToSet(list) THEN FREE ELSE @[c]],
              !.vacant = @ \o SubSeq(list, 1, IF room < Len(list) THEN room ELSE Len(list))],
    last, EOC)

LastClus(list) == IF list = <<>> THEN NoClus ELSE Last(list)

-----------------------------------------------------------------------------
\* Files: a record of the volume, the list and the cached pages of one of them.

total_clus(n) == (n + CellsPerClus - 1) \div CellsPerClus

alloc_clus(v, list, n) ==
  LET a == alloc(v, n, LastClus(list)) IN
  [fat |-> a.fat, vacant |-> a.vacant, hint |-> a.hint, list |-> list \o a.list]

dealloc_clus(v, list, n) ==
  LET k == IF n < Len(list) THEN n ELSE Len(list)
      rest == SubSeq(list, 1, Len(list) - k)
      w == free(v, Reverse(SubSeq(list, Len(list) - k + 1, Len(list))), LastClus(rest)) IN
  [fat |-> w.fat, vacant |-> w.vacant, hint |-> w.hint, list |-> rest]

Keep(pages, n) == [p \in {q \in DOMAIN pages : q < n} |-> pages[p]]
Pages(n) == (n + PageCells - 1) \div PageCells

\* notify_new_size() drops the pages past the end without writing them.
notify_new_size(pages, n) == Keep(pages, Pages(n))

\* Cell i of page p as read_in() finds it.  A page with no cluster behind it is
\* left as the frame was, and the rest of a partly backed one is zeroed.
DiskCell(list, p, i) ==
  LET k == p * ClusPerPage + i \div CellsPerClus IN
  IF k < Len(list) THEN disk[list[k + 1]][i % CellsPerClus]
  ELSE IF p * ClusPerPage < Len(list) THEN Zero ELSE Junk

read_in(list, p) == [i \in 0..(PageCells - 1) |-> DiskCell(list, p, i)]

get_cache(pages, list, p) == IF p \in DOMAIN pages THEN pages[p] ELSE read_in(list, p)

\* The pages after cells off..off+n-1 were read, or x was stored to them.
Access(pages, list, off, n, stored, x) ==
  LET touched == (off \div PageCells)..((off + n - 1) \div PageCells) IN
  [p \in DOMAIN pages \union touched |->
     LET page == get_cache(pages, list, p) IN
     IF ~stored \/ p \notin touched THEN page
     ELSE [i \in DOMAIN page |-> IF p * PageCells + i \in off..(off + n - 1) THEN x
                                ELSE page[i]]]

read_at(pages, list, off, n) == Access(pages, list, off, n, FALSE, Zero)
write_at(pages, list, off, n, x) == Access(pages, list, off, n, TRUE, x)
clear_at(pages, list, off, n) == Access(pages, list, off, n, TRUE, Zero)

\* The size changes to n whatever alloc() returned.
modify_size_lock(f, n, clear) ==
  LET grow == n > size[f]
      v == IF grow THEN alloc_clus(Volume, clus_list[f], total_clus(n) - total_clus(size[f]))
           ELSE dealloc_clus(Volume, clus_list[f], total_clus(size[f]) - total_clus(n)) IN
  [v |-> v,
   pages |-> IF ~grow THEN notify_new_size(cache[f], n)
             ELSE IF clear THEN clear_at(cache[f], v.list, size[f], n - size[f])
             ELSE cache[f]]

Becomes(f, v, pages, n) ==
  /\ fat' = v.fat /\ vacant_clus' = v.vacant /\ hint' = v.hint
  /\ clus_list' = [clus_list EXCEPT ![f] = v.list]
  /\ cache' = [cache EXCEPT ![f] = pages]
  /\ size' = [size EXCEPT ![f] = n]
  /\ disk' = [c \in Data |-> IF c \in ToSet(clus_list[f]) \ ToSet(v.list)
                             THEN [i \in DOMAIN disk[c] |-> Junk] ELSE disk[c]]

\* Bounds of the model on a call that takes file f to n cells.
Fits(f, n) ==
  LET k == total_clus(n) - total_clus(size[f]) IN
  n <= MaxSize /\ k <= MaxGrow /\ (MayFill \/ k <= Cardinality(FreeIn(fat, Data)))

-----------------------------------------------------------------------------
create(f) ==
  /\ f \notin Live
  /\ linked' = linked \union {f} /\ opened' = opened \union {f}
  /\ UNCHANGED <<fat, vacant_clus, hint, disk, clus_list, size, cache>>

open(f) ==
  /\ f \in linked \ opened /\ opened' = opened \union {f}
  /\ UNCHANGED <<fat, vacant_clus, hint, disk, clus_list, size, cache, linked>>

\* Reads fill the cache up to the end of the file.
read_user(f, off, n) ==
  /\ f \in opened /\ off + n <= size[f]
  /\ cache' = [cache EXCEPT ![f] = read_at(@, clus_list[f], off, n)]
  /\ UNCHANGED <<fat, vacant_clus, hint, disk, clus_list, size, linked, opened>>

write_user(f, off, n) ==
  LET end == IF off + n > size[f] THEN off + n ELSE size[f]
      m == IF off + n > size[f] THEN modify_size_lock(f, end, FALSE)
           ELSE [v |-> [fat |-> fat, vacant |-> vacant_clus, hint |-> hint,
                        list |-> clus_list[f]], pages |-> cache[f]] IN
  /\ f \in opened /\ Fits(f, end) /\ (Holes \/ off <= size[f])
  /\ Becomes(f, m.v, write_at(m.pages, m.v.list, off, n, f), end)
  /\ UNCHANGED <<linked, opened>>

truncate_size(f, n) ==
  LET m == modify_size_lock(f, n, TRUE) IN
  /\ f \in opened /\ Fits(f, n)
  /\ Becomes(f, m.v, m.pages, n)
  /\ UNCHANGED <<linked, opened>>

\* Drop of the inode mutated: the other holder is not waited for.
DropUnlinkedEarly(f, holders, deleted) ==
  Becomes(f, dealloc_clus(Volume, clus_list[f], Len(clus_list[f])), <<>>, 0)

\* Drop of the inode with its last holder.  The clusters of a deleted file are
\* freed.  The entry of any other is written back, but the new size and first
\* cluster are set in a copy of it: who reads the entry next finds those of the
\* time the file was made, and the pages were not written.
drop(f, holders, deleted) ==
  IF f \in holders THEN UNCHANGED <<fat, vacant_clus, hint, disk, clus_list, size, cache>>
  ELSE IF deleted
  THEN Becomes(f, dealloc_clus(Volume, clus_list[f], Len(clus_list[f])), <<>>, 0)
  ELSE /\ clus_list' = [clus_list EXCEPT ![f] = <<>>]
       /\ size' = [size EXCEPT ![f] = 0]
       /\ cache' = [cache EXCEPT ![f] = <<>>]
       /\ UNCHANGED <<fat, vacant_clus, hint, disk>>

\* The node of the file leaves the tree: unlink(), or, not deleted, a rename that
\* fails after it took the directory above from the tree.
unlink(f, deleted) ==
  /\ f \in linked /\ linked' = linked \ {f}
  /\ deleted \/ (Forgets /\ f \notin opened)
  /\ drop(f, opened, deleted)
  /\ UNCHANGED opened

close(f) ==
  /\ f \in opened /\ opened' = opened \ {f}
  /\ drop(f, linked, TRUE)
  /\ UNCHANGED linked

\* write_back() of the pages in S, over the clusters behind them now.
WriteBack(f, S) ==
  [c \in Data |->
     LET at == {k \in DOMAIN clus_list[f] :
                  clus_list[f][k] = c /\ (k - 1) \div ClusPerPage \in S} IN
     IF at = {} THEN disk[c]
     ELSE LET k == Max(at) - 1 IN
          [i \in 0..(CellsPerClus - 1) |->
             cache[f][k \div ClusPerPage][(k % ClusPerPage) * CellsPerClus + i]]]

oom(f, S) ==
  /\ f \in linked /\ S # {} /\ S \subseteq DOMAIN cache[f]
  /\ disk' = WriteBack(f, S)
  /\ cache' = [cache EXCEPT ![f] = [p \in DOMAIN @ \ S |-> @[p]]]
  /\ UNCHANGED <<fat, vacant_clus, hint, clus_list, size, linked, opened>>

Next == \E f \in Files :
  \/ create(f) \/ open(f) \/ close(f) \/ \E deleted \in BOOLEAN : unlink(f, deleted)
  \/ \E p \in 0..(Pages(MaxSize) - 1) : read_user(f, p * PageCells, 1)
  \/ \E off \in 0..MaxSize, n \in 1..MaxWrite : write_user(f, off, n)
  \/ \E n \in 0..MaxSize : truncate_size(f, n)
  \/ \E S \in SUBSET (0..(Pages(MaxSize) - 1)) : oom(f, S)

Spec == Init /\ [][Next]_vars

-----------------------------------------------------------------------------
Used(f) == ToSet(clus_list[f])

\* The chain the table stores for every file is the list its inode works with,
\* no cluster belongs to two files or twice to one, every cluster that is not
\* free belongs to a file, and the allocator's vacant clusters are free and
\* listed once: allocation, truncation, unlinking and the last close lose and
\* share nothing (bitmap.rs alloc and free, fat_inode.rs drop).
FatIsExact ==
  /\ \A f \in Live :
       /\ clus_list[f] # <<>> => get_all_clus_num(fat, clus_list[f][1]) = clus_list[f]
       /\ IsInjective(clus_list[f])
  /\ \A f, g \in Files : f # g => Used(f) \cap Used(g) = {}
  /\ {c \in Data : fat[c] # FREE} = UNION {Used(f) : f \in Files}
  /\ IsInjective(vacant_clus)
  /\ \A i \in DOMAIN vacant_clus : fat[vacant_clus[i]] = FREE

\* What a read of file f returns.
Contents(f) ==
  [i \in 1..size[f] |->
     LET p == (i - 1) \div PageCells IN
     IF p \in DOMAIN cache[f] THEN cache[f][p][(i - 1) % PageCells]
     ELSE DiskCell(clus_list[f], p, (i - 1) % PageCells)]

Promise == INSTANCE FileContents WITH
             content <- [f \in Files |-> IF f \in Live THEN Contents(f) ELSE Absent]

\* Reads return what the calls before them stored, whatever was cached, evicted
\* and allocated again in between: no cell of another file, of an earlier life
\* of a cluster or of an unfilled frame is ever read (fat_inode.rs
\* read_at_block_cache, write_at_block_cache_lock, modify_size_lock; cache.rs).
ImplementsFileContents == Promise!Spec
=============================================================================

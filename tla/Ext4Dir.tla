------------------------------ MODULE Ext4Dir ------------------------------
(***************************************************************************)
(* Directories of the ext4 driver (fs/ext4/direntry.rs, with link() of     *)
(* file.rs, unlink() of ext4fs.rs and the file object of layout.rs above   *)
(* them).  A directory is a list of blocks, a block a chain of entries     *)
(* laid out in words: the inode number, one word for the entry's length    *)
(* and the length of its name, and the words of the name.  The driver      *)
(* writes an entry as the whole 264-byte structure, of which the name is   *)
(* only the start: the copy covers Window words whatever the entry needs.  *)
(*                                                                         *)
(* There are two copies of a directory's inode: the one on the disk, and   *)
(* the one in the file object, which was read when the object was made.    *)
(* create() works on the first and unlink() on both.                       *)
(***************************************************************************)
EXTENDS Integers, Sequences, FiniteSets, FiniteSetsExt, SequencesExt

CONSTANTS Names,           \* names are numbers above 2: 1 is "." and 2 is ".."
          Words,           \* Words[n]: the words of the name n
          Room,            \* words of a block in front of its tail
          TailWords,       \* words of the tail
          Window,          \* words of an Ext4DirEntry
          MaxBlocks, MaxInodes, MaxDirs, MaxCreates,
          AnyCall          \* may a call be made that the code gets wrong

VARIABLES block,           \* block[b]: the words of the directory block b
          dir,             \* dir[d]: the blocks of directory d, by its inode on the
                           \*   disk and by the copy in its file object
          entries,         \* <<d, n, i>>: inode i has the name n in d
          created,         \* entries created so far
          halted           \* the kernel panicked or loops for ever

vars == <<block, dir, entries, created, halted>>

Root == 1
NoDir == [disk |-> <<>>, copy |-> <<>>]
Here == 1
Parent == 2
Base == Room + TailWords + 1    \* a length word holds len and name_len in base Base

Used == {Root} \union {e[3] : e \in entries}
IsDir(i) == dir[i] # NoDir

-----------------------------------------------------------------------------
\* Entries in a block.

inode(blk, o) == blk[o]
entry_len(blk, o) == blk[o + 1] \div Base
name_len(blk, o) == blk[o + 1] % Base
unused(blk, o) == inode(blk, o) = 0
compare_name(blk, o, n) == name_len(blk, o) = Words[n] /\ blk[o + 2] = n
required_len(n) == 2 + Words[n]

\* The structure is copied with its 255 bytes of name, zero behind the name.
copy_to_slice(blk, o, len, i, n) ==
  [w \in DOMAIN blk |->
     CASE w = o -> i
       [] w = o + 1 -> len * Base + Words[n]
       [] w \in (o + 2)..(o + 1 + Words[n]) -> n
       [] w \in (o + 2 + Words[n])..(o + Window - 1) -> 0
       [] OTHER -> blk[w]]

\* The offsets the loops over a block visit: to the tail, or to an entry of
\* length 0.  An entry that is longer than that takes three words at least.
Offsets(blk) ==
  LET at[k \in 0..(Room \div 3)] ==
        IF k = 0 THEN {0}
        ELSE LET seen == at[k - 1] o == Max(seen) len == entry_len(blk, o) IN
             IF len = 0 \/ o + len >= Room THEN seen ELSE seen \union {o + len}
  IN at[Room \div 3]

\* dir_find_in_block() returns the first of these.
dir_find_in_block(blk, n) == {o \in Offsets(blk) : ~unused(blk, o) /\ compare_name(blk, o, n)}

\* The first block of those of a directory with an entry n, and its place.
dir_find_entry(blks, n) ==
  LET hits == {k \in DOMAIN blks : dir_find_in_block(block[blks[k]], n) # {}}
      b == blks[Min(hits)]
      off == Min(dir_find_in_block(block[b], n)) IN
  IF hits = {} THEN [found |-> FALSE, block |-> 0, offset |-> 0, prev |-> 0]
  ELSE [found |-> TRUE, block |-> b, offset |-> off,
        prev |-> Max({0} \union {o \in Offsets(block[b]) : o < off})]

dir_get_entries(blks) ==
  LET listed(blk) ==
        LET used == {o \in Offsets(blk) : ~unused(blk, o)}
            live == SelectSeq([w \in 1..Room |-> w - 1], LAMBDA o : o \in used)
        IN [j \in DOMAIN live |-> <<blk[live[j] + 2], inode(blk, live[j])>>]
      upto[k \in 0..Len(blks)] ==
        IF k = 0 THEN <<>> ELSE upto[k - 1] \o listed(block[blks[k]])
  IN upto[Len(blks)]

\* dir_has_entry() does not check for a length of 0, and stays there.
dir_has_entry(blks) == \E e \in ToSet(dir_get_entries(blks)) : e[1] \notin {Here, Parent}
Stays(blks) == \E k \in DOMAIN blks :
  /\ ~dir_has_entry(SubSeq(blks, 1, k))
  /\ \E o \in Offsets(block[blks[k]]) : entry_len(block[blks[k]], o) = 0

\* What the entry at o leaves for a new one, and where: all of it when unused.
Start(blk, o) == IF unused(blk, o) THEN o ELSE o + 2 + name_len(blk, o)
Space(blk, o) == o + entry_len(blk, o) - Start(blk, o)
Fits(blk, n) == {o \in Offsets(blk) : entry_len(blk, o) >= 2 /\ Space(blk, o) >= required_len(n)}

\* try_insert_to_existing_block() mutated: the entry in front keeps its length.
InsertsUnlinked(blk, n, i) ==
  LET o == Min(Fits(blk, n)) at == Start(blk, o) IN copy_to_slice(blk, at, Space(blk, o), i, n)

\* The entry in front is cut to what it uses, and the rest is the new entry's.
try_insert_to_existing_block(blk, n, i) ==
  LET o == Min(Fits(blk, n)) at == Start(blk, o)
      cut == IF at = o THEN blk
             ELSE [blk EXCEPT ![o + 1] = (at - o) * Base + name_len(blk, o)] IN
  copy_to_slice(cut, at, Space(blk, o), i, n)

insert_to_new_block(blk, n, i) == copy_to_slice(blk, 0, Room, i, n)

\* dir_add_entry() on the blocks blks: the first block with room takes the
\* entry, or one more block, not of those that are busy, is allocated, mapped
\* and written back.
dir_add_entry(store, busy, blks, n, i) ==
  LET roomy == {k \in DOMAIN blks : Fits(store[blks[k]], n) # {}}
      b == blks[Min(roomy)]
      new == Min(DOMAIN store \ busy) IN
  IF roomy # {}
  THEN [store |-> [store EXCEPT ![b] = try_insert_to_existing_block(@, n, i)],
        blks |-> blks, full |-> FALSE]
  ELSE IF DOMAIN store = busy THEN [store |-> store, blks |-> blks, full |-> TRUE]
  ELSE [store |-> [store EXCEPT ![new] = insert_to_new_block(@, n, i)],
        blks |-> Append(blks, new), full |-> FALSE]

Busy == UNION {ToSet(dir[d].disk) \union ToSet(dir[d].copy) : d \in DOMAIN dir}

\* The calls the code gets right: a copy of an entry that stays in the space
\* found for it, or in the block when nothing follows.
Harmless(blks, n) ==
  LET roomy == {k \in DOMAIN blks : Fits(block[blks[k]], n) # {}}
      blk == block[blks[Min(roomy)]]
      o == Min(Fits(blk, n)) IN
  roomy # {} => \/ Space(blk, o) >= Window
                \/ /\ o + entry_len(blk, o) = Room
                   /\ Start(blk, o) + Window <= Room + TailWords

-----------------------------------------------------------------------------
Init ==
  LET empty == [w \in 0..(Room + TailWords - 1) |-> 0]
      one == copy_to_slice(empty, 0, 3, Root, Here) IN
  /\ block = [b \in 1..MaxBlocks |->
                IF b = 1 THEN copy_to_slice(one, 3, Room - 3, Root, Parent) ELSE empty]
  /\ dir = [i \in 1..MaxInodes |-> IF i = Root THEN [disk |-> <<1>>, copy |-> <<1>>] ELSE NoDir]
  /\ entries = {} /\ created = 0 /\ halted = FALSE

\* link(): the entry in the parent, and "." and ".." of a new directory, whose
\* ".." is itself.  A failure leaves what was written, and create() panics.
create(d, n, is_dir) ==
  LET i == Min(DOMAIN dir \ Used)
      up == dir_add_entry(block, Busy, dir[d].disk, n, i)
      busy == Busy \union ToSet(up.blks)
      here == dir_add_entry(up.store, busy, <<>>, Here, i)
      both == dir_add_entry(here.store, busy, here.blks, Parent, i)
      full == up.full \/ (is_dir /\ here.full) IN
  /\ IsDir(d) /\ \A e \in entries : <<e[1], e[2]>> # <<d, n>>
  /\ DOMAIN dir # Used /\ created < MaxCreates
  /\ is_dir => Cardinality({e \in DOMAIN dir : IsDir(e)}) < MaxDirs
  /\ AnyCall \/ Harmless(dir[d].disk, n)
  /\ halted' = full
  /\ block' = IF is_dir /\ ~full THEN both.store ELSE up.store
  /\ dir' = [dir EXCEPT ![d].disk = up.blks,
                        ![i] = IF is_dir /\ ~full
                               THEN [disk |-> both.blks, copy |-> both.blks] ELSE NoDir]
  /\ entries' = entries \union {<<d, n, i>>}
  /\ created' = created + 1

\* dir_remove_entry(): the entry in front takes over the length, which is the
\* entry itself when it is the first of its block.
Removed(at) ==
  LET blk == block[at.block]
      wide == [blk EXCEPT ![at.prev + 1] = @ + entry_len(blk, at.offset) * Base] IN
  [block EXCEPT ![at.block] = [wide EXCEPT ![at.offset] = 0]]

\* Again the calls the code gets right: an entry that is not the first of its
\* block, in a directory whose file object is up to date.
Careful(d, n) ==
  /\ dir_find_entry(dir[d].disk, n).offset # 0
  /\ dir[d].copy = dir[d].disk

\* The file object's unlink(): a directory must be empty; the entry goes, the
\* inode is freed, and the copy of the parent's inode is written back.
unlink(d, n, i) ==
  LET at == dir_find_entry(dir[d].disk, n) IN
  /\ <<d, n, i>> \in entries
  /\ AnyCall \/ Careful(d, n)
  /\ halted' = (IsDir(i) /\ Stays(dir[i].disk))
  /\ IF halted' \/ (IsDir(i) /\ dir_has_entry(dir[i].disk)) \/ ~at.found
     THEN UNCHANGED <<block, dir, entries>>
     ELSE /\ block' = Removed(at)
          /\ dir' = [dir EXCEPT ![d].disk = dir[d].copy, ![i] = NoDir]
          /\ entries' = entries \ {<<d, n, i>>}
  /\ UNCHANGED created

\* The two calls rename() makes: unlink(false), and link_child() on the other
\* parent, which adds to the copy in its file object.
link_child(d, n, i, e) ==
  LET at == dir_find_entry(dir[d].disk, n)
      gone == Removed(at)
      back == [dir EXCEPT ![d].disk = dir[d].copy]
      down == dir_add_entry(gone, Busy, back[e].copy, n, i) IN
  /\ <<d, n, i>> \in entries /\ IsDir(e) /\ e # d /\ ~IsDir(i)
  /\ \A x \in entries : <<x[1], x[2]>> # <<e, n>>
  /\ AnyCall \/ (Careful(d, n) /\ Harmless(dir[e].copy, n) /\ dir[e].copy = dir[e].disk)
  /\ at.found
  /\ block' = down.store
  /\ dir' = IF down.blks = back[e].copy THEN back
            ELSE [back EXCEPT ![e] = [disk |-> down.blks, copy |-> down.blks]]
  /\ entries' = (entries \ {<<d, n, i>>}) \union IF down.full THEN {} ELSE {<<e, n, i>>}
  /\ UNCHANGED <<created, halted>>

\* A file object that was dropped, at a restart or for want of memory, is made
\* again from the disk.
open_subfile(d) ==
  /\ IsDir(d) /\ dir[d].copy # dir[d].disk
  /\ dir' = [dir EXCEPT ![d].copy = dir[d].disk]
  /\ UNCHANGED <<block, entries, created, halted>>

Next ==
  /\ ~halted
  /\ \/ \E d \in DOMAIN dir :
          open_subfile(d) \/ \E n \in Names, is_dir \in BOOLEAN : create(d, n, is_dir)
     \/ \E x \in entries :
          unlink(x[1], x[2], x[3]) \/ \E e \in DOMAIN dir : link_child(x[1], x[2], x[3], e)

Spec == Init /\ [][Next]_vars

-----------------------------------------------------------------------------
\* A directory lists exactly the names it was given and not relieved of, each
\* once and for its inode, behind "." and "..", whatever room removals left
\* between the entries and however many blocks it grew to (direntry.rs
\* try_insert_to_existing_block, dir_remove_entry).
DirIsExact ==
  ~halted => \A d \in DOMAIN dir : IsDir(d) =>
    LET all == dir_get_entries(dir[d].disk) IN
    /\ IsInjective(all)
    /\ {all[j] : j \in {k \in DOMAIN all : all[k][1] \notin {Here, Parent}}}
         = {<<x[2], x[3]>> : x \in {e \in entries : e[1] = d}}
    /\ {Here, Parent} \subseteq {all[j][1] : j \in DOMAIN all}
=============================================================================

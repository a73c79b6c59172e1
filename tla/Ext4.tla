-------------------------------- MODULE Ext4 --------------------------------
(***************************************************************************)
(* Files of the ext4 driver: the extent tree of an inode                   *)
(* (fs/ext4/extent.rs), reading and writing at an offset (file.rs,         *)
(* ext4_inode.rs), and the file object with its page cache above them      *)
(* (layout.rs), over the allocation of blocks and inodes (bitmap.rs,       *)
(* balloc.rs, ialloc.rs, block_group.rs, superblock.rs).  Directory blocks *)
(* are the subject of Ext4Dir; here a directory is its names.              *)
(*                                                                         *)
(* The allocator is operators on a volume: what the bitmaps, the group     *)
(* descriptors and the superblock hold on disk.  Every one of them is      *)
(* written through, so a volume is also what a restart finds.  A bitmap is *)
(* the set of its bits that are set.  Group and block numbers start at 0   *)
(* and inode numbers at 1; first_data_block is 0, as on every volume whose *)
(* blocks are larger than 1 KiB.                                           *)
(*                                                                         *)
(* A block holds BlockCells cells and a page of the cache one block.  The  *)
(* cells a write stores carry the name of the file; a block nobody wrote   *)
(* reads as Junk.  The driver is synchronous and its calls do not give up  *)
(* the processor, so a call is one step.                                   *)
(***************************************************************************)
EXTENDS Integers, FiniteSetsExt, SequencesExt

CONSTANTS Files, Zero, Junk,
          Groups,                \* block_group_count()
          PerGroup,              \* blocks_per_group, the bits of a bitmap block
          InodesPerGroup,
          Word, Byte,            \* 64 and 8: the strides of the two bitmap searches
          BlockCells,
          RootMax, LeafMax,      \* extents in an inode (4) and in a block
          InitMaxLen,            \* EXT_INIT_MAX_LEN
          Wrap16,                \* 2^16
          Reserved,              \* Reserved[g]: the bits of group g in use at mkfs
          ReservedInodes,        \* inodes of group 0 in use at mkfs
          MaxSize, MaxWrite,     \* bounds on a file and on one write
          MaxInodes, MaxMounts,  \* bounds on the inodes created and on restarts
          Departures             \* the calls, normally none, that break a property:
                                 \* "spans", "hole", "truncate", "unlink_before",
                                 \* "full_leaf", "no_space"

VARIABLES volume, mounted,       \* the volume, and the superblock read at mount
          disk,                  \* disk[b]: the cells of block b
          inode,                 \* inode[n]: the inode table
          names,                 \* names[f]: the inode number of f, or 0
          file,                  \* file[f]: the Ext4OSInode: its copy of the inode, its pages
          want,                  \* the contents the calls so far ask for
          created,               \* inodes created so far
          halted                 \* the kernel panicked or ran out of stack

vars == <<volume, mounted, disk, inode, names, file, want, created, halted>>

MayCall(name) == name \in Departures

-----------------------------------------------------------------------------
\* Allocation.

NoBlock == -1              \* Err(ENOSPC)
Bits == 0..(PerGroup - 1)

get_bgid_of_block(baddr) == baddr \div PerGroup
addr_to_idx_bg(baddr) == baddr % PerGroup
bg_idx_to_addr(index, bgid) == PerGroup * bgid + index

\* ext4_bmap_bit_find_clr() mutated: sbit is reported for every byte.
FindsStart(bmap, sbit, ebit) ==
  IF {b \in sbit..(ebit - 1) : b \notin bmap} = {} THEN NoBlock ELSE sbit

\* The first clear bit of sbit..ebit-1.  Before the first byte boundary the
\* search reports sbit itself, set or not.
ext4_bmap_bit_find_clr(bmap, sbit, ebit) ==
  LET clear == {b \in sbit..(ebit - 1) : b \notin bmap}
      aligned == ((sbit + Byte - 1) \div Byte) * Byte IN
  IF clear = {} THEN NoBlock
  ELSE IF Min(clear) < aligned THEN sbit ELSE Min(clear)

\* Clears start..end, both included.
ext4_bmap_bits_free(bmap, start, end) == bmap \ (start..end)

\* The superblock is copied from the one read at mount time every time.
update_free_block_counts(v, sb, bgid) ==
  [v EXCEPT !.super.blocks = sb.blocks - 1, !.free[bgid] = @ - 1]

\* The bit one group gives: the goal, one near it, or any after it.
SearchGroup(bmap, idx) ==
  LET near == {b \in (idx + 1)..(Min({((idx + Word - 1) \div Word) * Word, PerGroup}) - 1) :
                 b \notin bmap} IN
  IF idx \notin bmap THEN idx
  ELSE IF near # {} THEN Min(near)
  ELSE ext4_bmap_bit_find_clr(bmap, idx, PerGroup)

\* Searching from group bgid: the groups in turn, each from the same index.
\* bits[g] is what group g would give.
TakeBit(v, sb, g, bit) ==
  [block |-> bg_idx_to_addr(bit, g), bgid |-> g,
   v |-> update_free_block_counts([v EXCEPT !.bmap[g] = @ \union {bit}], sb, g)]

TakeFrom(v, sb, bgid, bits) ==
  IF \A g \in DOMAIN bits : bits[g] = NoBlock
  THEN [block |-> NoBlock, bgid |-> bgid, v |-> v]
  ELSE LET k == Min({j \in 0..(Groups - 1) : bits[(bgid + j) % Groups] # NoBlock})
           g == (bgid + k) % Groups IN TakeBit(v, sb, g, bits[g])

AllocFrom(v, sb, bgid, idx) ==
  TakeFrom(v, sb, bgid, [g \in 0..(Groups - 1) |->
                           IF v.free[g] = 0 THEN NoBlock ELSE SearchGroup(v.bmap[g], idx)])

\* The callers pass no goal, and the search starts in group 1: there are at
\* least two groups.
balloc_alloc_block(v, sb) == AllocFrom(v, sb, 1, 0)

balloc_alloc_block_from(v, sb, start_bgid) == AllocFrom(v, sb, start_bgid, 0)

\* count blocks from start on.  Every round works on the group of the first
\* block, clears up to the bit *numbered* free_cnt, and adds free_cnt to the
\* copy of the superblock it started with.  A bit past the bitmap panics.
balloc_free_blocks(v, sb, start, count) ==
  LET g == get_bgid_of_block(start)
      rounds == get_bgid_of_block(start + count - 1) - g + 1
      after[k \in 0..rounds] ==
        IF k = 0 THEN [v |-> [v EXCEPT !.super.blocks = sb.blocks],
                       start |-> start, count |-> count, panic |-> FALSE]
        ELSE LET r == after[k - 1]
                 idx == addr_to_idx_bg(r.start)
                 n == Min({r.count, PerGroup - idx}) IN
             IF r.panic THEN r
             ELSE [v |-> [r.v EXCEPT !.bmap[g] = ext4_bmap_bits_free(@, idx, n),
                                     !.super.blocks = @ + n, !.free[g] = @ + n],
                   start |-> r.start + n, count |-> r.count - n,
                   panic |-> idx <= n /\ n >= PerGroup]
  IN IF rounds <= 0 \/ g >= Groups THEN [v |-> v, panic |-> FALSE] ELSE after[rounds]

-----------------------------------------------------------------------------
\* With no free inode in any group the search never ends.
NoInodes(v) == \A g \in 0..(Groups - 1) : v.ifree[g] = 0

\* The result of the bitmap search is not looked at: when every bit is set the
\* first inode of the group is handed out again.  The directory count is
\* stored over the count of unused inodes.
ialloc_alloc_inode(v, sb, is_dir) ==
  LET g == Min({h \in 0..(Groups - 1) : v.ifree[h] # 0})
      clear == ext4_bmap_bit_find_clr(v.imap[g], 0, InodesPerGroup)
      idx == IF clear = NoBlock THEN 0 ELSE clear
      unused == IF is_dir THEN v.dirs[g] + 1 ELSE v.unused[g] IN
  [inode |-> g * InodesPerGroup + idx + 1,
   v |-> [v EXCEPT !.imap[g] = @ \union {idx}, !.ifree[g] = @ - 1,
                   !.unused[g] = IF idx >= InodesPerGroup - unused
                                 THEN InodesPerGroup - (idx + 1) ELSE unused,
                   !.super.inodes = sb.inodes - 1]]

get_bgid_of_inode(inode_num) == inode_num \div InodesPerGroup
inode_to_bgidx(inode_num) == inode_num % InodesPerGroup

\* The bit cleared is the one of the inode after inode_num.
ialloc_free_inode(v, sb, inode_num, is_dir) ==
  LET g == get_bgid_of_inode(inode_num) IN
  [v EXCEPT !.imap[g] = @ \ {inode_to_bgidx(inode_num)}, !.ifree[g] = @ + 1,
            !.unused[g] = IF is_dir THEN v.dirs[g] - 1 ELSE @,
            !.super.inodes = sb.inodes - 1]

-----------------------------------------------------------------------------
\* Files.

VolumeBlocks == 0..(Groups * PerGroup - 1)
InodeNumbers == 1..(Groups * InodesPerGroup)
\* extent_tree_init(): depth 0, no entry.  leaf is the block the extents moved
\* to, 0 while they are in the inode.  An index node has never more than one
\* entry, so the tree is a chain and depth 1 the deepest that is of use.
EmptyInode == [size |-> 0, extents |-> <<>>, leaf |-> 0]

NoFile == [inode |-> 0, dir |-> FALSE, copy |-> EmptyInode, pages |-> <<>>]
Page(x) == [i \in 0..(BlockCells - 1) |-> x]

Init ==
  /\ volume = [bmap |-> Reserved,
               free |-> [g \in 0..(Groups - 1) |-> PerGroup - Cardinality(Reserved[g])],
               imap |-> [g \in 0..(Groups - 1) |->
                           IF g = 0 THEN 0..(ReservedInodes - 1) ELSE {}],
               ifree |-> [g \in 0..(Groups - 1) |->
                            InodesPerGroup - (IF g = 0 THEN ReservedInodes ELSE 0)],
               unused |-> [g \in 0..(Groups - 1) |-> 0],
               dirs |-> [g \in 0..(Groups - 1) |-> 1],
               super |-> [blocks |-> 0, inodes |-> 0]]
  /\ mounted = [blocks |-> 0, inodes |-> 0]
  /\ disk = [b \in VolumeBlocks |-> Page(Junk)]
  /\ inode = [n \in InodeNumbers |-> EmptyInode]
  /\ names = [f \in Files |-> 0]
  /\ file = [f \in Files |-> NoFile]
  /\ want = [f \in Files |-> <<>>]
  /\ created = 0 /\ halted = FALSE

-----------------------------------------------------------------------------
\* The extent tree.

\* binsearch_extent(): the last extent that starts at or before lblock, the
\* first one if none does.
binsearch_extent(extents, lblock) ==
  Max({1} \union {i \in DOMAIN extents : i > 1 /\ extents[i].first <= lblock})

\* find_extent(): the extent at the leaf of the search path.  An empty root is
\* read as an extent of zeroes.
find_extent(ino, lblock) ==
  IF ino.extents = <<>> THEN [first |-> 0, len |-> 0, pblock |-> 0]
  ELSE ino.extents[binsearch_extent(ino.extents, lblock)]

\* The physical block of a logical one, wherever its extent ends.
get_pblock_idx(ino, lblock) ==
  LET ex == find_extent(ino, lblock) IN lblock - ex.first + ex.pblock

can_merge(ex1, ex2) ==
  /\ ex1.first + ex1.len = ex2.first
  /\ ex1.len + ex2.len <= InitMaxLen
  /\ ex1.pblock + ex1.len = ex2.pblock

merge_extent(ino, pos, newex) == [ino EXCEPT !.extents[pos].len = @ + newex.len]

\* One past the position found: an append for every caller, who all insert at
\* the end of the file.
insert_new_extent(ino, newex) == [ino EXCEPT !.extents = Append(@, newex)]

\* The four root entries move to a new block, and the root becomes an index.
\* When there is no block for it the failure is not looked at.
ext_grow_indepth(s) ==
  LET a == balloc_alloc_block(s.v, mounted) IN
  IF a.block = NoBlock THEN s
  ELSE [s EXCEPT !.v = a.v, !.ino.leaf = a.block]

\* The tree is grown and the extent inserted again.  When that gained no room,
\* because the leaf is full or there was no block, the two functions call each
\* other for ever and the stack overflows.
create_new_leaf(s, newex) ==
  LET grown == ext_grow_indepth(s) IN
  IF s.ino.leaf # 0 \/ grown = s THEN [s EXCEPT !.halted = TRUE]
  ELSE [grown EXCEPT !.ino = insert_new_extent(@, newex)]

\* insert_extent() on the state s of a call.
insert_extent(s, newex) ==
  LET pos == binsearch_extent(s.ino.extents, newex.first)
      room == IF s.ino.leaf = 0 THEN RootMax ELSE LeafMax IN
  IF s.ino.extents = <<>> THEN [s EXCEPT !.ino = insert_new_extent(@, newex)]
  ELSE IF can_merge(s.ino.extents[pos], newex)
       THEN [s EXCEPT !.ino = merge_extent(@, pos, newex)]
  ELSE IF Len(s.ino.extents) < room THEN [s EXCEPT !.ino = insert_new_extent(@, newex)]
  ELSE create_new_leaf(s, newex)

CeilBlocks(size) == (size + BlockCells - 1) \div BlockCells

\* The block a allocated goes behind the last block of the file, and a whole
\* block is added to the size.
AppendBlock(s, a) ==
  LET t == insert_extent([s EXCEPT !.v = a.v, !.bgid = a.bgid],
                         [first |-> CeilBlocks(s.ino.size), len |-> 1, pblock |-> a.block]) IN
  IF a.block = NoBlock THEN [s EXCEPT !.err = TRUE]
  ELSE [t EXCEPT !.ino.size = @ + BlockCells, !.pblock = a.block]

append_inode_pblk(s) == AppendBlock(s, balloc_alloc_block(s.v, mounted))
append_inode_pblk_from(s) == AppendBlock(s, balloc_alloc_block_from(s.v, mounted, s.bgid))

-----------------------------------------------------------------------------
\* write_at(): s is the state of the call, its copy of the inode included.

Begin(n) == [num |-> n, v |-> volume, ino |-> inode[n], disk |-> disk, bgid |-> 1, pblock |-> 0,
             idx |-> 0, written |-> 0, start |-> 0, count |-> 0,
             err |-> FALSE, halted |-> FALSE]

\* The block of iblk_idx: the one mapped, or a new one behind the file.
Locate(s, blocks) ==
  IF s.idx < blocks THEN [s EXCEPT !.pblock = get_pblock_idx(s.ino, s.idx)]
  ELSE append_inode_pblk_from(s)

Store(d, b, from, n, x) ==
  [d EXCEPT ![b] = [i \in DOMAIN @ |-> IF i \in from..(from + n - 1) THEN x ELSE @[i]]]

\* UnalignedWrite() mutated: the cells go to the start of the block.
UnalignedAtStart(s, t, un, n, x) ==
  LET k == Min({n, BlockCells - un}) IN
  IF un = 0 THEN s
  ELSE IF t.err \/ t.halted THEN t
  ELSE [t EXCEPT !.disk = Store(@, t.pblock, 0, k, x), !.written = k, !.idx = @ + 1]

\* t is s with its block located.
UnalignedWrite(s, t, un, n, x) ==
  LET k == Min({n, BlockCells - un}) IN
  IF un = 0 THEN s
  ELSE IF t.err \/ t.halted THEN t
  ELSE [t EXCEPT !.disk = Store(@, t.pblock, un, k, x), !.written = k, !.idx = @ + 1]

\* The run of blocks collected is written; each takes a block's worth of cells.
WriteRun(s, n, x) ==
  LET after[k \in 0..s.count] ==
        IF k = 0 THEN s
        ELSE LET r == after[k - 1] size == Min({BlockCells, n - r.written}) IN
             [r EXCEPT !.disk = Store(@, s.start + k - 1, 0, size, x), !.written = @ + size]
  IN [after[s.count] EXCEPT !.start = 0, !.count = 0]

\* One round of the inner loop, or the end of it.  A block that does not follow
\* the run ends it before iblk_idx is advanced: a block that was appended for
\* it stays behind the file, and the next round appends another.
AlignedRound(s, t, last, n, x) ==
  LET first == IF t.start = 0 THEN t.pblock ELSE t.start IN
  IF s.idx >= last THEN WriteRun(s, n, x)
  ELSE IF t.err \/ t.halted THEN t
  ELSE IF first + t.count # t.pblock THEN WriteRun([t EXCEPT !.start = first], n, x)
  ELSE [t EXCEPT !.start = first, !.count = @ + 1, !.idx = @ + 1]

\* Enough rounds for a write of MaxWrite cells.
Rounds == 3 * CeilBlocks(MaxWrite) + 3

\* The rounds after the unaligned cells left the call in head.
WriteBlocks(head, old, off, len, x) ==
  LET run[k \in 0..Rounds] ==
        LET r == run[k - 1] IN
        IF k = 0 THEN head
        ELSE IF r.written >= len \/ r.err \/ r.halted THEN r
        ELSE AlignedRound(r, Locate(r, CeilBlocks(old)), CeilBlocks(off + len), len, x)
  IN run[Rounds]

Grown(s, end) ==
  IF s.err \/ s.halted \/ end <= inode[s.num].size THEN s ELSE [s EXCEPT !.ino.size = end]

write_at(n, off, len, x) ==
  LET s == [Begin(n) EXCEPT !.idx = off \div BlockCells]
      old == inode[n].size
      head == UnalignedWrite(s, Locate(s, CeilBlocks(old)), off % BlockCells, len, x)
  IN Grown(WriteBlocks(head, old, off, len, x), off + len)

-----------------------------------------------------------------------------
\* The file object.

\* A page with no block behind it is left as its frame was.
get_cache(pages, ino, d, p) ==
  LET b == get_pblock_idx(ino, p) IN
  IF p \in DOMAIN pages THEN pages[p]
  ELSE IF p < CeilBlocks(ino.size) /\ b \in VolumeBlocks THEN d[b] ELSE Page(Junk)

\* The pages of off..end-1, the first one even when that is nothing.
Touched(off, end) == (off \div BlockCells)..Max({off \div BlockCells, (end - 1) \div BlockCells})

\* The pages after cells off..off+n-1, as far as the file goes, were read or
\* overwritten.
read_at_block_cache(pages, ino, d, off, n) ==
  [p \in DOMAIN pages \union Touched(off, Min({off + n, ino.size})) |->
     get_cache(pages, ino, d, p)]

update_block_cache(pages, ino, d, off, n, x) ==
  LET end == Min({off + n, ino.size}) IN
  [p \in DOMAIN pages \union Touched(off, end) |->
     LET page == get_cache(pages, ino, d, p) IN
     [i \in DOMAIN page |-> IF p * BlockCells + i \in off..(end - 1) THEN x ELSE page[i]]]

\* The state of a call that found a free inode and initialised it.
create_inode(a) == [Begin(a.inode) EXCEPT !.v = a.v, !.ino = EmptyInode]

\* The inode is written and named.  The first block of a directory takes its
\* two entries.
Named(f, is_dir, s) ==
  /\ halted' = (s.err \/ s.halted)     \* panic!() in the file object
  /\ volume' = s.v
  /\ inode' = [inode EXCEPT ![s.num] = s.ino]
  /\ names' = [names EXCEPT ![f] = s.num]
  /\ file' = [file EXCEPT ![f] = [inode |-> s.num, dir |-> is_dir, copy |-> s.ino,
                                  pages |-> <<>>]]
  /\ disk' = IF is_dir THEN [disk EXCEPT ![s.pblock] = Page(f)] ELSE disk
  /\ want' = [want EXCEPT ![f] = IF is_dir THEN [i \in 1..BlockCells |-> f] ELSE <<>>]
  /\ created' = created + 1

create(f, is_dir) ==
  LET fresh == create_inode(ialloc_alloc_inode(volume, mounted, is_dir)) IN
  /\ names[f] = 0 /\ file[f] = NoFile
  /\ created < MaxInodes
  /\ IF NoInodes(volume)
     THEN /\ halted' = TRUE       \* searches for ever
          /\ UNCHANGED <<volume, inode, disk, names, file, want, created>>
     ELSE \E s \in {IF is_dir THEN append_inode_pblk(fresh) ELSE fresh} :
            (MayCall("no_space") \/ ~s.err) /\ Named(f, is_dir, s)
  /\ UNCHANGED mounted

\* The writes that are made: lseek() lets an offset be past the end, the bound of
\* the model is MaxSize.
MayWrite(f, off, n) ==
  /\ off + n <= MaxSize
  /\ MayCall("hole") \/ off <= file[f].copy.size
  /\ MayCall("spans") \/ CeilBlocks(off + n) - CeilBlocks(off) <= 1

\* cells with those after the end, up to a new one, zeroed.
Padded(cells, size) == [i \in 1..size |-> IF i <= Len(cells) THEN cells[i] ELSE Zero]

Written(f, off, n, s) ==
  /\ volume' = s.v /\ disk' = s.disk
  /\ inode' = [inode EXCEPT ![s.num] = s.ino]
  /\ halted' = s.halted
  /\ file' = [file EXCEPT ![f].copy = s.ino,
                          ![f].pages = update_block_cache(@, s.ino, s.disk, off, n, f)]
  /\ want' = IF s.err THEN want
             ELSE [want EXCEPT ![f] =
                     LET old == Padded(@, Max({Len(@), off + n})) IN
                     [i \in DOMAIN old |-> IF i \in (off + 1)..(off + n) THEN f ELSE old[i]]]
  /\ UNCHANGED <<mounted, names, created>>

write_user(f, off, n) ==
  /\ file[f] # NoFile /\ ~file[f].dir /\ MayWrite(f, off, n)
  /\ \E s \in {write_at(file[f].inode, off, n, f)} :
       (MayCall("full_leaf") \/ ~s.halted) /\ Written(f, off, n, s)

read_user(f, off, n) ==
  /\ file[f] # NoFile /\ off < file[f].copy.size
  /\ file' = [file EXCEPT ![f].pages = read_at_block_cache(@, file[f].copy, disk, off, n)]
  /\ UNCHANGED <<volume, mounted, disk, inode, names, want, created, halted>>

\* The blocks of the last extent from block from on are freed: Wrap16 less the
\* gap when from is behind its end.
ext_remove_leaf(ino, from) ==
  LET ex == find_extent(ino, from) gap == from - ex.first - ex.len IN
  balloc_free_blocks(volume, mounted, ex.pblock + from - ex.first, (Wrap16 - gap) % Wrap16)

\* What changes in the extents is a copy that is dropped.
extent_remove_space(ino, from) ==
  IF ino.extents = <<>> THEN [v |-> volume, panic |-> FALSE] ELSE ext_remove_leaf(ino, from)

\* A smaller size is ignored.  A larger one that needs blocks subtracts the two
\* counts the wrong way round, and the space "behind" the new end is removed.
truncate_inode(old, n) ==
  IF n > old.size /\ CeilBlocks(n) # CeilBlocks(old.size)
  THEN extent_remove_space(old, CeilBlocks(n))
  ELSE [v |-> volume, panic |-> FALSE]

truncate_size(f, n) ==
  LET old == file[f].copy
      r == truncate_inode(old, n)
      new == [old EXCEPT !.size = Max({@, n})] IN
  /\ file[f] # NoFile /\ ~file[f].dir /\ (MayCall("truncate") \/ n = old.size)
  /\ volume' = r.v /\ halted' = r.panic
  /\ inode' = [inode EXCEPT ![file[f].inode] = new]
  /\ file' = [file EXCEPT ![f].copy = new]
  /\ want' = [want EXCEPT ![f] = Padded(@, n)]
  /\ UNCHANGED <<mounted, disk, names, created>>

\* The blocks are not freed: truncation to 0 is ignored as well.
unlink(f) ==
  LET num == names[f] IN
  /\ num # 0
  /\ MayCall("unlink_before") \/ \A g \in Files : file[g].inode # num + 1
  /\ volume' = ialloc_free_inode(volume, mounted, num, file[f].dir)
  /\ names' = [names EXCEPT ![f] = 0]
  /\ UNCHANGED <<mounted, disk, inode, file, want, created, halted>>

\* The last descriptor of an unlinked file.
drop(f) ==
  /\ names[f] = 0 /\ file[f] # NoFile
  /\ file' = [file EXCEPT ![f] = NoFile]
  /\ want' = [want EXCEPT ![f] = <<>>]
  /\ UNCHANGED <<volume, mounted, disk, inode, names, created, halted>>

\* A restart, or a crash between two calls: the caches are gone.
open_ext4rs ==
  /\ mounted.blocks > -MaxMounts /\ mounted.inodes > -MaxMounts
  /\ mounted' = volume.super
  /\ file' = [f \in Files |-> IF names[f] = 0 THEN NoFile
                              ELSE [file[f] EXCEPT !.copy = inode[names[f]], !.pages = <<>>]]
  /\ want' = [f \in Files |-> IF names[f] = 0 THEN <<>> ELSE want[f]]
  /\ UNCHANGED <<volume, disk, inode, names, created, halted>>

Next ==
  /\ ~halted
  /\ \/ \E f \in Files :
          \/ \E is_dir \in BOOLEAN : create(f, is_dir)
          \/ \E off \in 0..MaxSize, n \in 1..MaxWrite : write_user(f, off, n)
          \/ \E off \in 0..MaxSize : read_user(f, off, 1)
          \/ \E n \in 0..MaxSize : truncate_size(f, n)
          \/ unlink(f) \/ drop(f)
     \/ open_ext4rs

Spec == Init /\ [][Next]_vars

-----------------------------------------------------------------------------
\* The blocks of an inode, its leaf included, each as often as it is mapped.
Mapped(ino) ==
  LET run(x) == [k \in 1..x.len |-> x.pblock + k - 1]
      upto[i \in 0..Len(ino.extents)] ==
        IF i = 0 THEN <<>> ELSE upto[i - 1] \o run(ino.extents[i])
  IN upto[Len(ino.extents)]
BlocksOf(ino) == Mapped(ino) \o IF ino.leaf = 0 THEN <<>> ELSE <<ino.leaf>>

Holders == {f \in Files : file[f] # NoFile}

\* Every file has an inode of its own and blocks of its own: the extents cover
\* the file from its first block on without a gap or an overlap, no block is
\* mapped twice, in one file or in two, or holds an extent node as well, none
\* is one the volume was made with, and the bitmaps have all of them in use:
\* whatever was appended by interleaved writers, however the tree grew, and the
\* kernel neither panics nor runs out of stack
\* (balloc.rs, ialloc.rs, extent.rs insert_extent and ext_grow_indepth).
TreesAreExact ==
  /\ ~halted
  /\ \A f, g \in Holders : f # g => file[f].inode # file[g].inode
  /\ \A f \in Holders :
       LET ino == inode[file[f].inode] m == BlocksOf(ino) IN
       /\ \A i \in DOMAIN ino.extents :
            ino.extents[i].first = IF i = 1 THEN 0
                                   ELSE ino.extents[i - 1].first + ino.extents[i - 1].len
       /\ Len(Mapped(ino)) = CeilBlocks(ino.size)
       /\ IsInjective(m)
       /\ \A b \in ToSet(m) : LET g == get_bgid_of_block(b) IN
            addr_to_idx_bg(b) \in volume.bmap[g] \ Reserved[g]
       /\ \A h \in Holders \ {f} : ToSet(m) \cap ToSet(BlocksOf(inode[file[h].inode])) = {}

\* What a read of f returns, through the cache and after a restart.
Cached(f) == [i \in 1..file[f].copy.size |->
  get_cache(file[f].pages, file[f].copy, disk, (i - 1) \div BlockCells)[(i - 1) % BlockCells]]
OnDisk(f) == [i \in 1..inode[file[f].inode].size |->
  get_cache(<<>>, inode[file[f].inode], disk, (i - 1) \div BlockCells)[(i - 1) % BlockCells]]

\* A file reads as the writes so far left it, both through the page cache and
\* from the disk after the cache is gone: write_user() stores the same cells
\* behind the cache as in it (file.rs write_at, layout.rs write_user and
\* update_block_cache).
ContentsAreKept == \A f \in Holders : Cached(f) = want[f] /\ OnDisk(f) = want[f]
=============================================================================

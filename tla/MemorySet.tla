----------------------------- MODULE MemorySet ------------------------------
(***************************************************************************)
(* Anonymous memory: the address spaces of mm/memory_set.rs and the areas  *)
(* of mm/map_area.rs with their lazily allocated, copy-on-write pages, on  *)
(* top of the frame allocator, the compressed store and the swap area, and *)
(* the reclaim that moves pages out to them when frames run short.         *)
(*                                                                         *)
(* Every space has a heap area, pages 1..HeapPages, and may have an mmap   *)
(* area, the other pages; both are readable and writable.  The kernel runs *)
(* a fault, a fork or a copy to user memory to its end, and `call` says    *)
(* how far it is; reclaim takes a step per page.  An Arc is shared by the  *)
(* pages whose Frame names the same place, and is dropped with the last.   *)
(* Frames of page tables and trap contexts, file-backed areas, mprotect    *)
(* and the splitting and merging of areas are left out.                    *)
(***************************************************************************)
EXTENDS Naturals, Sequences, Functions, FiniteSetsExt

-----------------------------------------------------------------------------
\* Vec::pop: what it returns and what it leaves.
Top(v) == v[Len(v)]
Popped(v) == SubSeq(v, 1, Len(v) - 1)

\* The three places a page can be in, as values: an operation takes the record
\* of a store and yields the record after it.
\*
\* StackFrameAllocator, the record [current, end, recycled]: the frames from the
\* first one up to current have been handed out once, recycled is the stack of
\* those given back.

frames_init(l, r) == [current |-> l, end |-> r, recycled |-> <<>>]

unallocated_frames(a) == a.end - a.current + Len(a.recycled)

CanAlloc(a) == a.recycled # <<>> \/ a.current # a.end

\* The frame alloc() and alloc_uninit() return.
Ppn(a) == IF a.recycled # <<>> THEN Top(a.recycled) ELSE a.current

\* alloc() mutated: the frame stays on the stack.
AllocKeepsTop(a) == IF a.recycled # <<>> THEN a ELSE [a EXCEPT !.current = @ + 1]

alloc(a) == IF a.recycled # <<>> THEN [a EXCEPT !.recycled = Popped(@)]
            ELSE [a EXCEPT !.current = @ + 1]

\* It panics on a frame that is not out: see FramesAreOwned.
dealloc(a, ppn) == [a EXCEPT !.recycled = Append(@, ppn)]

\* The frames that are out, of an allocator whose first frame is l.
Out(a, l) == (l..(a.current - 1)) \ Range(a.recycled)

-----------------------------------------------------------------------------
\* Zram, the record [compressed, recycled, tail]: slots below tail are in use or
\* on the stack recycled; giving back the slot just below tail lowers tail.

zram_new(capacity, empty) ==
  [compressed |-> [i \in 0..(capacity - 1) |-> empty], recycled |-> <<>>, tail |-> 0]

\* lz4_flex: the content in another form, and back.
compress_prepend_size(x) == [lz4 |-> x]
decompress_size_prepended(c) == c.lz4

HasSpace(z) == z.recycled # <<>> \/ z.tail \in DOMAIN z.compressed

\* The slot insert() uses.
ZramId(z) == IF z.recycled # <<>> THEN Top(z.recycled) ELSE z.tail

\* write(), with insert().
zram_write(z, x) ==
  [compressed |-> [z.compressed EXCEPT ![ZramId(z)] = compress_prepend_size(x)],
   recycled |-> IF z.recycled # <<>> THEN Popped(z.recycled) ELSE z.recycled,
   tail |-> IF z.recycled # <<>> THEN z.tail ELSE z.tail + 1]

zram_read(z, id) == decompress_size_prepended(z.compressed[id])

\* discard() mutated: a slot at the end is recycled as well.
DiscardTwice(z, id, empty) ==
  [compressed |-> [z.compressed EXCEPT ![id] = empty],
   recycled |-> Append(z.recycled, id),
   tail |-> IF id = z.tail - 1 THEN id ELSE z.tail]

\* discard(), with remove().
zram_discard(z, id, empty) ==
  [compressed |-> [z.compressed EXCEPT ![id] = empty],
   recycled |-> IF id = z.tail - 1 THEN z.recycled ELSE Append(z.recycled, id),
   tail |-> IF id = z.tail - 1 THEN id ELSE z.tail]

-----------------------------------------------------------------------------
\* Swap, the record [bitmap, blocks]: bitmap is the set of the pages of the swap
\* area in use.  An area the file system gave no blocks for has none.

swap_new(pages, zero) == [bitmap |-> {}, blocks |-> [i \in 0..(pages - 1) |-> zero]]

Free(s) == DOMAIN s.blocks \ s.bitmap

\* The lowest clear bit.
alloc_page(s) == Min(Free(s))

\* write() mutated: the bit is not set.
WriteSetsNoBit(s, x) == [s EXCEPT !.blocks[alloc_page(s)] = x]

swap_write(s, x) == [bitmap |-> s.bitmap \cup {alloc_page(s)},
                     blocks |-> [s.blocks EXCEPT ![alloc_page(s)] = x]]

swap_read(s, id) == s.blocks[id]

swap_discard(s, id) == [s EXCEPT !.bitmap = @ \ {id}]

-----------------------------------------------------------------------------
CONSTANTS Spaces,
          NPages, HeapPages,     \* pages of a space, and of its heap
          NFrames, ZramSlots, SwapPages,
          Values, Zero,          \* contents of a page; that of a zeroed one
          Reserve,               \* frames set aside before a fault or a fork
          Buffers,               \* buffers handed to the kernel: sequences of pages
          SharedBuffers,         \* whether some are on pages still shared after a fork
          Absent                 \* no value: an empty zram slot, an unmapped page

ASSUME MemoryAssumption ==
  /\ NPages \in Nat /\ HeapPages \in 1..NPages /\ NFrames \in Nat
  /\ ZramSlots \in Nat /\ SwapPages \in Nat /\ Reserve \in Nat
  /\ Zero \in Values /\ Absent \notin Values
  /\ \A x \in Values : compress_prepend_size(x) # Absent
  /\ Buffers \subseteq Seq(1..NPages) \ {<<>>} /\ SharedBuffers \in BOOLEAN

VARIABLES frame_allocator, ram,   \* FRAME_ALLOCATOR and what is in the frames
          zram, swap,             \* ZRAM_DEVICE and SWAP_DEVICE
          areas,                  \* the areas of a space; a dead space has none
          frames,                 \* Frame of every page
          pte,                    \* page table entry of every page
          active,                 \* LinearMap::active of every area
          call                    \* what the kernel is doing

devices == <<frame_allocator, ram, zram, swap>>
tables == <<areas, frames, pte, active>>
vars == <<devices, tables, call>>

Pages == 1..NPages
PagesOf(a) == IF a = "heap" THEN 1..HeapPages ELSE (HeapPages + 1)..NPages
AreaOf(p) == IF p \in PagesOf("heap") THEN "heap" ELSE "mmap"

\* Frame.
Unallocated == [at |-> "none", id |-> 0]
InMemory(ppn) == [at |-> "ram", id |-> ppn]
Compressed(zram_id) == [at |-> "zram", id |-> zram_id]
SwappedOut(swap_id) == [at |-> "swap", id |-> swap_id]

Entry(ppn, w) == [ppn |-> ppn, w |-> w]
Unmapped == [ppn |-> NFrames, w |-> FALSE]
Mapped(s, p) == pte[s][p] # Unmapped
NoPages == [p \in Pages |-> Unallocated]
NoEntries == [p \in Pages |-> Unmapped]
NoActive == [a \in {"heap", "mmap"} |-> <<>>]

Living == {s \in Spaces : areas[s] # {}}
Owners(f) == {o \in Spaces \X Pages : frames[o[1]][o[2]] = f}
Sole(f) == \E o \in Owners(f) : Owners(f) = {o}   \* Arc::strong_count(f) == 1

Idle == [op |-> "idle"]

Init ==
  /\ frame_allocator = frames_init(0, NFrames)
  /\ ram = [f \in 0..(NFrames - 1) |-> Zero]
  /\ zram = zram_new(ZramSlots, Absent)
  /\ swap = swap_new(SwapPages, Zero)
  /\ \E s \in Spaces : areas = [t \in Spaces |-> IF t = s THEN {"heap"} ELSE {}]
  /\ frames = [s \in Spaces |-> NoPages]
  /\ pte = [s \in Spaces |-> NoEntries]
  /\ active = [s \in Spaces |-> NoActive]
  /\ call = Idle

-----------------------------------------------------------------------------
\* Making room: oom_handler() and do_oom().

\* do_shallow_clean() or do_deep_clean() of space s, in step k of the handler:
\* 1 the caller's own space, 2 deep for sleeping tasks, 3 shallow for ready ones.
Visit(s, k) == [space |-> s, step |-> k]
NoVisit == [space |-> Absent, step |-> 4]

\* frame_reserve(): the call c goes on at once, or after oom_handler().  (The
\* file caches, which the handler empties first, are not part of this model.)
frame_reserve(c) ==
  LET remain == unallocated_frames(frame_allocator) IN
  call' = IF remain >= Reserve THEN c
          ELSE [c EXCEPT !.need = Reserve - remain, !.visit = Visit(c.space, 1)]

Request(op, s, pages) ==
  [op |-> op, space |-> s, todo |-> pages, slices |-> <<>>, arg |-> Zero,
   stage |-> "reserved", need |-> 0, visit |-> NoVisit, again |-> FALSE]

Reclaiming == call.op \in {"fault", "copy", "fork"} /\ call.visit # NoVisit
Now == call.visit
Reclaims(a) == /\ Reclaiming
               /\ IF Now.step = 2 /\ active[Now.space]["heap"] # <<>> THEN a = "heap"
                  ELSE a = "mmap" /\ active[Now.space]["mmap"] # <<>>
Locked == IF call.again THEN {call.space} ELSE {}
Released == call' = [call EXCEPT !.need = IF @ = 0 THEN 0 ELSE @ - 1]

\* MoveOut mutated: the page table entry stays.
MoveOutKeepsEntry(s, p, f) ==
  /\ frames' = [frames EXCEPT ![s][p] = f]
  /\ frame_allocator' = IF Sole(frames[s][p])
                        THEN dealloc(frame_allocator, frames[s][p].id)
                        ELSE frame_allocator
  /\ Released
  /\ UNCHANGED <<ram, areas, pte>>

\* The page leaves its frame for f; the frame is given back by its last owner.
MoveOut(s, p, f) ==
  /\ frames' = [frames EXCEPT ![s][p] = f]
  /\ pte' = [pte EXCEPT ![s][p] = Unmapped]
  /\ frame_allocator' = IF Sole(frames[s][p])
                        THEN dealloc(frame_allocator, frames[s][p].id)
                        ELSE frame_allocator
  /\ Released
  /\ UNCHANGED <<ram, areas>>

\* Whether zip() and swap_out() move a page out at all.
MayMove(f) == f.at = "ram" /\ Sole(f)

\* A round of MapArea::do_oom(): compress the page, else swap it out; a page
\* that cannot be moved is dropped from active all the same.
do_oom ==
  /\ Reclaims("mmap")
  /\ LET s == Now.space
         p == Head(active[s]["mmap"])
         f == frames[s][p]
     IN /\ active' = [active EXCEPT ![s]["mmap"] = Tail(@)]
        /\ \/ /\ MayMove(f) /\ HasSpace(zram)
              /\ zram' = zram_write(zram, ram[f.id])
              /\ MoveOut(s, p, Compressed(ZramId(zram)))
              /\ UNCHANGED swap
           \/ /\ MayMove(f) /\ ~HasSpace(zram) /\ Free(swap) # {}
              /\ swap' = swap_write(swap, ram[f.id])
              /\ MoveOut(s, p, SwappedOut(alloc_page(swap)))
              /\ UNCHANGED zram
           \/ /\ MayMove(f) => ~HasSpace(zram) /\ Free(swap) = {}
              /\ UNCHANGED <<devices, areas, frames, pte, call>>

\* A round of force_swap(): shared or not, the page goes to the swap area.
force_swap ==
  /\ Reclaims("heap")
  /\ LET s == Now.space
         p == Head(active[s]["heap"])
         f == frames[s][p]
     IN /\ active' = [active EXCEPT ![s]["heap"] = Tail(@)]
        /\ \/ /\ f.at = "ram" /\ Free(swap) # {}
              /\ swap' = swap_write(swap, ram[f.id])
              /\ MoveOut(s, p, SwappedOut(alloc_page(swap)))
              /\ UNCHANGED zram
           \/ /\ f.at # "ram" \/ Free(swap) = {}
              /\ UNCHANGED <<devices, areas, frames, pte, call>>

\* The visit is over.  do_oom() goes on with the tasks that ran since they were
\* last visited, which may be of any space, those sleeping first; it stops when
\* enough is released or no such task is left.
NextVisit ==
  /\ Reclaiming /\ ~Reclaims("heap") /\ ~Reclaims("mmap")
  /\ \/ call' = [call EXCEPT !.visit = NoVisit]
     \/ /\ call.need > 0
        /\ \E s \in Living \ Locked, k \in {2, 3} :
             /\ k >= Now.step /\ Visit(s, k) # Now
             /\ call' = [call EXCEPT !.visit = Visit(s, k)]
  /\ UNCHANGED <<devices, tables>>

-----------------------------------------------------------------------------
\* The page fault: do_page_fault() and what it calls.

Running == call.op \in {"fault", "copy"} /\ call.stage = "reserved"
           /\ call.visit = NoVisit
Faulting == Head(call.todo)
Here == frames[call.space][Faulting]

\* The page is found at ppn: the faulting program goes on, a copy has its slice.
Resolve(ppn) ==
  call' = IF call.op = "fault" THEN Idle
          ELSE [call EXCEPT !.stage = "translate", !.again = FALSE, !.todo = Tail(@),
                            !.slices = Append(@, [page |-> Faulting, ppn |-> ppn])]

\* retain() of the other pages; a page is in active once at most.
Without(q, p) ==
  IF p \notin Range(q) THEN q
  ELSE LET i == CHOOSE k \in DOMAIN q : q[k] = p
       IN  SubSeq(q, 1, i - 1) \o SubSeq(q, i + 1, Len(q))

\* The page is in memory at ppn, mapped with the permissions of its area, and
\* last in active.
MapTo(ppn) ==
  LET s == call.space
      p == Faulting
  IN /\ frames' = [frames EXCEPT ![s][p] = InMemory(ppn)]
     /\ pte' = [pte EXCEPT ![s][p] = Entry(ppn, TRUE)]
     /\ active' = [active EXCEPT ![s][AreaOf(p)] = Append(Without(@, p), p)]
     /\ Resolve(ppn)
     /\ UNCHANGED areas

\* A frame with content x.
TakeFrame(x) ==
  /\ CanAlloc(frame_allocator)
  /\ frame_allocator' = alloc(frame_allocator)
  /\ ram' = [ram EXCEPT ![Ppn(frame_allocator)] = x]
  /\ MapTo(Ppn(frame_allocator))

map_one_zeroed ==
  /\ Running /\ ~Mapped(call.space, Faulting) /\ Here = Unallocated
  /\ TakeFrame(Zero)
  /\ UNCHANGED <<zram, swap>>

unzip ==
  /\ Running /\ ~Mapped(call.space, Faulting) /\ Here.at = "zram"
  /\ TakeFrame(zram_read(zram, Here.id))
  /\ zram' = IF Sole(Here) THEN zram_discard(zram, Here.id, Absent) ELSE zram
  /\ UNCHANGED swap

swap_in ==
  /\ Running /\ ~Mapped(call.space, Faulting) /\ Here.at = "swap"
  /\ TakeFrame(swap_read(swap, Here.id))
  /\ swap' = IF Sole(Here) THEN swap_discard(swap, Here.id) ELSE swap
  /\ UNCHANGED zram

\* copy_on_write() of a page nobody else has.  A call that had to wait for a
\* frame has made up its mind before.
AllowWrite ==
  /\ Running /\ Mapped(call.space, Faulting)
  /\ Sole(Here) /\ ~call.again
  /\ MapTo(Here.id)
  /\ UNCHANGED devices

copy_on_write ==
  /\ Running /\ Mapped(call.space, Faulting)
  /\ ~Sole(Here) \/ call.again
  /\ CanAlloc(frame_allocator)
  /\ LET new == Ppn(frame_allocator)
         rest == alloc(frame_allocator)
     IN /\ ram' = [ram EXCEPT ![new] = ram[Here.id]]
        /\ frame_allocator' = IF Sole(Here) THEN dealloc(rest, Here.id) ELSE rest
        /\ MapTo(new)
  /\ UNCHANGED <<zram, swap>>

AskAgain(v) == call' = [call EXCEPT !.again = TRUE, !.need = 1, !.visit = v]

\* frame_alloc() without a frame left: it reclaims once more, from the other
\* spaces, for the faulting one is locked.  If that does not help, the fault of
\* a fresh page fails and the others unwrap a None.
Exhausted ==
  /\ Running /\ ~CanAlloc(frame_allocator)
  /\ ~(Mapped(call.space, Faulting) /\ Sole(Here) /\ ~call.again)
  /\ IF ~call.again
     THEN \/ AskAgain(NoVisit)
          \/ \E s \in Living \ {call.space}, k \in {2, 3} : AskAgain(Visit(s, k))
     ELSE call' = IF Here = Unallocated THEN Idle ELSE [op |-> "panic"]
  /\ UNCHANGED <<devices, tables>>

-----------------------------------------------------------------------------
\* What programs do.

\* A store to a writable page.
Store(s, p, x) ==
  /\ call = Idle /\ pte[s][p].w
  /\ ram' = [ram EXCEPT ![pte[s][p].ppn] = x]
  /\ UNCHANGED <<frame_allocator, zram, swap, tables, call>>

\* Any access to an unmapped page, or a store to one that is not writable.
Fault(s, p) ==
  /\ call = Idle /\ AreaOf(p) \in areas[s] /\ ~pte[s][p].w
  /\ frame_reserve(Request("fault", s, <<p>>))
  /\ UNCHANGED <<devices, tables>>

\* A system call copies x to a buffer: translated_byte_buffer() finds the
\* frames of its pages, faulting in those that are not mapped, and the slices
\* it returns are written afterwards.
copy_to_user(s, b, x) ==
  /\ call = Idle
  /\ \A i \in DOMAIN b : /\ AreaOf(b[i]) \in areas[s]
                         /\ SharedBuffers \/ ~Mapped(s, b[i]) \/ pte[s][b[i]].w
  /\ call' = [Request("copy", s, b) EXCEPT !.stage = "translate", !.arg = x]
  /\ UNCHANGED <<devices, tables>>

Translating == call.op = "copy" /\ call.stage = "translate" /\ call.todo # <<>>

translated_byte_buffer ==
  /\ Translating
  /\ IF Mapped(call.space, Faulting) THEN Resolve(pte[call.space][Faulting].ppn)
     ELSE frame_reserve([call EXCEPT !.stage = "reserved"])
  /\ UNCHANGED <<devices, tables>>

WriteSlice ==
  /\ call.op = "copy" /\ call.todo = <<>>
  /\ ram' = [ram EXCEPT ![Head(call.slices).ppn] = call.arg]
  /\ call' = IF Len(call.slices) = 1 THEN Idle ELSE [call EXCEPT !.slices = Tail(@)]
  /\ UNCHANGED <<frame_allocator, zram, swap, tables>>

Fork(s, c) ==
  /\ call = Idle /\ s \in Living /\ c \notin Living
  /\ frame_reserve([Request("fork", s, <<>>) EXCEPT !.arg = c])
  /\ UNCHANGED <<devices, tables>>

ReadOnly(es) == [p \in Pages |-> [es[p] EXCEPT !.w = FALSE]]

\* Fork mutated: the parent keeps its write permissions.
ForkKeepsWrite ==
  /\ call.op = "fork" /\ call.visit = NoVisit
  /\ LET s == call.space
         c == call.arg
     IN /\ areas' = [areas EXCEPT ![c] = areas[s]]
        /\ frames' = [frames EXCEPT ![c] = frames[s]]
        /\ pte' = [pte EXCEPT ![c] = ReadOnly(pte[s])]
        /\ active' = [active EXCEPT ![c] = active[s]]
  /\ call' = Idle
  /\ UNCHANGED devices

\* from_existing_user() clones the areas with the Arcs of their pages, and
\* map_from_existing_page_table() revokes W on both sides.
from_existing_user ==
  /\ call.op = "fork" /\ call.visit = NoVisit
  /\ LET s == call.space
         c == call.arg
     IN /\ areas' = [areas EXCEPT ![c] = areas[s]]
        /\ frames' = [frames EXCEPT ![c] = frames[s]]
        /\ pte' = [pte EXCEPT ![s] = ReadOnly(pte[s]), ![c] = ReadOnly(pte[s])]
        /\ active' = [active EXCEPT ![c] = active[s]]
  /\ call' = Idle
  /\ UNCHANGED devices

\* The areas in A go, and with them the Arcs of their pages, one after the other.
DropAreas(s, A) ==
  /\ areas' = [areas EXCEPT ![s] = @ \ A]
  /\ active' = [active EXCEPT ![s] = [a \in DOMAIN @ |-> IF a \in A THEN <<>> ELSE @[a]]]
  /\ call' = [op |-> "drop", space |-> s, left |-> UNION {PagesOf(a) : a \in A}]
  /\ UNCHANGED <<devices, frames, pte>>

munmap(s) == call = Idle /\ "mmap" \in areas[s] /\ DropAreas(s, {"mmap"})

\* recycle_data_pages(), by the last thread of a process; one process stays.
Exit(s) == call = Idle /\ s \in Living /\ Living # {s} /\ DropAreas(s, areas[s])

\* The next page that is left loses its entry and its Arc, and the last owner of
\* an Arc gives the place back.
DropPage ==
  /\ call.op = "drop" /\ call.left # {}
  /\ LET s == call.space
         p == Min(call.left)
         f == frames[s][p]
         last == Sole(f)
     IN /\ frames' = [frames EXCEPT ![s][p] = Unallocated]
        /\ pte' = [pte EXCEPT ![s][p] = Unmapped]
        /\ frame_allocator' = IF f.at = "ram" /\ last THEN dealloc(frame_allocator, f.id)
                              ELSE frame_allocator
        /\ zram' = IF f.at = "zram" /\ last THEN zram_discard(zram, f.id, Absent) ELSE zram
        /\ swap' = IF f.at = "swap" /\ last THEN swap_discard(swap, f.id) ELSE swap
        /\ call' = [call EXCEPT !.left = @ \ {p}]
  /\ UNCHANGED <<ram, areas, active>>

Dropped == call.op = "drop" /\ call.left = {} /\ call' = Idle /\ UNCHANGED <<devices, tables>>

mmap(s) ==
  /\ call = Idle /\ s \in Living /\ "mmap" \notin areas[s]
  /\ areas' = [areas EXCEPT ![s] = @ \cup {"mmap"}]
  /\ UNCHANGED <<devices, frames, pte, active, call>>

\* A panic stops the machine.
Halted == call = [op |-> "panic"] /\ UNCHANGED vars

PageFault == \/ map_one_zeroed \/ unzip \/ swap_in \/ AllowWrite \/ copy_on_write
             \/ Exhausted

Next ==
  \/ do_oom \/ force_swap \/ NextVisit
  \/ PageFault
  \/ translated_byte_buffer \/ WriteSlice \/ from_existing_user
  \/ DropPage \/ Dropped
  \/ Halted
  \/ \E s \in Spaces :
       \/ \E p \in Pages : Fault(s, p) \/ \E x \in Values : Store(s, p, x)
       \/ \E b \in Buffers, x \in Values : copy_to_user(s, b, x)
       \/ \E c \in Spaces : Fork(s, c)
       \/ munmap(s) \/ mmap(s) \/ Exit(s)

Spec == Init /\ [][Next]_vars

-----------------------------------------------------------------------------
Ids(at) == {f.id : f \in {f \in UNION {Range(frames[s]) : s \in Spaces} : f.at = at}}

Places == {Unallocated} \cup {InMemory(i) : i \in 0..(NFrames - 1)}
          \cup {Compressed(i) : i \in 0..(ZramSlots - 1)}
          \cup {SwappedOut(i) : i \in 0..(SwapPages - 1)}

Requests ==
  [op : {"fault", "fork", "copy"}, space : Spaces, todo : Seq(Pages),
   slices : Seq([page : Pages, ppn : 0..NFrames]), arg : Values \cup Spaces,
   stage : {"reserved", "translate"}, need : Nat,
   visit : {NoVisit} \cup [space : Spaces, step : 1..3], again : BOOLEAN]

Drops == [op : {"drop"}, space : Spaces, left : SUBSET Pages]

TypeOK ==
  /\ frame_allocator \in [current : 0..NFrames, end : {NFrames}, recycled : Seq(0..(NFrames - 1))]
  /\ ram \in [0..(NFrames - 1) -> Values]
  /\ zram \in [compressed : [0..(ZramSlots - 1) ->
                               {Absent} \cup {compress_prepend_size(x) : x \in Values}],
               recycled : Seq(0..(ZramSlots - 1)), tail : 0..ZramSlots]
  /\ swap \in [bitmap : SUBSET (0..(SwapPages - 1)), blocks : [0..(SwapPages - 1) -> Values]]
  /\ areas \in [Spaces -> {{}, {"heap"}, {"heap", "mmap"}}]
  /\ frames \in [Spaces -> [Pages -> Places]]
  /\ pte \in [Spaces -> [Pages -> [ppn : 0..NFrames, w : BOOLEAN]]]
  /\ active \in [Spaces -> [{"heap", "mmap"} -> Seq(Pages)]]
  /\ call \in {Idle, [op |-> "panic"]} \cup Requests \cup Drops

\* A page is mapped exactly when its Frame is in memory, and to that frame:
\* otherwise a fault reaches the unreachable!() of do_page_fault(), map() finds
\* the entry in use, or a program goes on using a frame given back.
MappedIsInMemory ==
  \A s \in Spaces, p \in Pages :
    IF frames[s][p].at = "ram" THEN pte[s][p].ppn = frames[s][p].id ELSE ~Mapped(s, p)

\* A page a program can write without a fault is shared with nobody, whatever
\* forks, faults and reclaims came in between.
WritableIsPrivate == \A s \in Spaces, p \in Pages : pte[s][p].w => Sole(frames[s][p])

\* The frames that are out are those some page is in, and none is on the stack
\* twice: dealloc() does not panic and no frame is lost.
FramesAreOwned ==
  /\ IsInjective(frame_allocator.recycled)
  /\ Out(frame_allocator, 0) = Ids("ram")

\* The same for the compressed store and the swap area: ZramTracker's drop does
\* not panic on an empty slot, and what is out is what some page waits in.
SlotsAreOwned ==
  /\ {i \in DOMAIN zram.compressed : zram.compressed[i] # Absent} = Ids("zram")
  /\ IsInjective(zram.recycled)
  /\ Range(zram.recycled) = (0..(zram.tail - 1)) \ Ids("zram")
  /\ swap.bitmap = Ids("swap")

\* The content of a page, as its program finds it now or after a fault.
Content(s, p) ==
  LET f == frames[s][p] IN
  IF AreaOf(p) \notin areas[s] THEN Absent
  ELSE CASE Mapped(s, p) -> ram[pte[s][p].ppn]
         [] f.at = "zram" -> zram_read(zram, f.id)
         [] f.at = "swap" -> swap_read(swap, f.id)
         [] OTHER -> Zero

\* The step the kernel is about to take, as far as programs may see it.
Doing ==
  CASE call = Idle -> [op |-> "user"]
    [] call.op = "fork" /\ call.visit = NoVisit ->
         [op |-> "fork", space |-> call.space, child |-> call.arg]
    [] call.op = "copy" /\ call.todo = <<>> ->
         [op |-> "store", space |-> call.space, page |-> Head(call.slices).page,
          value |-> call.arg]
    [] OTHER -> [op |-> "busy"]

Contents == [s \in Spaces |-> [p \in Pages |-> Content(s, p)]]

\* Every process has its own memory: what it wrote, what the kernel stored for
\* it, or what its parent had at the fork.  No fault and no move of a page
\* between frames, zram and swap changes any of it, and no store is lost.
Memory == INSTANCE AddressSpaces WITH mem <- Contents, kernel <- Doing
ImplementsAddressSpaces == Memory!Spec
=============================================================================

-------------------------- MODULE MemorySetProofs ---------------------------
(***************************************************************************)
(* MemorySet for any number of spaces, pages, frames, zram slots and swap  *)
(* pages: page table entries and Frames agree, a writable page is private, *)
(* frames, slots and swap pages that are out are those some page is in.    *)
(***************************************************************************)
EXTENDS MemorySet, QueueLemmas, WellFoundedInduction

\* A leaf that cites no prover is first order.
USE Zenon

\* Every set of numbers that is not empty has a least one.
LEMMA LeastNumber ==
  ASSUME NEW T \in SUBSET Nat, T # {}
  PROVE  Min(T) \in T /\ \A y \in T : Min(T) <= y
<1> DEFINE R == {ss \in Nat \X Nat : ss[1] < ss[2]}
<1>1. IsWellFoundedOn(R, Nat)
  BY NatLessThanWellFounded DEF OpToRel
<1>2. \A x, y \in Nat : <<y, x>> \in R <=> y < x
  OBVIOUS
<1> HIDE DEF R
<1>3. PICK x \in T : \A y \in T : ~(<<y, x>> \in R)
  BY <1>1, WFMin
<1>4. ASSUME NEW y \in T PROVE x <= y
  <2>1. x \in Nat /\ y \in Nat /\ ~(y < x)
    BY <1>2, <1>3
  <2> QED
    BY <2>1, SMT
<1> QED
  BY <1>4 DEF Min

-----------------------------------------------------------------------------
\* StackFrameAllocator.

Frames == 0..(NFrames - 1)
Allocators == [current : 0..NFrames, end : {NFrames}, recycled : Seq(Frames)]
FitsFrames(a) == IsInjective(a.recycled) /\ Range(a.recycled) \subseteq 0..(a.current - 1)
IsOut(a, i) == i \in 0..(a.current - 1) /\ i \notin Range(a.recycled)

\* alloc() hands out a frame that was not out, and no other changes hands.
LEMMA AllocTakesOne ==
  ASSUME NEW a \in Allocators, FitsFrames(a), CanAlloc(a)
  PROVE  /\ alloc(a) \in Allocators /\ FitsFrames(alloc(a))
         /\ Ppn(a) \in Frames /\ ~IsOut(a, Ppn(a))
         /\ \A i : IsOut(alloc(a), i) <=> IsOut(a, i) \/ i = Ppn(a)
<1> USE MemoryAssumption
<1> DEFINE r == a.recycled
<1>1. r \in Seq(Frames) /\ a.current \in 0..NFrames /\ a.end = NFrames
  BY DEF Allocators
<1>2. CASE r # <<>>
  <2>1. /\ alloc(a) = [a EXCEPT !.recycled = Popped(r)] /\ Ppn(a) = Top(r)
    BY <1>2 DEF alloc, Ppn
  <2>2. /\ Popped(r) \in Seq(Frames) /\ Top(r) \in Frames
        /\ Range(r) = Range(Popped(r)) \cup {Top(r)}
        /\ IsInjective(Popped(r)) /\ Top(r) \notin Range(Popped(r))
    BY <1>1, <1>2, PopElements DEF FitsFrames, Popped, Top
  <2> HIDE DEF r
  <2>3. /\ alloc(a) \in Allocators /\ alloc(a).recycled = Popped(r)
        /\ alloc(a).current = a.current
    BY <2>1, <2>2 DEF Allocators
  <2> QED
    BY <2>1, <2>2, <2>3 DEF FitsFrames, IsOut, r
<1>3. CASE r = <<>>
  <2>1. /\ alloc(a) = [a EXCEPT !.current = a.current + 1] /\ Ppn(a) = a.current
        /\ a.current \in Frames
    BY <1>1, <1>3, SMT DEF alloc, Ppn, CanAlloc, Frames
  <2>2. /\ alloc(a) \in Allocators /\ alloc(a).recycled = r
        /\ alloc(a).current = a.current + 1
    <3>1. a.current + 1 \in 0..NFrames
      BY <1>1, <2>1, SMT DEF Frames
    <3> DEFINE c == a.current + 1
    <3>2. alloc(a) = [a EXCEPT !.current = c]
      BY <2>1
    <3> HIDE DEF c
    <3>3. alloc(a) \in Allocators /\ alloc(a).recycled = r /\ alloc(a).current = c
      BY <1>1, <3>1, <3>2 DEF Allocators, c
    <3> QED
      BY <3>3 DEF c
  <2>3. Range(r) = {}
    BY <1>3, EmptyElements
  <2>4. IsInjective(r)
    BY DEF FitsFrames
  <2> HIDE DEF r
  <2>5. FitsFrames(alloc(a))
    BY <2>2, <2>3, <2>4 DEF FitsFrames
  <2>6. \A i : /\ IsOut(a, i) <=> i \in 0..(a.current - 1)
               /\ IsOut(alloc(a), i) <=> i \in 0..a.current
    BY <1>1, <2>2, <2>3, SMT DEF IsOut, r
  <2> QED
    BY <1>1, <2>1, <2>2, <2>5, <2>6, SMTT(30)
<1> QED
  BY <1>2, <1>3

\* dealloc() of a frame that is out takes it back, and no other.
LEMMA DeallocGivesOne ==
  ASSUME NEW a \in Allocators, FitsFrames(a), NEW ppn \in Frames, IsOut(a, ppn)
  PROVE  /\ dealloc(a, ppn) \in Allocators /\ FitsFrames(dealloc(a, ppn))
         /\ \A i : IsOut(dealloc(a, ppn), i) <=> IsOut(a, i) /\ i # ppn
<1> DEFINE r == a.recycled
<1>1. r \in Seq(Frames)
  BY DEF Allocators
<1>2. /\ Append(r, ppn) \in Seq(Frames) /\ IsInjective(Append(r, ppn))
      /\ Range(Append(r, ppn)) = Range(r) \cup {ppn}
  BY <1>1, PushElements, PushInjective, SMT DEF FitsFrames, IsOut
<1> HIDE DEF r
<1>3. /\ dealloc(a, ppn) \in Allocators /\ dealloc(a, ppn).recycled = Append(r, ppn)
      /\ dealloc(a, ppn).current = a.current
  BY <1>2 DEF Allocators, dealloc, r
<1> QED
  BY <1>2, <1>3 DEF FitsFrames, IsOut, r

-----------------------------------------------------------------------------
\* Zram.

Slots == 0..(ZramSlots - 1)
Stores == [compressed : [Slots -> {Absent} \cup {compress_prepend_size(x) : x \in Values}],
           recycled : Seq(Slots), tail : 0..ZramSlots]
Stored(z, i) == i \in 0..(z.tail - 1) /\ i \notin Range(z.recycled)
FitsZram(z) == /\ IsInjective(z.recycled) /\ Range(z.recycled) \subseteq 0..(z.tail - 1)
               /\ \A i \in Slots : Stored(z, i) <=> z.compressed[i] # Absent

LEMMA ZramWriteStoresOne ==
  ASSUME NEW z \in Stores, FitsZram(z), HasSpace(z), NEW x \in Values
  PROVE  /\ zram_write(z, x) \in Stores /\ FitsZram(zram_write(z, x))
         /\ ZramId(z) \in Slots /\ ~Stored(z, ZramId(z))
         /\ \A i : Stored(zram_write(z, x), i) <=> Stored(z, i) \/ i = ZramId(z)
         /\ zram_read(zram_write(z, x), ZramId(z)) = x
         /\ \A i \in Slots : i # ZramId(z) => zram_read(zram_write(z, x), i) = zram_read(z, i)
<1> USE MemoryAssumption
<1> DEFINE r == z.recycled
           new == zram_write(z, x)
           id == ZramId(z)
<1>1. /\ r \in Seq(Slots) /\ z.tail \in 0..ZramSlots
      /\ z.compressed \in [Slots -> {Absent} \cup {compress_prepend_size(y) : y \in Values}]
  BY DEF Stores
<1>2. /\ id \in Slots /\ ~Stored(z, id)
      /\ new.recycled \in Seq(Slots) /\ new.tail \in 0..ZramSlots
      /\ IsInjective(new.recycled) /\ Range(new.recycled) \subseteq 0..(new.tail - 1)
      /\ \A i : Stored(new, i) <=> Stored(z, i) \/ i = id
  <2>1. CASE r # <<>>
    <3>1. /\ Popped(r) \in Seq(Slots) /\ Top(r) \in Slots
          /\ Range(r) = Range(Popped(r)) \cup {Top(r)}
          /\ IsInjective(Popped(r)) /\ Top(r) \notin Range(Popped(r))
      BY <1>1, <2>1, PopElements DEF FitsZram, Popped, Top
    <3>2. new.recycled = Popped(r) /\ new.tail = z.tail /\ id = Top(r)
      BY <2>1 DEF zram_write, ZramId
    <3> HIDE DEF r, new, id
    <3> QED
      BY <1>1, <3>1, <3>2 DEF FitsZram, Stored, r
  <2>2. CASE r = <<>>
    <3>1. z.tail \in Slots
      BY <1>1, <2>2 DEF HasSpace, Slots
    <3>2. new.recycled = r /\ new.tail = z.tail + 1 /\ id = z.tail
      BY <2>2 DEF zram_write, ZramId
    <3>3. Range(r) = {}
      BY <2>2, EmptyElements
    <3> HIDE DEF r, new, id
    <3> QED
      BY <1>1, <3>1, <3>2, <3>3, SMT DEF FitsZram, Stored, r, Slots
  <2> QED
    BY <2>1, <2>2
<1>3. /\ new.compressed = [z.compressed EXCEPT ![id] = compress_prepend_size(x)]
      /\ new = [compressed |-> new.compressed, recycled |-> new.recycled, tail |-> new.tail]
  BY DEF zram_write
<1>4. compress_prepend_size(x) # Absent /\ decompress_size_prepended(compress_prepend_size(x)) = x
  BY DEF compress_prepend_size, decompress_size_prepended
<1> HIDE DEF new, id, r
<1>5. /\ new.compressed \in [Slots -> {Absent} \cup {compress_prepend_size(y) : y \in Values}]
      /\ new.compressed[id] = compress_prepend_size(x)
      /\ \A i \in Slots : i # id => new.compressed[i] = z.compressed[i]
  BY <1>1, <1>2, <1>3, SMT
<1>6. new \in Stores
  BY <1>2, <1>3, <1>5 DEF Stores
<1>7. FitsZram(new)
  BY <1>2, <1>4, <1>5 DEF FitsZram
<1> QED
  BY <1>2, <1>4, <1>5, <1>6, <1>7 DEF new, id, zram_read

LEMMA ZramDiscardFreesOne ==
  ASSUME NEW z \in Stores, FitsZram(z), NEW id \in Slots, Stored(z, id)
  PROVE  /\ zram_discard(z, id, Absent) \in Stores /\ FitsZram(zram_discard(z, id, Absent))
         /\ \A i : Stored(zram_discard(z, id, Absent), i) <=> Stored(z, i) /\ i # id
         /\ \A i \in Slots : i # id => zram_read(zram_discard(z, id, Absent), i) = zram_read(z, i)
<1> USE MemoryAssumption
<1> DEFINE r == z.recycled
           new == zram_discard(z, id, Absent)
<1>1. /\ r \in Seq(Slots) /\ z.tail \in 0..ZramSlots
      /\ z.compressed \in [Slots -> {Absent} \cup {compress_prepend_size(y) : y \in Values}]
  BY DEF Stores
<1>2. /\ new.recycled \in Seq(Slots) /\ new.tail \in 0..ZramSlots
      /\ IsInjective(new.recycled) /\ Range(new.recycled) \subseteq 0..(new.tail - 1)
      /\ \A i : Stored(new, i) <=> Stored(z, i) /\ i # id
  <2>1. CASE id = z.tail - 1
    <3>1. new.recycled = r /\ new.tail = id
      BY <2>1 DEF zram_discard
    <3> HIDE DEF r, new
    <3> QED
      BY <1>1, <2>1, <3>1, SMTT(30) DEF FitsZram, Stored, r, Slots
  <2>2. CASE id # z.tail - 1
    <3>1. new.recycled = Append(r, id) /\ new.tail = z.tail
      BY <2>2 DEF zram_discard
    <3>2. /\ Append(r, id) \in Seq(Slots) /\ IsInjective(Append(r, id))
          /\ Range(Append(r, id)) = Range(r) \cup {id}
      BY <1>1, PushElements, PushInjective, SMT DEF FitsZram, Stored
    <3> HIDE DEF r, new
    <3> QED
      BY <1>1, <3>1, <3>2 DEF FitsZram, Stored, r
  <2> QED
    BY <2>1, <2>2
<1>3. /\ new.compressed = [z.compressed EXCEPT ![id] = Absent]
      /\ new = [compressed |-> new.compressed, recycled |-> new.recycled, tail |-> new.tail]
  BY DEF zram_discard
<1> HIDE DEF new, r
<1>5. /\ new.compressed \in [Slots -> {Absent} \cup {compress_prepend_size(y) : y \in Values}]
      /\ new.compressed[id] = Absent
      /\ \A i \in Slots : i # id => new.compressed[i] = z.compressed[i]
  BY <1>1, <1>2, <1>3
<1>6. new \in Stores
  BY <1>2, <1>3, <1>5 DEF Stores
<1>7. FitsZram(new)
  BY <1>2, <1>5 DEF FitsZram
<1> QED
  BY <1>2, <1>5, <1>6, <1>7 DEF new, zram_read

-----------------------------------------------------------------------------
\* Swap.

SwapIds == 0..(SwapPages - 1)
Areas == [bitmap : SUBSET SwapIds, blocks : [SwapIds -> Values]]

LEMMA SwapWriteStoresOne ==
  ASSUME NEW d \in Areas, Free(d) # {}, NEW x \in Values
  PROVE  /\ swap_write(d, x) \in Areas
         /\ alloc_page(d) \in SwapIds /\ alloc_page(d) \notin d.bitmap
         /\ swap_write(d, x).bitmap = d.bitmap \cup {alloc_page(d)}
         /\ swap_read(swap_write(d, x), alloc_page(d)) = x
         /\ \A i \in SwapIds : i # alloc_page(d) =>
              swap_read(swap_write(d, x), i) = swap_read(d, i)
<1> USE MemoryAssumption
<1>1. d.bitmap \subseteq SwapIds /\ d.blocks \in [SwapIds -> Values]
  BY DEF Areas
<1>2. Free(d) \in SUBSET Nat /\ Free(d) \subseteq SwapIds \ d.bitmap
  BY <1>1, SMT DEF Free, SwapIds
<1>3. alloc_page(d) \in Free(d)
  BY <1>2, LeastNumber DEF alloc_page
<1> DEFINE id == alloc_page(d)
<1>4. /\ swap_write(d, x).bitmap = d.bitmap \cup {id}
      /\ swap_write(d, x).blocks = [d.blocks EXCEPT ![id] = x]
      /\ swap_write(d, x) = [bitmap |-> d.bitmap \cup {id}, blocks |-> [d.blocks EXCEPT ![id] = x]]
  BY DEF swap_write
<1> HIDE DEF id
<1>5. id \in SwapIds /\ id \notin d.bitmap
  BY <1>2, <1>3 DEF id
<1>6. [d.blocks EXCEPT ![id] = x] \in [SwapIds -> Values]
  BY <1>1, <1>5
<1>7. swap_write(d, x) \in Areas
  BY <1>1, <1>4, <1>5, <1>6 DEF Areas
<1> QED
  BY <1>1, <1>4, <1>5, <1>7 DEF id, swap_read

LEMMA SwapDiscardFreesOne ==
  ASSUME NEW d \in Areas, NEW id \in SwapIds
  PROVE  /\ swap_discard(d, id) \in Areas
         /\ swap_discard(d, id).bitmap = d.bitmap \ {id}
         /\ \A i \in SwapIds : swap_read(swap_discard(d, id), i) = swap_read(d, i)
<1>1. /\ swap_discard(d, id) = [bitmap |-> d.bitmap \ {id}, blocks |-> d.blocks]
      /\ d.bitmap \subseteq SwapIds /\ d.blocks \in [SwapIds -> Values]
  BY SMT DEF Areas, swap_discard
<1>2. swap_discard(d, id).bitmap = d.bitmap \ {id} /\ swap_discard(d, id).blocks = d.blocks
  BY <1>1, SMT
<1>3. swap_discard(d, id) \in Areas
  BY <1>1, SMT DEF Areas
<1> QED
  BY <1>2, <1>3 DEF swap_read

-----------------------------------------------------------------------------
\* Who has which place.

Owned(fs, f) == \E s \in Spaces, p \in Pages : fs[s][p] = f
OnlyOwner(fs, s, p) ==
  \A t \in Spaces, q \in Pages : fs[t][q] = fs[s][p] => t = s /\ q = p

\* Places of different kinds or numbers are different.
LEMMA PlacesDiffer ==
  /\ \A i : /\ InMemory(i).at = "ram" /\ InMemory(i).id = i
            /\ Compressed(i).at = "zram" /\ Compressed(i).id = i
            /\ SwappedOut(i).at = "swap" /\ SwappedOut(i).id = i
  /\ Unallocated.at = "none"
  /\ \A f \in Places : /\ f.at \in {"none", "ram", "zram", "swap"}
                       /\ f.at = "none" => f = Unallocated
                       /\ f.at = "ram" => f.id \in Frames /\ f = InMemory(f.id)
                       /\ f.at = "zram" => f.id \in Slots /\ f = Compressed(f.id)
                       /\ f.at = "swap" => f.id \in SwapIds /\ f = SwappedOut(f.id)
  /\ Unallocated \in Places
  /\ \A i \in Frames : InMemory(i) \in Places
  /\ \A i \in Slots : Compressed(i) \in Places
  /\ \A i \in SwapIds : SwappedOut(i) \in Places
<1>1. \A i : /\ InMemory(i).at = "ram" /\ InMemory(i).id = i
             /\ Compressed(i).at = "zram" /\ Compressed(i).id = i
             /\ SwappedOut(i).at = "swap" /\ SwappedOut(i).id = i
  BY DEF InMemory, Compressed, SwappedOut
<1>2. Unallocated.at = "none"
  BY DEF Unallocated
<1>3. ASSUME NEW f \in Places
      PROVE  \/ f = Unallocated
             \/ \E i \in Frames : f = InMemory(i)
             \/ \E i \in Slots : f = Compressed(i)
             \/ \E i \in SwapIds : f = SwappedOut(i)
  BY DEF Places, Frames, Slots, SwapIds
<1>4. /\ Unallocated \in Places
      /\ \A i \in Frames : InMemory(i) \in Places
      /\ \A i \in Slots : Compressed(i) \in Places
      /\ \A i \in SwapIds : SwappedOut(i) \in Places
  BY DEF Places, Frames, Slots, SwapIds
<1> QED
  BY <1>1, <1>2, <1>3, <1>4, SMT

\* Arc::strong_count(f) == 1 is what it should be.
LEMMA SoleIsOnlyOwner ==
  ASSUME TypeOK, NEW s \in Spaces, NEW p \in Pages
  PROVE  Sole(frames[s][p]) <=> OnlyOwner(frames, s, p)
<1> USE MemoryAssumption
<1> DEFINE f == frames[s][p]
           O == Owners(f)
<1>1. O \subseteq Spaces \X Pages /\ <<s, p>> \in O
  BY DEF Owners
<1>5. (\E x \in O : O = {x}) <=> O = {<<s, p>>}
  BY <1>1
<1>6. O = {<<s, p>>} <=> \A t \in Spaces, q \in Pages : <<t, q>> \in O => t = s /\ q = p
  BY <1>1, SMT
<1>7. \A t \in Spaces, q \in Pages : <<t, q>> \in O <=> frames[t][q] = f
  BY DEF Owners
<1> HIDE DEF O
<1>8. Sole(f) <=> \E x \in O : O = {x}
  BY DEF Sole, O
<1>9. OnlyOwner(frames, s, p) <=> \A t \in Spaces, q \in Pages : <<t, q>> \in O => t = s /\ q = p
  <2>1. OnlyOwner(frames, s, p) <=> \A t \in Spaces, q \in Pages : frames[t][q] = f => t = s /\ q = p
    BY DEF OnlyOwner
  <2> HIDE DEF f
  <2> QED
    BY <1>7, <2>1
<1> QED
  BY <1>5, <1>6, <1>8, <1>9

\* One page changes its place, and its entry.
Moves(s, p, f) == frames' = [frames EXCEPT ![s][p] = f]
Remaps(s, p, e) == pte' = [pte EXCEPT ![s][p] = e]

LEMMA OneMoves ==
  ASSUME TypeOK, NEW s \in Spaces, NEW p \in Pages, NEW f \in Places,
         Moves(s, p, f)
  PROVE  /\ frames' \in [Spaces -> [Pages -> Places]]
         /\ \A t \in Spaces, q \in Pages :
              frames'[t][q] = IF t = s /\ q = p THEN f ELSE frames[t][q]
         /\ \A g : Owned(frames', g) <=> \/ g = f
                                         \/ Owned(frames, g) /\ (g = frames[s][p] => ~OnlyOwner(frames, s, p))
         /\ \A t \in Spaces, q \in Pages :
              OnlyOwner(frames, t, q) /\ frames[t][q] # f /\ (t # s \/ q # p) => OnlyOwner(frames', t, q)
         /\ ~Owned(frames, f) => OnlyOwner(frames', s, p)
<1>1. frames \in [Spaces -> [Pages -> Places]]
  BY DEF TypeOK
<1>2. frames' \in [Spaces -> [Pages -> Places]]
  BY <1>1 DEF Moves
<1>3. \A t \in Spaces, q \in Pages :
        frames'[t][q] = IF t = s /\ q = p THEN f ELSE frames[t][q]
  BY <1>1 DEF Moves
<1>4. ASSUME NEW g
      PROVE  Owned(frames', g) <=> \/ g = f
                                   \/ Owned(frames, g) /\ (g = frames[s][p] => ~OnlyOwner(frames, s, p))
  BY <1>3, SMT DEF Owned, OnlyOwner
<1>5. \A t \in Spaces, q \in Pages :
        OnlyOwner(frames, t, q) /\ frames[t][q] # f /\ (t # s \/ q # p) => OnlyOwner(frames', t, q)
  BY <1>3, SMT DEF OnlyOwner
<1>6. ~Owned(frames, f) => OnlyOwner(frames', s, p)
  BY <1>3 DEF OnlyOwner, Owned
<1> QED
  BY <1>2, <1>3, <1>4, <1>5, <1>6

-----------------------------------------------------------------------------
\* The inductive invariant.

\* Frame and page table entry of a page agree, and a writable page is private.
TablesAgree ==
  \A s \in Spaces, p \in Pages :
    /\ frames[s][p].at = "ram" => pte[s][p].ppn = frames[s][p].id
    /\ frames[s][p].at # "ram" => pte[s][p] = Unmapped
    /\ pte[s][p].w => OnlyOwner(frames, s, p)

\* A place is out exactly when some page is in it.
FrameAccount == /\ FitsFrames(frame_allocator)
                /\ \A i \in Frames : IsOut(frame_allocator, i) <=> Owned(frames, InMemory(i))
ZramAccount == /\ FitsZram(zram)
               /\ \A i \in Slots : Stored(zram, i) <=> Owned(frames, Compressed(i))
SwapAccount == \A i \in SwapIds : i \in swap.bitmap <=> Owned(frames, SwappedOut(i))

\* A page that is somewhere is in an area of its space, or about to be dropped.
Leaving(s, p) == call.op = "drop" /\ call.space = s /\ p \in call.left
PagesHaveAreas == \A s \in Spaces, p \in Pages :
                    frames[s][p] = Unallocated \/ AreaOf(p) \in areas[s] \/ Leaving(s, p)

\* What a call works on does not change under it.
CallIsSound ==
  /\ call.op = "fork" => /\ call.arg \in Spaces /\ call.arg # call.space
                         /\ areas[call.arg] = {}
  /\ call.op \in {"fault", "copy"} =>
       /\ \A i \in DOMAIN call.todo : AreaOf(call.todo[i]) \in areas[call.space]
       /\ call.stage = "reserved" => call.todo # <<>>
  /\ call.op = "fault" => call.stage = "reserved"
  /\ call.op = "copy" => /\ call.arg \in Values
                         /\ call.todo = <<>> => call.slices # <<>>

ActiveOnce == \A s \in Spaces, a \in {"heap", "mmap"} : IsInjective(active[s][a])

Inv == /\ TypeOK /\ TablesAgree /\ FrameAccount /\ ZramAccount /\ SwapAccount
       /\ PagesHaveAreas /\ CallIsSound /\ ActiveOnce

-----------------------------------------------------------------------------
\* A page that moves.

Entries == [ppn : 0..NFrames, w : BOOLEAN]

\* A page that moves to a place nobody is in, or to none, keeps the tables right
\* if its entry is that of the new place.
LEMMA TablesFollow ==
  ASSUME TypeOK, TablesAgree, NEW s \in Spaces, NEW p \in Pages,
         NEW f \in Places, NEW e \in Entries,
         Moves(s, p, f), Remaps(s, p, e),
         f = Unallocated \/ ~Owned(frames, f),
         f.at = "ram" => e.ppn = f.id, f.at # "ram" => e = Unmapped
  PROVE  pte' \in [Spaces -> [Pages -> Entries]] /\ TablesAgree'
<1>1. pte \in [Spaces -> [Pages -> Entries]]
  BY DEF TypeOK, Entries
<1>2. pte' \in [Spaces -> [Pages -> Entries]]
  BY <1>1 DEF Remaps
<1>3. \A t \in Spaces, q \in Pages : pte'[t][q] = IF t = s /\ q = p THEN e ELSE pte[t][q]
  BY <1>1 DEF Remaps
<1>4. /\ \A t \in Spaces, q \in Pages :
           frames'[t][q] = IF t = s /\ q = p THEN f ELSE frames[t][q]
      /\ \A t \in Spaces, q \in Pages :
           OnlyOwner(frames, t, q) /\ frames[t][q] # f /\ (t # s \/ q # p) => OnlyOwner(frames', t, q)
      /\ ~Owned(frames, f) => OnlyOwner(frames', s, p)
  BY OneMoves, SMT
<1>5. Unallocated.at = "none" /\ Unmapped.w = FALSE
  BY DEF Unallocated, Unmapped
<1>6. SUFFICES ASSUME NEW t \in Spaces, NEW q \in Pages
               PROVE  /\ frames'[t][q].at = "ram" => pte'[t][q].ppn = frames'[t][q].id
                      /\ frames'[t][q].at # "ram" => pte'[t][q] = Unmapped
                      /\ pte'[t][q].w => OnlyOwner(frames', t, q)
  BY <1>2 DEF TablesAgree
<1>7. /\ frames[t][q].at = "ram" => pte[t][q].ppn = frames[t][q].id
      /\ frames[t][q].at # "ram" => pte[t][q] = Unmapped
      /\ pte[t][q].w => OnlyOwner(frames, t, q)
  BY DEF TablesAgree
<1>8. CASE t = s /\ q = p
  <2>1. frames'[t][q] = f /\ pte'[t][q] = e
    BY <1>3, <1>4, <1>8
  <2>2. e.w => ~Owned(frames, f)
    BY <1>5
  <2> QED
    BY <1>4, <1>8, <2>1, <2>2
<1>9. CASE ~(t = s /\ q = p)
  <2>1. frames'[t][q] = frames[t][q] /\ pte'[t][q] = pte[t][q]
    BY <1>3, <1>4, <1>9
  <2>2. pte[t][q].w => frames[t][q] # Unallocated
    BY <1>5, <1>7
  <2>3. Owned(frames, frames[t][q])
    BY DEF Owned
  <2>4. pte[t][q].w => frames[t][q] # f
    BY <2>2, <2>3
  <2> QED
    BY <1>4, <1>7, <1>9, <2>1, <2>4
<1> QED
  BY <1>8, <1>9

\* Nobody else is in the frame that alloc() hands out.
LEMMA FreshFrame ==
  ASSUME TypeOK, FrameAccount, CanAlloc(frame_allocator)
  PROVE  /\ Ppn(frame_allocator) \in Frames /\ InMemory(Ppn(frame_allocator)) \in Places
         /\ ~Owned(frames, InMemory(Ppn(frame_allocator)))
<1>1. frame_allocator \in Allocators
  BY DEF TypeOK, Allocators, Frames
<1> QED
  BY <1>1, AllocTakesOne, PlacesDiffer DEF FrameAccount

\* The frames that are out follow the page: the one it moves to is taken, the
\* one it leaves is given back by the last page that leaves it.
LastLeaves(s, p, at) == frames[s][p].at = at /\ Sole(frames[s][p])
FrameTaken(f) == IF f.at = "ram" THEN alloc(frame_allocator) ELSE frame_allocator
FramesMove(s, p, f) ==
  /\ f.at = "ram" => CanAlloc(frame_allocator) /\ f = InMemory(Ppn(frame_allocator))
  /\ frame_allocator' = IF LastLeaves(s, p, "ram") THEN dealloc(FrameTaken(f), frames[s][p].id)
                        ELSE FrameTaken(f)

LEMMA FramesFollow ==
  ASSUME TypeOK, FrameAccount, NEW s \in Spaces, NEW p \in Pages, NEW f \in Places,
         Moves(s, p, f), FramesMove(s, p, f)
  PROVE  frame_allocator' \in Allocators /\ FrameAccount'
<1> DEFINE old == frames[s][p]
           taken == FrameTaken(f)
<1>0. /\ f.at = "ram" => /\ CanAlloc(frame_allocator) /\ f = InMemory(Ppn(frame_allocator))
                         /\ taken = alloc(frame_allocator)
      /\ f.at # "ram" => taken = frame_allocator
      /\ frame_allocator' = IF old.at = "ram" /\ Sole(old) THEN dealloc(taken, old.id) ELSE taken
      /\ old = frames[s][p]
  BY DEF FramesMove, FrameTaken, LastLeaves
<1> HIDE DEF old, taken
<1> USE <1>0
<1>1. frame_allocator \in Allocators
  BY DEF TypeOK, Allocators, Frames
<1>2. \A g : Owned(frames', g) <=> \/ g = f
                                   \/ Owned(frames, g) /\ (g = old => ~OnlyOwner(frames, s, p))
  BY OneMoves
<1>3. Sole(old) <=> OnlyOwner(frames, s, p)
  BY SoleIsOnlyOwner
<1>4. /\ old \in Places /\ Owned(frames, old)
  BY SMT DEF TypeOK, Owned
<1>5. /\ taken \in Allocators /\ FitsFrames(taken)
      /\ \A i \in Frames : IsOut(taken, i) <=> Owned(frames, InMemory(i)) \/ InMemory(i) = f
  <2>1. CASE f.at = "ram"
    <3>1. /\ alloc(frame_allocator) \in Allocators /\ FitsFrames(alloc(frame_allocator))
          /\ \A i : IsOut(alloc(frame_allocator), i) <=>
                      IsOut(frame_allocator, i) \/ i = Ppn(frame_allocator)
      BY <1>1, <2>1, AllocTakesOne DEF FrameAccount
    <3>2. \A i : InMemory(i) = f <=> i = Ppn(frame_allocator)
      BY <2>1, PlacesDiffer, SMT
    <3> QED
      BY <2>1, <3>1, <3>2 DEF FrameAccount
  <2>2. CASE f.at # "ram"
    BY <1>1, <2>2, PlacesDiffer, ZenonT(60) DEF FrameAccount
  <2> QED
    BY <2>1, <2>2
<1>6. CASE old.at = "ram" /\ Sole(old)
  <2>1. old.id \in Frames /\ old = InMemory(old.id) /\ IsOut(taken, old.id)
    BY <1>4, <1>5, <1>6, PlacesDiffer
  <2>2. /\ frame_allocator' \in Allocators /\ FitsFrames(frame_allocator')
        /\ \A i : IsOut(frame_allocator', i) <=> IsOut(taken, i) /\ i # old.id
    BY <1>5, <1>6, <2>1, DeallocGivesOne, SMT
  <2>3. f # old
    <3>1. ASSUME f = old PROVE FALSE
      BY <1>4, <1>6, <3>1, FreshFrame
    <3> QED
      BY <3>1
  <2>4. \A i \in Frames : InMemory(i) = old <=> i = old.id
    BY <2>1, PlacesDiffer, SMT
  <2>5. ASSUME NEW i \in Frames
        PROVE  IsOut(frame_allocator', i) <=> Owned(frames', InMemory(i))
    BY <1>2, <1>3, <1>5, <1>6, <2>2, <2>3, <2>4
  <2> QED
    BY <2>2, <2>5 DEF FrameAccount
<1>7. CASE ~(old.at = "ram" /\ Sole(old))
  <2>1. \A i \in Frames : InMemory(i) = old => ~OnlyOwner(frames, s, p)
    BY <1>3, <1>7, PlacesDiffer, SMT
  <2>2. ASSUME NEW i \in Frames
        PROVE  IsOut(frame_allocator', i) <=> Owned(frames', InMemory(i))
    BY <1>2, <1>5, <1>7, <2>1
  <2> QED
    BY <1>5, <1>7, <2>2 DEF FrameAccount
<1> QED
  BY <1>6, <1>7

\* The same for the slots of the compressed store: x is what is stored.
SlotTaken(f, x) == IF f.at = "zram" THEN zram_write(zram, x) ELSE zram
SlotsMove(s, p, f, x) ==
  /\ f.at = "zram" => HasSpace(zram) /\ f = Compressed(ZramId(zram))
  /\ zram' = IF LastLeaves(s, p, "zram") THEN zram_discard(SlotTaken(f, x), frames[s][p].id, Absent)
             ELSE SlotTaken(f, x)

LEMMA SlotsFollow ==
  ASSUME TypeOK, ZramAccount, NEW s \in Spaces, NEW p \in Pages, NEW f \in Places,
         NEW x \in Values, Moves(s, p, f), SlotsMove(s, p, f, x)
  PROVE  zram' \in Stores /\ ZramAccount'
<1> DEFINE old == frames[s][p]
           taken == SlotTaken(f, x)
<1>0. /\ f.at = "zram" => /\ HasSpace(zram) /\ f = Compressed(ZramId(zram))
                          /\ taken = zram_write(zram, x)
      /\ f.at # "zram" => taken = zram
      /\ zram' = IF old.at = "zram" /\ Sole(old) THEN zram_discard(taken, old.id, Absent)
                 ELSE taken
      /\ old = frames[s][p]
  BY DEF SlotsMove, SlotTaken, LastLeaves
<1> HIDE DEF old, taken
<1> USE <1>0
<1>1. zram \in Stores
  BY DEF TypeOK, Stores, Slots
<1>2. \A g : Owned(frames', g) <=> \/ g = f
                                   \/ Owned(frames, g) /\ (g = old => ~OnlyOwner(frames, s, p))
  BY OneMoves
<1>3. Sole(old) <=> OnlyOwner(frames, s, p)
  BY SoleIsOnlyOwner
<1>4. /\ old \in Places /\ Owned(frames, old)
  BY SMT DEF TypeOK, Owned
<1>5. /\ taken \in Stores /\ FitsZram(taken)
      /\ \A i \in Slots : Stored(taken, i) <=> Owned(frames, Compressed(i)) \/ Compressed(i) = f
      /\ f.at = "zram" => ~Owned(frames, f)
  <2>1. CASE f.at = "zram"
    <3>1. /\ zram_write(zram, x) \in Stores /\ FitsZram(zram_write(zram, x))
          /\ ZramId(zram) \in Slots /\ ~Stored(zram, ZramId(zram))
          /\ \A i : Stored(zram_write(zram, x), i) <=> Stored(zram, i) \/ i = ZramId(zram)
      BY <1>1, <2>1, ZramWriteStoresOne DEF ZramAccount
    <3>2. \A i : Compressed(i) = f <=> i = ZramId(zram)
      BY <2>1, PlacesDiffer, SMT
    <3> QED
      BY <2>1, <3>1, <3>2 DEF ZramAccount
  <2>2. CASE f.at # "zram"
    BY <1>1, <2>2, PlacesDiffer, ZenonT(60) DEF ZramAccount
  <2> QED
    BY <2>1, <2>2
<1>6. CASE old.at = "zram" /\ Sole(old)
  <2>1. old.id \in Slots /\ old = Compressed(old.id) /\ Stored(taken, old.id)
    BY <1>4, <1>5, <1>6, PlacesDiffer
  <2>2. /\ zram' \in Stores /\ FitsZram(zram')
        /\ \A i : Stored(zram', i) <=> Stored(taken, i) /\ i # old.id
    BY <1>5, <1>6, <2>1, ZramDiscardFreesOne, SMT
  <2>3. f # old
    BY <1>4, <1>5, <1>6
  <2>4. \A i \in Slots : Compressed(i) = old <=> i = old.id
    BY <2>1, PlacesDiffer, SMT
  <2>5. ASSUME NEW i \in Slots
        PROVE  Stored(zram', i) <=> Owned(frames', Compressed(i))
    BY <1>2, <1>3, <1>5, <1>6, <2>2, <2>3, <2>4
  <2> QED
    BY <2>2, <2>5 DEF ZramAccount
<1>7. CASE ~(old.at = "zram" /\ Sole(old))
  <2>1. \A i \in Slots : Compressed(i) = old => ~OnlyOwner(frames, s, p)
    BY <1>3, <1>7, PlacesDiffer, SMT
  <2>2. ASSUME NEW i \in Slots
        PROVE  Stored(zram', i) <=> Owned(frames', Compressed(i))
    BY <1>2, <1>5, <1>7, <2>1
  <2> QED
    BY <1>5, <1>7, <2>2 DEF ZramAccount
<1> QED
  BY <1>6, <1>7

\* And for the pages of the swap area.
SwapTaken(f, x) == IF f.at = "swap" THEN swap_write(swap, x) ELSE swap
SwapMoves(s, p, f, x) ==
  /\ f.at = "swap" => Free(swap) # {} /\ f = SwappedOut(alloc_page(swap))
  /\ swap' = IF LastLeaves(s, p, "swap") THEN swap_discard(SwapTaken(f, x), frames[s][p].id)
             ELSE SwapTaken(f, x)

LEMMA SwapFollows ==
  ASSUME TypeOK, SwapAccount, NEW s \in Spaces, NEW p \in Pages, NEW f \in Places,
         NEW x \in Values, Moves(s, p, f), SwapMoves(s, p, f, x)
  PROVE  swap' \in Areas /\ SwapAccount'
<1> DEFINE old == frames[s][p]
           taken == SwapTaken(f, x)
<1>0. /\ f.at = "swap" => /\ Free(swap) # {} /\ f = SwappedOut(alloc_page(swap))
                          /\ taken = swap_write(swap, x)
      /\ f.at # "swap" => taken = swap
      /\ swap' = IF old.at = "swap" /\ Sole(old) THEN swap_discard(taken, old.id) ELSE taken
      /\ old = frames[s][p]
  BY DEF SwapMoves, SwapTaken, LastLeaves
<1> HIDE DEF old, taken
<1> USE <1>0
<1>1. swap \in Areas
  BY DEF TypeOK, Areas, SwapIds
<1>2. \A g : Owned(frames', g) <=> \/ g = f
                                   \/ Owned(frames, g) /\ (g = old => ~OnlyOwner(frames, s, p))
  BY OneMoves
<1>3. Sole(old) <=> OnlyOwner(frames, s, p)
  BY SoleIsOnlyOwner
<1>4. /\ old \in Places /\ Owned(frames, old)
  BY SMT DEF TypeOK, Owned
<1>5. /\ taken \in Areas
      /\ \A i \in SwapIds : i \in taken.bitmap <=> Owned(frames, SwappedOut(i)) \/ SwappedOut(i) = f
      /\ f.at = "swap" => ~Owned(frames, f)
  <2>1. CASE f.at = "swap"
    <3>1. /\ swap_write(swap, x) \in Areas
          /\ alloc_page(swap) \in SwapIds /\ alloc_page(swap) \notin swap.bitmap
          /\ swap_write(swap, x).bitmap = swap.bitmap \cup {alloc_page(swap)}
      BY <1>1, <2>1, SwapWriteStoresOne
    <3>2. \A i : SwappedOut(i) = f <=> i = alloc_page(swap)
      BY <2>1, PlacesDiffer, SMT
    <3> QED
      BY <2>1, <3>1, <3>2, SMT DEF SwapAccount
  <2>2. CASE f.at # "swap"
    BY <1>1, <2>2, PlacesDiffer DEF SwapAccount
  <2> QED
    BY <2>1, <2>2
<1>6. CASE old.at = "swap" /\ Sole(old)
  <2>1. old.id \in SwapIds /\ old = SwappedOut(old.id)
    BY <1>4, <1>6, PlacesDiffer
  <2>2. /\ swap' \in Areas
        /\ \A i : i \in swap'.bitmap <=> i \in taken.bitmap /\ i # old.id
    <3>1. swap' = swap_discard(taken, old.id)
      BY <1>6
    <3>2. /\ swap_discard(taken, old.id) \in Areas
          /\ swap_discard(taken, old.id).bitmap = taken.bitmap \ {old.id}
      BY ONLY <1>5, <2>1, SwapDiscardFreesOne
    <3> QED
      BY ONLY <3>1, <3>2
  <2>3. f # old
    BY <1>4, <1>5, <1>6
  <2>4. \A i \in SwapIds : SwappedOut(i) = old <=> i = old.id
    BY <2>1, PlacesDiffer, SMT
  <2>5. ASSUME NEW i \in SwapIds
        PROVE  i \in swap'.bitmap <=> Owned(frames', SwappedOut(i))
    BY <1>2, <1>3, <1>5, <1>6, <2>2, <2>3, <2>4
  <2> QED
    BY <2>2, <2>5 DEF SwapAccount
<1>7. CASE ~(old.at = "swap" /\ Sole(old))
  <2>1. \A i \in SwapIds : SwappedOut(i) = old => ~OnlyOwner(frames, s, p)
    BY <1>3, <1>7, PlacesDiffer, SMT
  <2>2. ASSUME NEW i \in SwapIds
        PROVE  i \in swap'.bitmap <=> Owned(frames', SwappedOut(i))
    BY <1>2, <1>5, <1>7, <2>1
  <2> QED
    BY <1>5, <1>7, <2>2 DEF SwapAccount
<1> QED
  BY <1>6, <1>7

-----------------------------------------------------------------------------
\* LinearMap::active.

\* retain() takes the page out and leaves the others in their order.
LEMMA WithoutElements ==
  ASSUME NEW S, NEW q \in Seq(S), IsInjective(q), NEW p
  PROVE  /\ Without(q, p) \in Seq(S) /\ IsInjective(Without(q, p))
         /\ Range(Without(q, p)) = Range(q) \ {p}
<1> DEFINE i == CHOOSE k \in DOMAIN q : q[k] = p
           r == Without(q, p)
           n == Len(q)
<1>0. n \in Nat /\ DOMAIN q = 1..n /\ \A k \in 1..n : q[k] \in S
  BY SeqIsFunction
<1>1. CASE p \notin Range(q)
  BY <1>1 DEF Without
<1>2. CASE p \in Range(q)
  <2>1. i \in 1..n /\ q[i] = p
    BY <1>0, <1>2 DEF Range
  <2>2. r = SubSeq(q, 1, i - 1) \o SubSeq(q, i + 1, n)
    BY <1>2 DEF Without
  <2> HIDE DEF i, r, n
  <2>3. /\ SubSeq(q, 1, i - 1) \in Seq(S) /\ Len(SubSeq(q, 1, i - 1)) = i - 1
        /\ \A k \in 1..(i - 1) : SubSeq(q, 1, i - 1)[k] = q[k]
    BY <1>0, <2>1, SMT
  <2>4. /\ SubSeq(q, i + 1, n) \in Seq(S) /\ Len(SubSeq(q, i + 1, n)) = n - i
        /\ \A k \in 1..(n - i) : SubSeq(q, i + 1, n)[k] = q[k + i]
    BY <1>0, <2>1, SMT
  <2>5. /\ r \in Seq(S) /\ Len(r) = n - 1
        /\ \A k \in 1..(n - 1) : r[k] = IF k < i THEN q[k] ELSE q[k + 1]
    <3> DEFINE u == SubSeq(q, 1, i - 1)
               v == SubSeq(q, i + 1, n)
    <3> HIDE DEF u, v
    <3>1. /\ r \in Seq(S) /\ Len(r) = Len(u) + Len(v)
          /\ \A k \in 1..(Len(u) + Len(v)) :
               r[k] = IF k <= Len(u) THEN u[k] ELSE v[k - Len(u)]
      BY <2>2, <2>3, <2>4, SeqConcat DEF u, v
    <3>2. Len(u) = i - 1 /\ Len(v) = n - i /\ Len(r) = n - 1
      BY <1>0, <2>1, <2>3, <2>4, <3>1, SMT DEF u, v
    <3>3. ASSUME NEW k \in 1..(n - 1) PROVE r[k] = IF k < i THEN q[k] ELSE q[k + 1]
      <4>1. CASE k < i
        BY <1>0, <2>1, <2>3, <3>1, <3>2, <4>1, SMT DEF u
      <4>2. CASE k >= i
        <5>1. k - (i - 1) \in 1..(n - i) /\ (k - (i - 1)) + i = k + 1
          BY <1>0, <2>1, <4>2, SMT
        <5>2. r[k] = v[k - (i - 1)]
          BY <1>0, <2>1, <3>1, <3>2, <4>2, SMTT(30)
        <5> QED
          BY <1>0, <2>1, <2>4, <4>2, <5>1, <5>2, SMTT(30) DEF v
      <4> QED
        BY <1>0, <2>1, <4>1, <4>2, SMT
    <3> QED
      BY <3>1, <3>2, <3>3
  <2>6. DOMAIN r = 1..(n - 1)
    BY <2>5, SeqIsFunction
  <2>7. \A j, k \in 1..n : q[j] = q[k] => j = k
    BY <1>0 DEF IsInjective
  <2>8. IsInjective(r)
    <3> SUFFICES ASSUME NEW j \in 1..(n - 1), NEW k \in 1..(n - 1), r[j] = r[k] PROVE j = k
      BY <2>6 DEF IsInjective
    <3> DEFINE h(m) == IF m < i THEN m ELSE m + 1
    <3>1. h(j) \in 1..n /\ h(k) \in 1..n /\ (h(j) = h(k) => j = k)
      BY <1>0, <2>1, SMT
    <3>2. r[j] = q[h(j)] /\ r[k] = q[h(k)]
      BY <2>5
    <3> HIDE DEF h
    <3> QED
      BY <2>7, <3>1, <3>2
  <2>9. ASSUME NEW x PROVE x \in Range(r) <=> x \in Range(q) \ {p}
    <3>1. ASSUME NEW k \in 1..(n - 1), r[k] = x PROVE x \in Range(q) \ {p}
      <4>1. PICK j \in 1..n : j # i /\ q[j] = x
        BY <1>0, <2>1, <2>5, <3>1, SMT
      <4> QED
        BY <1>0, <2>1, <2>7, <4>1 DEF Range
    <3>2. ASSUME NEW k \in 1..n, q[k] = x, x # p PROVE x \in Range(r)
      <4>1. CASE k < i
        BY <1>0, <2>1, <2>5, <2>6, <3>2, <4>1, SMT DEF Range
      <4>2. CASE k > i
        <5>1. k - 1 \in 1..(n - 1) /\ r[k - 1] = q[k]
          BY <1>0, <2>1, <2>5, <4>2, SMT
        <5> QED
          BY <5>1, <2>6, <3>2 DEF Range
      <4> QED
        BY <1>0, <2>1, <3>2, <4>1, <4>2, SMT
    <3> QED
      BY <1>0, <2>6, <3>1, <3>2 DEF Range
  <2> QED
    BY <2>5, <2>8, <2>9 DEF r
<1> QED
  BY <1>1, <1>2

\* One queue changes.
LEMMA OneQueueChanges ==
  ASSUME TypeOK, ActiveOnce, NEW s \in Spaces, NEW a \in {"heap", "mmap"},
         NEW new \in Seq(Pages), IsInjective(new), active' = [active EXCEPT ![s][a] = new]
  PROVE  active' \in [Spaces -> [{"heap", "mmap"} -> Seq(Pages)]] /\ ActiveOnce'
<1>1. active \in [Spaces -> [{"heap", "mmap"} -> Seq(Pages)]]
  BY DEF TypeOK
<1> QED
  BY <1>1 DEF ActiveOnce

\* A page brought in goes to the end of its area's queue; the queues stay free of
\* repetitions.
Enqueues(s, p, a) == active' = [active EXCEPT ![s][a] = Append(Without(@, p), p)]

LEMMA ActiveFollows ==
  ASSUME TypeOK, ActiveOnce, NEW s \in Spaces, NEW p \in Pages, NEW a \in {"heap", "mmap"},
         Enqueues(s, p, a)
  PROVE  active' \in [Spaces -> [{"heap", "mmap"} -> Seq(Pages)]] /\ ActiveOnce'
<1> DEFINE q == active[s][a]
           new == Append(Without(q, p), p)
<1>1. active \in [Spaces -> [{"heap", "mmap"} -> Seq(Pages)]]
  BY DEF TypeOK
<1>2. q \in Seq(Pages) /\ IsInjective(q)
  BY <1>1 DEF ActiveOnce
<1>3. /\ Without(q, p) \in Seq(Pages) /\ IsInjective(Without(q, p))
      /\ Range(Without(q, p)) = Range(q) \ {p}
  BY <1>2, WithoutElements
<1>4. new \in Seq(Pages) /\ IsInjective(new)
  BY <1>3, PushElements, PushInjective
<1>5. active' = [active EXCEPT ![s][a] = new]
  BY DEF Enqueues
<1> HIDE DEF q, new
<1> QED
  BY <1>4, <1>5, OneQueueChanges

\* A round of reclaim takes the first page.
Dequeues(s, a) == active' = [active EXCEPT ![s][a] = Tail(@)]

LEMMA ActiveShrinks ==
  ASSUME TypeOK, ActiveOnce, NEW s \in Spaces, NEW a \in {"heap", "mmap"},
         active[s][a] # <<>>, Dequeues(s, a)
  PROVE  /\ active' \in [Spaces -> [{"heap", "mmap"} -> Seq(Pages)]] /\ ActiveOnce'
         /\ Head(active[s][a]) \in Pages
<1> DEFINE q == active[s][a]
<1>1. active \in [Spaces -> [{"heap", "mmap"} -> Seq(Pages)]]
  BY DEF TypeOK
<1>2. q \in Seq(Pages) /\ IsInjective(q)
  BY <1>1 DEF ActiveOnce
<1>3. Tail(q) \in Seq(Pages) /\ IsInjective(Tail(q)) /\ Head(q) \in Pages
  BY <1>2, PopFrontElements
<1>4. active' = [active EXCEPT ![s][a] = Tail(q)]
  BY DEF Dequeues
<1> HIDE DEF q
<1> QED
  BY <1>3, <1>4, OneQueueChanges DEF q

-----------------------------------------------------------------------------
\* What the kernel is doing.

LEMMA CallKinds ==
  ASSUME TypeOK
  PROVE  /\ call.op \in {"fault", "fork", "copy"} => call \in Requests
         /\ call.op = "drop" => call \in Drops
         /\ call = Idle => call.op = "idle"
         /\ call.op \in {"idle", "panic", "fault", "fork", "copy", "drop"}
         /\ Idle.op = "idle" /\ [op |-> "panic"].op = "panic"
BY SMT DEF TypeOK, Requests, Drops, Idle

CallTypes == {Idle, [op |-> "panic"]} \cup Requests \cup Drops
Visits == {NoVisit} \cup [space : Spaces, step : 1..3]

\* The types, as the lemmas use them.
LEMMA Typed ==
  ASSUME Inv
  PROVE  /\ frame_allocator \in Allocators /\ ram \in [Frames -> Values] /\ zram \in Stores
         /\ swap \in Areas /\ areas \in [Spaces -> {{}, {"heap"}, {"heap", "mmap"}}]
         /\ frames \in [Spaces -> [Pages -> Places]] /\ pte \in [Spaces -> [Pages -> Entries]]
         /\ active \in [Spaces -> [{"heap", "mmap"} -> Seq(Pages)]] /\ call \in CallTypes
BY DEF Inv, TypeOK, Allocators, Frames, Stores, Slots, Areas, SwapIds, Entries, CallTypes

LEMMA AreasAreTyped ==
  ASSUME Inv, NEW s \in Spaces
  PROVE  areas[s] \in SUBSET {"heap", "mmap"}
<1>1. areas \in [Spaces -> {{}, {"heap"}, {"heap", "mmap"}}]
  BY Typed
<1>2. areas[s] \in {{}, {"heap"}, {"heap", "mmap"}}
  BY <1>1
<1> QED
  BY <1>2

\* A step that changes the call and nothing else.
LEMMA OnlyCallChanges ==
  ASSUME Inv, UNCHANGED <<devices, tables>>, ~(call.op = "drop" /\ call.left # {}),
         call' \in CallTypes, CallIsSound'
  PROVE  Inv'
<1>1. /\ UNCHANGED <<frame_allocator, ram, zram, swap>> /\ UNCHANGED <<areas, frames, pte, active>>
  BY DEF devices, tables
<1>2. TypeOK'
  BY <1>1 DEF Inv, TypeOK, CallTypes
<1>3. TablesAgree' /\ FrameAccount' /\ ZramAccount' /\ SwapAccount' /\ ActiveOnce'
  BY <1>1 DEF Inv, TablesAgree, FrameAccount, ZramAccount, SwapAccount, ActiveOnce
<1>4. PagesHaveAreas'
  BY <1>1 DEF Inv, PagesHaveAreas, Leaving
<1> QED
  BY <1>2, <1>3, <1>4 DEF Inv

\* A request that goes on with its pages, in the same stage.
Alike(c, d) == /\ d.op = c.op /\ d.space = c.space /\ d.todo = c.todo
               /\ d.slices = c.slices /\ d.arg = c.arg /\ d.stage = c.stage

LEMMA RequestGoesOn ==
  ASSUME NEW c \in Requests, NEW n \in Nat, NEW v \in Visits, NEW b \in BOOLEAN
  PROVE  /\ [c EXCEPT !.need = n] \in Requests /\ Alike(c, [c EXCEPT !.need = n])
         /\ [c EXCEPT !.visit = v] \in Requests /\ Alike(c, [c EXCEPT !.visit = v])
         /\ [c EXCEPT !.need = n, !.visit = v] \in Requests
         /\ Alike(c, [c EXCEPT !.need = n, !.visit = v])
         /\ [c EXCEPT !.again = b, !.need = n, !.visit = v] \in Requests
         /\ Alike(c, [c EXCEPT !.again = b, !.need = n, !.visit = v])
BY DEF Requests, Visits, Alike

LEMMA AlikeIsSound ==
  ASSUME CallIsSound, Alike(call, call'), UNCHANGED areas
  PROVE  CallIsSound'
BY DEF CallIsSound, Alike

LEMMA ReserveGoesOn ==
  ASSUME TypeOK, NEW c \in Requests, frame_reserve(c)
  PROVE  call' \in Requests /\ Alike(c, call')
<1> USE MemoryAssumption
<1> DEFINE remain == unallocated_frames(frame_allocator)
<1>1. remain \in Nat
  <2>1. /\ frame_allocator.current \in 0..NFrames /\ frame_allocator.end = NFrames
        /\ frame_allocator.recycled \in Seq(0..(NFrames - 1))
    BY DEF TypeOK
  <2>2. Len(frame_allocator.recycled) \in Nat
    BY <2>1, SeqIsFunction
  <2> QED
    BY <2>1, <2>2, SMT DEF unallocated_frames
<1>2. CASE remain >= Reserve
  BY <1>2 DEF frame_reserve, Alike
<1>3. CASE ~(remain >= Reserve)
  <2>1. Reserve - remain \in Nat
    BY <1>1, <1>3, SMT
  <2>2. Visit(c.space, 1) \in Visits
    BY SMT DEF Visit, Visits, Requests
  <2>3. call' = [c EXCEPT !.need = Reserve - remain, !.visit = Visit(c.space, 1)]
    BY <1>3 DEF frame_reserve
  <2> QED
    BY <2>1, <2>2, <2>3, RequestGoesOn
<1> QED
  BY <1>2, <1>3

\* A page that moves within its area, or to no place.
LEMMA AreasFollow ==
  ASSUME TypeOK, PagesHaveAreas, call.op # "drop", UNCHANGED areas,
         NEW s \in Spaces, NEW p \in Pages, NEW f \in Places, Moves(s, p, f),
         f = Unallocated \/ AreaOf(p) \in areas[s]
  PROVE  PagesHaveAreas'
<1>1. \A t \in Spaces, q \in Pages :
        frames'[t][q] = IF t = s /\ q = p THEN f ELSE frames[t][q]
  BY OneMoves, SMT
<1> SUFFICES ASSUME NEW t \in Spaces, NEW q \in Pages
             PROVE  frames'[t][q] = Unallocated \/ AreaOf(q) \in areas[t]
  BY DEF PagesHaveAreas, Leaving
<1>2. frames[t][q] = Unallocated \/ AreaOf(q) \in areas[t]
  BY DEF PagesHaveAreas, Leaving
<1> QED
  BY <1>1, <1>2

-----------------------------------------------------------------------------
\* Every action preserves the invariant: the calls.

LEMMA VisitsFit ==
  /\ NoVisit \in Visits
  /\ \A s \in Spaces, k \in 1..3 : Visit(s, k) \in Visits /\ Visit(s, k).space = s
  /\ \A v \in Visits : v # NoVisit => v.space \in Spaces /\ v.step \in 1..3
BY DEF Visits, Visit

LEMMA NextVisitKeeps == ASSUME Inv, NextVisit PROVE Inv'
<1>1. call \in Requests /\ call.op # "drop"
  BY CallKinds DEF NextVisit, Reclaiming, Inv
<1>2. PICK v \in Visits : call' = [call EXCEPT !.visit = v]
  <2>1. CASE call' = [call EXCEPT !.visit = NoVisit]
    BY <2>1, VisitsFit
  <2>2. ASSUME NEW s \in Living \ Locked, NEW k \in {2, 3},
               call' = [call EXCEPT !.visit = Visit(s, k)]
        PROVE  \E v \in Visits : call' = [call EXCEPT !.visit = v]
    BY <2>2, VisitsFit, SMT DEF Living
  <2> QED
    BY <2>1, <2>2 DEF NextVisit
<1>3. call' \in Requests /\ Alike(call, call')
  BY <1>1, <1>2, RequestGoesOn
<1>4. UNCHANGED <<devices, tables>>
  BY DEF NextVisit
<1>5. CallIsSound'
  BY <1>3, <1>4, AlikeIsSound DEF Inv, tables
<1> QED
  BY <1>1, <1>3, <1>4, <1>5, OnlyCallChanges DEF CallTypes

LEMMA ExhaustedKeeps == ASSUME Inv, Exhausted PROVE Inv'
<1>0. call.op \in {"fault", "copy"} /\ TypeOK
  BY DEF Exhausted, Running, Inv
<1>1. call \in Requests /\ call.op # "drop"
  BY <1>0, CallKinds
<1>2. UNCHANGED <<devices, tables>>
  BY DEF Exhausted
<1>3. CASE ~call.again
  <2>1. PICK v \in Visits : AskAgain(v)
    BY <1>3, VisitsFit, SMT DEF Exhausted, Living
  <2>4. call' \in Requests /\ Alike(call, call')
    BY <1>1, <2>1 DEF AskAgain, Requests, Alike, Visits
  <2>5. CallIsSound'
    BY <1>2, <2>4, AlikeIsSound DEF Inv, tables
  <2> QED
    BY <1>1, <1>2, <2>4, <2>5, OnlyCallChanges DEF CallTypes
<1>4. CASE call.again
  <2>1. call' \in {Idle, [op |-> "panic"]}
    BY <1>4 DEF Exhausted
  <2>2. CallIsSound'
    BY <2>1, SMT DEF CallIsSound, Idle
  <2> QED
    BY <1>1, <1>2, <2>1, <2>2, OnlyCallChanges DEF CallTypes
<1> QED
  BY <1>3, <1>4

LEMMA RequestIsTyped ==
  ASSUME NEW o \in {"fault", "fork", "copy"}, NEW s \in Spaces, NEW b \in Seq(Pages)
  PROVE  /\ Request(o, s, b) \in Requests /\ Request(o, s, b).op = o
         /\ Request(o, s, b).space = s /\ Request(o, s, b).todo = b
         /\ Request(o, s, b).stage = "reserved" /\ Request(o, s, b).visit = NoVisit
BY MemoryAssumption, SMT DEF Request, Requests

LEMMA FaultKeeps ==
  ASSUME Inv, NEW s \in Spaces, NEW p \in Pages, Fault(s, p)
  PROVE  Inv'
<1> DEFINE c == Request("fault", s, <<p>>)
<1>1. /\ c \in Requests /\ c.op = "fault" /\ c.space = s /\ c.todo = <<p>> /\ c.stage = "reserved"
  BY MemoryAssumption, SMT DEF Request, Requests
<1>2. /\ call = Idle /\ AreaOf(p) \in areas[s] /\ frame_reserve(c) /\ UNCHANGED <<devices, tables>>
  BY DEF Fault
<1> HIDE DEF c
<1>3. call' \in Requests /\ Alike(c, call')
  BY <1>1, <1>2, ReserveGoesOn DEF Inv
<1>4. CallIsSound'
  BY <1>1, <1>2, <1>3, SMT DEF CallIsSound, Alike, tables
<1> QED
  BY <1>2, <1>3, <1>4, OnlyCallChanges, CallKinds DEF CallTypes, Inv

LEMMA CopyKeeps ==
  ASSUME Inv, NEW s \in Spaces, NEW b \in Buffers, NEW x \in Values, copy_to_user(s, b, x)
  PROVE  Inv'
<1>1. /\ call = Idle /\ \A i \in DOMAIN b : AreaOf(b[i]) \in areas[s]
      /\ call' = [Request("copy", s, b) EXCEPT !.stage = "translate", !.arg = x]
      /\ UNCHANGED <<devices, tables>>
  BY DEF copy_to_user
<1>2. b \in Seq(Pages) /\ b # <<>>
  BY MemoryAssumption DEF Pages
<1>3. /\ call' \in Requests /\ call'.op = "copy" /\ call'.space = s /\ call'.todo = b
      /\ call'.stage = "translate" /\ call'.arg = x
  <2> DEFINE r == Request("copy", s, b)
  <2>1. r \in Requests /\ r.op = "copy" /\ r.space = s /\ r.todo = b
    BY <1>2, RequestIsTyped, SMT
  <2>2. call' = [r EXCEPT !.stage = "translate", !.arg = x]
    BY <1>1
  <2> HIDE DEF r
  <2> QED
    BY <2>1, <2>2 DEF Requests
<1>4. CallIsSound'
  BY <1>1, <1>2, <1>3 DEF CallIsSound, tables
<1> QED
  BY <1>1, <1>3, <1>4, OnlyCallChanges, CallKinds DEF CallTypes, Inv

LEMMA ForkKeeps ==
  ASSUME Inv, NEW s \in Spaces, NEW k \in Spaces, Fork(s, k)
  PROVE  Inv'
<1> DEFINE c == [Request("fork", s, <<>>) EXCEPT !.arg = k]
<1>1. /\ c \in Requests /\ c.op = "fork" /\ c.space = s /\ c.arg = k
  <2> DEFINE r == Request("fork", s, <<>>)
  <2>1. r \in Requests /\ r.op = "fork" /\ r.space = s
    BY MemoryAssumption, SeqIsEmpty DEF Request, Requests
  <2> HIDE DEF r
  <2>2. /\ [r EXCEPT !.arg = k] \in Requests /\ [r EXCEPT !.arg = k].op = "fork"
        /\ [r EXCEPT !.arg = k].space = s /\ [r EXCEPT !.arg = k].arg = k
    BY <2>1 DEF Requests
  <2> QED
    BY <2>2 DEF r
<1>2. /\ call = Idle /\ areas[s] # {} /\ areas[k] = {} /\ frame_reserve(c)
      /\ UNCHANGED <<devices, tables>>
  BY DEF Fork, Living
<1> HIDE DEF c
<1>3. call' \in Requests /\ Alike(c, call')
  BY <1>1, <1>2, ReserveGoesOn DEF Inv
<1>4. CallIsSound'
  BY <1>1, <1>2, <1>3 DEF CallIsSound, Alike, tables
<1> QED
  BY <1>2, <1>3, <1>4, OnlyCallChanges, CallKinds DEF CallTypes, Inv

LEMMA DroppedKeeps == ASSUME Inv, Dropped PROVE Inv'
<1>1. call' = Idle /\ UNCHANGED <<devices, tables>> /\ call.left = {}
  BY DEF Dropped
<1>2. CallIsSound'
  BY <1>1 DEF CallIsSound, Idle
<1> QED
  BY <1>1, <1>2, OnlyCallChanges DEF CallTypes

-----------------------------------------------------------------------------
\* The page fault.

\* The pages a page moves out to are nobody's.
LEMMA FreshSlot ==
  ASSUME TypeOK, ZramAccount, HasSpace(zram)
  PROVE  /\ Compressed(ZramId(zram)) \in Places /\ Compressed(ZramId(zram)).at = "zram"
         /\ ~Owned(frames, Compressed(ZramId(zram)))
<1>1. zram \in Stores
  BY DEF TypeOK, Stores, Slots
<1>2. PICK x : x \in Values
  BY MemoryAssumption
<1>3. ZramId(zram) \in Slots /\ ~Stored(zram, ZramId(zram))
  BY <1>1, <1>2, ZramWriteStoresOne DEF ZramAccount
<1> QED
  BY <1>3, PlacesDiffer DEF ZramAccount

LEMMA FreshSwap ==
  ASSUME TypeOK, SwapAccount, Free(swap) # {}
  PROVE  /\ SwappedOut(alloc_page(swap)) \in Places /\ SwappedOut(alloc_page(swap)).at = "swap"
         /\ ~Owned(frames, SwappedOut(alloc_page(swap)))
<1>1. swap \in Areas
  BY DEF TypeOK, Areas, SwapIds
<1>2. PICK x : x \in Values
  BY MemoryAssumption
<1>3. alloc_page(swap) \in SwapIds /\ alloc_page(swap) \notin swap.bitmap
  BY <1>1, <1>2, SwapWriteStoresOne
<1> QED
  BY <1>3, PlacesDiffer DEF SwapAccount

\* The page a fault or a copy is at.
LEMMA PageAtHand ==
  ASSUME Inv, call.op \in {"fault", "copy"}, call.todo # <<>>
  PROVE  /\ call \in Requests /\ call.space \in Spaces
         /\ Faulting \in Pages /\ AreaOf(Faulting) \in areas[call.space]
<1>1. TypeOK /\ CallIsSound
  BY DEF Inv
<1>2. call \in Requests
  BY <1>1, CallKinds
<1>3. call.space \in Spaces /\ call.todo \in Seq(Pages)
  BY <1>2 DEF Requests
<1>4. Head(call.todo) \in Pages /\ Head(call.todo) = call.todo[1] /\ 1 \in DOMAIN call.todo
  BY <1>3, SeqTail, SeqIsEmpty, SeqIsFunction, SMT
<1> QED
  BY <1>1, <1>2, <1>3, <1>4 DEF CallIsSound, Faulting

LEMMA RunningPage ==
  ASSUME Inv, Running
  PROVE  call.op \in {"fault", "copy"} /\ call.todo # <<>> /\ call.op # "drop"
<1>1. call.op \in {"fault", "copy"} /\ call.stage = "reserved" /\ CallIsSound
  BY DEF Running, Inv
<1> QED
  BY <1>1 DEF CallIsSound

\* A page that is found is taken off the call's list.
LEMMA ResolveGoesOn ==
  ASSUME Inv, call.op \in {"fault", "copy"}, call.todo # <<>>, NEW ppn \in 0..NFrames,
         Resolve(ppn), UNCHANGED areas
  PROVE  call' \in CallTypes /\ CallIsSound'
<1>1. call \in Requests /\ call.space \in Spaces /\ Faulting \in Pages
  BY PageAtHand
<1>2. CASE call.op = "fault"
  <2>1. call' = Idle
    BY <1>2 DEF Resolve
  <2> QED
    BY <2>1 DEF CallIsSound, Idle, CallTypes
<1>3. CASE call.op # "fault"
  <2> DEFINE todo == Tail(call.todo)
             slices == Append(call.slices, [page |-> Faulting, ppn |-> ppn])
  <2>1. call' = [call EXCEPT !.stage = "translate", !.again = FALSE, !.todo = todo,
                             !.slices = slices]
    BY <1>3 DEF Resolve
  <2>2. /\ call.todo \in Seq(Pages) /\ call.slices \in Seq([page : Pages, ppn : 0..NFrames])
        /\ call.op = "copy"
    BY <1>1, <1>3 DEF Requests
  <2>3. /\ todo \in Seq(Pages) /\ Len(todo) = Len(call.todo) - 1
        /\ \A i \in 1..Len(todo) : todo[i] = call.todo[i + 1]
    BY <2>2, SeqTail
  <2>4. [page |-> Faulting, ppn |-> ppn] \in [page : Pages, ppn : 0..NFrames]
    BY <1>1
  <2>5. slices \in Seq([page : Pages, ppn : 0..NFrames]) /\ slices # <<>>
    BY <2>2, <2>4, PushElements
  <2>6. ASSUME NEW i \in DOMAIN todo PROVE AreaOf(todo[i]) \in areas[call.space]
    <3>1. i \in 1..Len(todo) /\ i + 1 \in DOMAIN call.todo
      BY <2>2, <2>3, SeqIsFunction, SMT
    <3> QED
      BY <2>2, <2>3, <3>1 DEF Inv, CallIsSound
  <2> HIDE DEF todo, slices
  <2>7. /\ call' \in Requests /\ call'.op = "copy" /\ call'.todo = todo
        /\ call'.slices = slices /\ call'.space = call.space /\ call'.stage = "translate"
        /\ call'.arg = call.arg
    BY <1>1, <2>1, <2>2, <2>3, <2>5 DEF Requests
  <2>8. call.arg \in Values
    BY <2>2 DEF Inv, CallIsSound
  <2>9. CallIsSound'
    BY <2>5, <2>6, <2>7, <2>8 DEF CallIsSound
  <2> QED
    BY <2>7, <2>9 DEF CallTypes
<1> QED
  BY <1>2, <1>3

LEMMA TranslateKeeps == ASSUME Inv, translated_byte_buffer PROVE Inv'
<1>1. /\ call.op = "copy" /\ call.stage = "translate" /\ call.todo # <<>>
      /\ UNCHANGED <<devices, tables>> /\ TypeOK
  BY DEF translated_byte_buffer, Translating, Inv
<1>2. call \in Requests /\ call.space \in Spaces /\ Faulting \in Pages
  BY <1>1, PageAtHand
<1>3. UNCHANGED areas
  BY <1>1 DEF tables
<1>4. CASE Mapped(call.space, Faulting)
  <2>1. Resolve(pte[call.space][Faulting].ppn)
    BY <1>4 DEF translated_byte_buffer
  <2>2. pte[call.space][Faulting].ppn \in 0..NFrames
    BY <1>1, <1>2, SMT DEF TypeOK
  <2>3. call' \in CallTypes /\ CallIsSound'
    BY <1>1, <1>3, <2>1, <2>2, ResolveGoesOn
  <2> QED
    BY <1>1, <2>3, OnlyCallChanges
<1>5. CASE ~Mapped(call.space, Faulting)
  <2> DEFINE c == [call EXCEPT !.stage = "reserved"]
  <2>1. frame_reserve(c)
    BY <1>5 DEF translated_byte_buffer
  <2>2. /\ c \in Requests /\ c.op = "copy" /\ c.space = call.space /\ c.todo = call.todo
        /\ c.slices = call.slices /\ c.arg = call.arg
    BY <1>1, <1>2 DEF Requests
  <2> HIDE DEF c
  <2>3. call' \in Requests /\ Alike(c, call')
    BY <1>1, <2>1, <2>2, ReserveGoesOn
  <2>4. /\ \A i \in DOMAIN call.todo : AreaOf(call.todo[i]) \in areas[call.space]
        /\ call.arg \in Values
    BY <1>1 DEF Inv, CallIsSound
  <2>5. CallIsSound'
    BY <1>1, <1>3, <2>2, <2>3, <2>4 DEF CallIsSound, Alike
  <2> QED
    BY <1>1, <2>3, <2>5, OnlyCallChanges DEF CallTypes
<1> QED
  BY <1>4, <1>5

\* What a page outside the frames holds is the content of a page.
LEMMA ReadsAreValues ==
  ASSUME Inv, NEW s \in Spaces, NEW p \in Pages
  PROVE  /\ frames[s][p].at = "zram" => zram_read(zram, frames[s][p].id) \in Values
         /\ frames[s][p].at = "swap" => swap_read(swap, frames[s][p].id) \in Values
         /\ frames[s][p].at = "ram" => /\ frames[s][p].id \in Frames
                                       /\ ram[frames[s][p].id] \in Values
<1> DEFINE f == frames[s][p]
<1>1. /\ f \in Places /\ ram \in [Frames -> Values] /\ Owned(frames, f)
      /\ zram \in Stores /\ swap \in Areas /\ ZramAccount
  <2>1. /\ frames \in [Spaces -> [Pages -> Places]] /\ ram \in [Frames -> Values]
        /\ zram \in Stores /\ swap \in Areas
    BY Typed DEF Inv
  <2> QED
    BY <2>1 DEF Inv, Owned
<1> HIDE DEF f
<1>2. CASE f.at = "zram"
  <2>1. f.id \in Slots /\ f = Compressed(f.id)
    BY <1>1, <1>2, PlacesDiffer
  <2>2. zram.compressed[f.id] # Absent
    BY <1>1, <2>1 DEF ZramAccount, FitsZram
  <2>3. PICK y \in Values : zram.compressed[f.id] = compress_prepend_size(y)
    BY <1>1, <2>1, <2>2 DEF Stores
  <2> QED
    BY <1>2, <2>3, SMT DEF f, zram_read, compress_prepend_size, decompress_size_prepended
<1>3. CASE f.at = "swap"
  BY <1>1, <1>3, PlacesDiffer DEF f, swap_read, Areas
<1>4. CASE f.at = "ram"
  BY <1>1, <1>4, PlacesDiffer DEF f
<1> QED
  BY <1>2, <1>3, <1>4 DEF f

LEMMA EntriesFit ==
  ASSUME NEW i \in Frames, NEW w \in BOOLEAN
  PROVE  Entry(i, w) \in Entries /\ Entry(i, w).ppn = i /\ Unmapped \in Entries /\ Entry(i, w).w = w
BY MemoryAssumption, SMT DEF Entry, Entries, Frames, Unmapped

\* What bringing a page in changes, wherever it comes from.
LEMMA PageComesIn ==
  ASSUME Inv, Running, NEW ppn \in Frames, MapTo(ppn)
  PROVE  /\ call.space \in Spaces /\ Faulting \in Pages /\ InMemory(ppn) \in Places
         /\ Moves(call.space, Faulting, InMemory(ppn))
         /\ Remaps(call.space, Faulting, Entry(ppn, TRUE))
         /\ frames' \in [Spaces -> [Pages -> Places]]
         /\ active' \in [Spaces -> [{"heap", "mmap"} -> Seq(Pages)]] /\ ActiveOnce'
         /\ PagesHaveAreas' /\ CallIsSound' /\ call' \in CallTypes /\ UNCHANGED areas
<1>1. /\ call.op \in {"fault", "copy"} /\ call.todo # <<>> /\ call.op # "drop"
  BY RunningPage
<1>2. /\ call.space \in Spaces /\ Faulting \in Pages /\ AreaOf(Faulting) \in areas[call.space]
  BY <1>1, PageAtHand
<1>3. InMemory(ppn) \in Places /\ AreaOf(Faulting) \in {"heap", "mmap"}
  BY PlacesDiffer DEF AreaOf
<1>4. /\ Moves(call.space, Faulting, InMemory(ppn))
      /\ Remaps(call.space, Faulting, Entry(ppn, TRUE))
      /\ Enqueues(call.space, Faulting, AreaOf(Faulting))
      /\ Resolve(ppn) /\ UNCHANGED areas
  BY DEF MapTo, Moves, Remaps, Enqueues
<1>5. TypeOK /\ PagesHaveAreas /\ ActiveOnce
  BY DEF Inv
<1>6. frames' \in [Spaces -> [Pages -> Places]]
  BY <1>2, <1>3, <1>4, <1>5, OneMoves
<1>7. active' \in [Spaces -> [{"heap", "mmap"} -> Seq(Pages)]] /\ ActiveOnce'
  BY <1>2, <1>3, <1>4, <1>5, ActiveFollows
<1>8. PagesHaveAreas'
  BY <1>1, <1>2, <1>3, <1>4, <1>5, AreasFollow
<1>9. ppn \in 0..NFrames
  BY MemoryAssumption, SMT DEF Frames
<1>10. CallIsSound' /\ call' \in CallTypes
  BY <1>1, <1>4, <1>9, ResolveGoesOn
<1> QED
  BY <1>2, <1>3, <1>4, <1>6, <1>7, <1>8, <1>10

\* The invariant, from its parts.
LEMMA Assembled ==
  ASSUME frame_allocator' \in Allocators, ram' \in [Frames -> Values], zram' \in Stores,
         swap' \in Areas, areas' \in [Spaces -> {{}, {"heap"}, {"heap", "mmap"}}],
         frames' \in [Spaces -> [Pages -> Places]], pte' \in [Spaces -> [Pages -> Entries]],
         active' \in [Spaces -> [{"heap", "mmap"} -> Seq(Pages)]], call' \in CallTypes,
         TablesAgree', FrameAccount', ZramAccount', SwapAccount', PagesHaveAreas',
         CallIsSound', ActiveOnce'
  PROVE  Inv'
<1>1. TypeOK'
  BY DEF TypeOK, Allocators, Frames, Stores, Slots, Areas, SwapIds, Entries, CallTypes
<1> QED
  BY <1>1 DEF Inv

\* Three of the faults take a fresh frame for a page that is not in memory.
LEMMA TakeFrameKeeps ==
  ASSUME Inv, Running, NEW x \in Values, TakeFrame(x), Here.at # "ram",
         SlotsMove(call.space, Faulting, InMemory(Ppn(frame_allocator)), x),
         SwapMoves(call.space, Faulting, InMemory(Ppn(frame_allocator)), x)
  PROVE  Inv'
<1> DEFINE ppn == Ppn(frame_allocator)
           s == call.space
           p == Faulting
           f == InMemory(ppn)
           e == Entry(ppn, TRUE)
<1>1. /\ CanAlloc(frame_allocator) /\ frame_allocator' = alloc(frame_allocator)
      /\ ram' = [ram EXCEPT ![ppn] = x] /\ MapTo(ppn)
  BY DEF TakeFrame
<1>2. /\ TypeOK /\ TablesAgree /\ FrameAccount /\ ZramAccount /\ SwapAccount
  BY DEF Inv
<1>3. ppn \in Frames /\ f \in Places /\ ~Owned(frames, f) /\ f.at = "ram" /\ f.id = ppn
  BY <1>1, <1>2, FreshFrame, PlacesDiffer
<1>4. /\ s \in Spaces /\ p \in Pages /\ Moves(s, p, f) /\ Remaps(s, p, e)
      /\ frames' \in [Spaces -> [Pages -> Places]]
      /\ active' \in [Spaces -> [{"heap", "mmap"} -> Seq(Pages)]] /\ ActiveOnce'
      /\ PagesHaveAreas' /\ CallIsSound' /\ call' \in CallTypes /\ UNCHANGED areas
  BY <1>1, <1>3, PageComesIn
<1>5. e \in Entries /\ e.ppn = ppn
  BY <1>3, EntriesFit
<1>6. FramesMove(s, p, f)
  BY <1>1, <1>3 DEF FramesMove, FrameTaken, LastLeaves, Here
<1>7. SlotsMove(s, p, f, x) /\ SwapMoves(s, p, f, x)
  OBVIOUS
<1>8. ram' \in [Frames -> Values]
  BY <1>1, Typed
<1> HIDE DEF ppn, s, p, f, e
<1>9. TablesAgree' /\ pte' \in [Spaces -> [Pages -> Entries]]
  BY <1>2, <1>3, <1>4, <1>5, TablesFollow
<1>10. frame_allocator' \in Allocators /\ FrameAccount'
  BY <1>2, <1>3, <1>4, <1>6, FramesFollow
<1>11. zram' \in Stores /\ ZramAccount'
  BY <1>2, <1>3, <1>4, <1>7, SlotsFollow
<1>12. swap' \in Areas /\ SwapAccount'
  BY <1>2, <1>3, <1>4, <1>7, SwapFollows
<1>13. areas' \in [Spaces -> {{}, {"heap"}, {"heap", "mmap"}}]
  BY <1>4, Typed
<1> QED
  BY <1>4, <1>8, <1>9, <1>10, <1>11, <1>12, <1>13, Assembled

LEMMA ZeroedKeeps == ASSUME Inv, map_one_zeroed PROVE Inv'
<1> DEFINE f == InMemory(Ppn(frame_allocator))
<1>1. /\ Running /\ Here = Unallocated /\ TakeFrame(Zero) /\ UNCHANGED <<zram, swap>>
  BY DEF map_one_zeroed
<1>2. Here.at = "none" /\ f.at = "ram" /\ Zero \in Values
  BY <1>1, PlacesDiffer, MemoryAssumption
<1> HIDE DEF f
<1>3. SlotsMove(call.space, Faulting, f, Zero) /\ SwapMoves(call.space, Faulting, f, Zero)
  BY <1>1, <1>2 DEF SlotsMove, SlotTaken, SwapMoves, SwapTaken, LastLeaves, Here
<1> QED
  BY <1>1, <1>2, <1>3, TakeFrameKeeps DEF f

LEMMA UnzipKeeps == ASSUME Inv, unzip PROVE Inv'
<1> DEFINE f == InMemory(Ppn(frame_allocator))
           x == zram_read(zram, Here.id)
<1>1. /\ Running /\ Here.at = "zram" /\ TakeFrame(x) /\ UNCHANGED swap
      /\ zram' = IF Sole(Here) THEN zram_discard(zram, Here.id, Absent) ELSE zram
  BY DEF unzip
<1>2. call.space \in Spaces /\ Faulting \in Pages
  BY <1>1, RunningPage, PageAtHand
<1>3. f.at = "ram" /\ x \in Values
  BY <1>1, <1>2, PlacesDiffer, ReadsAreValues DEF Here
<1> HIDE DEF f, x
<1>4. SlotsMove(call.space, Faulting, f, x) /\ SwapMoves(call.space, Faulting, f, x)
  BY <1>1, <1>3 DEF SlotsMove, SlotTaken, SwapMoves, SwapTaken, LastLeaves, Here
<1> QED
  BY <1>1, <1>3, <1>4, TakeFrameKeeps DEF f

LEMMA SwapInKeeps == ASSUME Inv, swap_in PROVE Inv'
<1> DEFINE f == InMemory(Ppn(frame_allocator))
           x == swap_read(swap, Here.id)
<1>1. /\ Running /\ Here.at = "swap" /\ TakeFrame(x) /\ UNCHANGED zram
      /\ swap' = IF Sole(Here) THEN swap_discard(swap, Here.id) ELSE swap
  BY DEF swap_in
<1>2. call.space \in Spaces /\ Faulting \in Pages
  BY <1>1, RunningPage, PageAtHand
<1>3. f.at = "ram" /\ x \in Values
  BY <1>1, <1>2, PlacesDiffer, ReadsAreValues DEF Here
<1> HIDE DEF f, x
<1>4. SlotsMove(call.space, Faulting, f, x) /\ SwapMoves(call.space, Faulting, f, x)
  BY <1>1, <1>3 DEF SlotsMove, SlotTaken, SwapMoves, SwapTaken, LastLeaves, Here
<1> QED
  BY <1>1, <1>3, <1>4, TakeFrameKeeps DEF f

\* A mapped page is in memory.
LEMMA MappedPage ==
  ASSUME Inv, NEW s \in Spaces, NEW p \in Pages, Mapped(s, p)
  PROVE  /\ frames[s][p].at = "ram" /\ frames[s][p].id \in Frames
         /\ frames[s][p] = InMemory(frames[s][p].id)
         /\ pte[s][p].ppn = frames[s][p].id
<1>1. frames[s][p].at = "ram" /\ pte[s][p].ppn = frames[s][p].id
  BY DEF Inv, TablesAgree, Mapped
<1>2. frames[s][p] \in Places
  BY SMT DEF Inv, TypeOK
<1> QED
  BY <1>1, <1>2, PlacesDiffer

LEMMA AllowWriteKeeps == ASSUME Inv, AllowWrite PROVE Inv'
<1> DEFINE s == call.space
           p == Faulting
           ppn == Here.id
           e == Entry(ppn, TRUE)
<1>1. /\ Running /\ Mapped(s, p) /\ Sole(Here) /\ MapTo(ppn) /\ UNCHANGED devices
  BY DEF AllowWrite
<1>2. s \in Spaces /\ p \in Pages
  BY <1>1, RunningPage, PageAtHand
<1>3. /\ TypeOK /\ TablesAgree /\ FrameAccount /\ ZramAccount /\ SwapAccount
  BY DEF Inv
<1>4. ppn \in Frames /\ frames[s][p] = InMemory(ppn) /\ frames[s][p].at = "ram"
  BY <1>1, <1>2, MappedPage DEF Here
<1>5. /\ Moves(s, p, InMemory(ppn)) /\ Remaps(s, p, e)
      /\ active' \in [Spaces -> [{"heap", "mmap"} -> Seq(Pages)]] /\ ActiveOnce'
      /\ PagesHaveAreas' /\ CallIsSound' /\ call' \in CallTypes /\ UNCHANGED areas
  BY <1>1, <1>4, PageComesIn
<1>6. e \in Entries /\ e.ppn = ppn
  BY <1>4, EntriesFit
<1>7. OnlyOwner(frames, s, p)
  BY <1>1, <1>2, <1>3, SoleIsOnlyOwner DEF Here
<1>8. InMemory(ppn).id = ppn
  BY PlacesDiffer
<1> HIDE DEF s, p, ppn, e
<1>9. frames' = frames
  BY <1>2, <1>4, <1>5, Typed DEF Moves
<1>10. /\ pte' \in [Spaces -> [Pages -> Entries]]
       /\ \A t \in Spaces, q \in Pages : pte'[t][q] = IF t = s /\ q = p THEN e ELSE pte[t][q]
  BY <1>2, <1>5, <1>6, Typed DEF Remaps
<1>11. ASSUME NEW t \in Spaces, NEW q \in Pages
       PROVE  /\ frames[t][q].at = "ram" => pte'[t][q].ppn = frames[t][q].id
              /\ frames[t][q].at # "ram" => pte'[t][q] = Unmapped
              /\ pte'[t][q].w => OnlyOwner(frames, t, q)
  <2>1. CASE t = s /\ q = p
    BY <2>1, <1>4, <1>6, <1>7, <1>8, <1>10
  <2>2. CASE ~(t = s /\ q = p)
    <3>1. pte'[t][q] = pte[t][q]
      BY <1>10, <2>2
    <3> QED
      BY <1>3, <3>1 DEF TablesAgree
  <2> QED
    BY <2>1, <2>2
<1>12. TablesAgree'
  BY <1>9, <1>11 DEF TablesAgree
<1>13. FrameAccount' /\ ZramAccount' /\ SwapAccount'
  BY <1>1, <1>3, <1>9 DEF FrameAccount, ZramAccount, SwapAccount, devices
<1>14. /\ frame_allocator' \in Allocators /\ ram' \in [Frames -> Values] /\ zram' \in Stores
       /\ swap' \in Areas /\ frames' \in [Spaces -> [Pages -> Places]]
       /\ areas' \in [Spaces -> {{}, {"heap"}, {"heap", "mmap"}}]
  BY <1>1, <1>5, <1>9, Typed DEF devices
<1> QED
  BY <1>5, <1>10, <1>12, <1>13, <1>14, Assembled

LEMMA CopyOnWriteKeeps == ASSUME Inv, copy_on_write PROVE Inv'
<1> DEFINE s == call.space
           p == Faulting
           ppn == Ppn(frame_allocator)
           f == InMemory(ppn)
           e == Entry(ppn, TRUE)
<1>1. /\ Running /\ Mapped(s, p) /\ CanAlloc(frame_allocator)
      /\ ram' = [ram EXCEPT ![ppn] = ram[Here.id]]
      /\ frame_allocator' = IF Sole(Here) THEN dealloc(alloc(frame_allocator), Here.id)
                            ELSE alloc(frame_allocator)
      /\ MapTo(ppn) /\ UNCHANGED <<zram, swap>>
  BY DEF copy_on_write
<1>2. s \in Spaces /\ p \in Pages
  BY <1>1, RunningPage, PageAtHand
<1>3. /\ TypeOK /\ TablesAgree /\ FrameAccount /\ ZramAccount /\ SwapAccount
  BY DEF Inv
<1>4. ppn \in Frames /\ f \in Places /\ ~Owned(frames, f) /\ f.at = "ram" /\ f.id = ppn
  BY <1>1, <1>3, FreshFrame, PlacesDiffer
<1>5. /\ Moves(s, p, f) /\ Remaps(s, p, e)
      /\ frames' \in [Spaces -> [Pages -> Places]]
      /\ active' \in [Spaces -> [{"heap", "mmap"} -> Seq(Pages)]] /\ ActiveOnce'
      /\ PagesHaveAreas' /\ CallIsSound' /\ call' \in CallTypes /\ UNCHANGED areas
  BY <1>1, <1>4, PageComesIn
<1>6. e \in Entries /\ e.ppn = ppn
  BY <1>4, EntriesFit
<1>7. Here = frames[s][p] /\ Here.at = "ram" /\ ram[Here.id] \in Values
  BY <1>1, <1>2, MappedPage, ReadsAreValues DEF Here
<1>8. FramesMove(s, p, f)
  BY <1>1, <1>4, <1>7 DEF FramesMove, FrameTaken, LastLeaves
<1>9. ram' \in [Frames -> Values]
  BY <1>1, <1>7, Typed
<1>10. PICK x : x \in Values
  BY <1>7
<1> HIDE DEF ppn, s, p, f, e
<1>11. SlotsMove(s, p, f, x) /\ SwapMoves(s, p, f, x)
  BY <1>1, <1>4, <1>7 DEF SlotsMove, SlotTaken, SwapMoves, SwapTaken, LastLeaves
<1>12. TablesAgree' /\ pte' \in [Spaces -> [Pages -> Entries]]
  BY <1>2, <1>3, <1>4, <1>5, <1>6, TablesFollow
<1>13. frame_allocator' \in Allocators /\ FrameAccount'
  BY <1>2, <1>3, <1>4, <1>5, <1>8, FramesFollow
<1>14. zram' \in Stores /\ ZramAccount'
  BY <1>2, <1>3, <1>4, <1>5, <1>10, <1>11, SlotsFollow
<1>15. swap' \in Areas /\ SwapAccount'
  BY <1>2, <1>3, <1>4, <1>5, <1>10, <1>11, SwapFollows
<1>16. areas' \in [Spaces -> {{}, {"heap"}, {"heap", "mmap"}}]
  BY <1>5, Typed
<1> QED
  BY <1>5, <1>9, <1>12, <1>13, <1>14, <1>15, <1>16, Assembled

-----------------------------------------------------------------------------
\* Reclaim.

\* The page of a round.
LEMMA Reclaimed ==
  ASSUME Inv, NEW a \in {"heap", "mmap"}, Reclaims(a)
  PROVE  /\ call \in Requests /\ call.op # "drop" /\ Now.space \in Spaces
         /\ active[Now.space][a] # <<>>
<1>1. call.op \in {"fault", "copy", "fork"} /\ call.visit # NoVisit /\ TypeOK
  BY DEF Reclaims, Reclaiming, Inv
<1>2. call \in Requests
  BY <1>1, CallKinds
<1>3. Now.space \in Spaces
  BY <1>1, <1>2, VisitsFit DEF Now, Requests, Visits
<1>4. active[Now.space][a] # <<>>
  BY DEF Reclaims
<1> QED
  BY <1>1, <1>2, <1>3, <1>4

LEMMA ReleasedGoesOn ==
  ASSUME Inv, call \in Requests, Released, UNCHANGED areas
  PROVE  call' \in CallTypes /\ CallIsSound'
<1>1. PICK n \in Nat : call' = [call EXCEPT !.need = n]
  <2>1. call.need \in Nat
    BY DEF Requests
  <2> QED
    BY <2>1, SMT DEF Released
<1>2. call' \in Requests /\ Alike(call, call')
  BY <1>1 DEF Requests, Alike
<1>3. CallIsSound'
  BY <1>2, AlikeIsSound DEF Inv
<1> QED
  BY <1>2, <1>3 DEF CallTypes

\* A page in memory moves out to a place outside it that is nobody's.
LEMMA MoveOutKeeps ==
  ASSUME Inv, call \in Requests, call.op # "drop", NEW s \in Spaces, NEW p \in Pages,
         NEW f \in Places, MoveOut(s, p, f), frames[s][p].at = "ram",
         f.at \in {"zram", "swap"}, ~Owned(frames, f),
         SlotsMove(s, p, f, ram[frames[s][p].id]), SwapMoves(s, p, f, ram[frames[s][p].id]),
         active' \in [Spaces -> [{"heap", "mmap"} -> Seq(Pages)]], ActiveOnce'
  PROVE  Inv'
<1> DEFINE x == ram[frames[s][p].id]
<1>1. /\ Moves(s, p, f) /\ Remaps(s, p, Unmapped) /\ Released /\ UNCHANGED <<ram, areas>>
      /\ frame_allocator' = IF Sole(frames[s][p])
                            THEN dealloc(frame_allocator, frames[s][p].id)
                            ELSE frame_allocator
  BY DEF MoveOut, Moves, Remaps
<1>2. /\ TypeOK /\ TablesAgree /\ FrameAccount /\ ZramAccount /\ SwapAccount /\ PagesHaveAreas
  BY DEF Inv
<1>3. x \in Values /\ frames[s][p].id \in Frames
  BY ReadsAreValues
<1>4. Unmapped \in Entries
  BY <1>3, EntriesFit
<1>5. AreaOf(p) \in areas[s]
  <2>1. frames[s][p] # Unallocated
    BY PlacesDiffer
  <2> QED
    BY <1>2, <2>1 DEF PagesHaveAreas, Leaving
<1>6. FramesMove(s, p, f)
  BY <1>1 DEF FramesMove, FrameTaken, LastLeaves
<1>7. SlotsMove(s, p, f, x) /\ SwapMoves(s, p, f, x)
  OBVIOUS
<1> HIDE DEF x
<1>8. frames' \in [Spaces -> [Pages -> Places]]
  BY <1>1, <1>2, OneMoves
<1>9. TablesAgree' /\ pte' \in [Spaces -> [Pages -> Entries]]
  BY <1>1, <1>2, <1>4, TablesFollow
<1>10. frame_allocator' \in Allocators /\ FrameAccount'
  BY <1>1, <1>2, <1>6, FramesFollow
<1>11. zram' \in Stores /\ ZramAccount'
  BY <1>1, <1>2, <1>3, <1>7, SlotsFollow
<1>12. swap' \in Areas /\ SwapAccount'
  BY <1>1, <1>2, <1>3, <1>7, SwapFollows
<1>13. PagesHaveAreas'
  BY <1>1, <1>2, <1>5, AreasFollow
<1>14. call' \in CallTypes /\ CallIsSound'
  BY <1>1, ReleasedGoesOn
<1>15. ram' \in [Frames -> Values] /\ areas' \in [Spaces -> {{}, {"heap"}, {"heap", "mmap"}}]
  BY <1>1, Typed
<1> QED
  BY <1>8, <1>9, <1>10, <1>11, <1>12, <1>13, <1>14, <1>15, Assembled

\* A round that moves nothing only shortens the queue.
LEMMA OnlyQueueChanges ==
  ASSUME Inv, UNCHANGED <<devices, areas, frames, pte, call>>,
         active' \in [Spaces -> [{"heap", "mmap"} -> Seq(Pages)]], ActiveOnce'
  PROVE  Inv'
<1>1. UNCHANGED <<frame_allocator, ram, zram, swap, areas, frames, pte, call>>
  BY DEF devices
<1>2. TablesAgree' /\ FrameAccount'
  BY <1>1, SMT DEF Inv, TablesAgree, FrameAccount
<1>3. ZramAccount' /\ SwapAccount'
  BY <1>1 DEF Inv, ZramAccount, SwapAccount
<1>4. PagesHaveAreas' /\ CallIsSound'
  BY <1>1 DEF Inv, PagesHaveAreas, Leaving, CallIsSound
<1> QED
  BY <1>1, <1>2, <1>3, <1>4, Typed, Assembled

LEMMA SwapRoundKeeps ==
  ASSUME Inv, call \in Requests, call.op # "drop", NEW s \in Spaces, NEW p \in Pages,
         frames[s][p].at = "ram", Free(swap) # {},
         swap' = swap_write(swap, ram[frames[s][p].id]),
         MoveOut(s, p, SwappedOut(alloc_page(swap))), UNCHANGED zram,
         active' \in [Spaces -> [{"heap", "mmap"} -> Seq(Pages)]], ActiveOnce'
  PROVE  Inv'
<1> DEFINE f == SwappedOut(alloc_page(swap))
           x == ram[frames[s][p].id]
<1>1. f \in Places /\ f.at = "swap" /\ ~Owned(frames, f)
  BY FreshSwap DEF Inv
<1>2. MoveOut(s, p, f) /\ swap' = swap_write(swap, x) /\ f = SwappedOut(alloc_page(swap))
  OBVIOUS
<1> HIDE DEF f
<1>3. SlotsMove(s, p, f, x) /\ SwapMoves(s, p, f, x)
  BY <1>1, <1>2 DEF SlotsMove, SlotTaken, SwapMoves, SwapTaken, LastLeaves
<1> QED
  BY <1>1, <1>2, <1>3, MoveOutKeeps

LEMMA ZramRoundKeeps ==
  ASSUME Inv, call \in Requests, call.op # "drop", NEW s \in Spaces, NEW p \in Pages,
         frames[s][p].at = "ram", HasSpace(zram),
         zram' = zram_write(zram, ram[frames[s][p].id]),
         MoveOut(s, p, Compressed(ZramId(zram))), UNCHANGED swap,
         active' \in [Spaces -> [{"heap", "mmap"} -> Seq(Pages)]], ActiveOnce'
  PROVE  Inv'
<1> DEFINE f == Compressed(ZramId(zram))
           x == ram[frames[s][p].id]
<1>1. f \in Places /\ f.at = "zram" /\ ~Owned(frames, f)
  BY FreshSlot DEF Inv
<1>2. MoveOut(s, p, f) /\ zram' = zram_write(zram, x) /\ f = Compressed(ZramId(zram))
  OBVIOUS
<1> HIDE DEF f
<1>3. SlotsMove(s, p, f, x) /\ SwapMoves(s, p, f, x)
  BY <1>1, <1>2 DEF SlotsMove, SlotTaken, SwapMoves, SwapTaken, LastLeaves
<1> QED
  BY <1>1, <1>2, <1>3, MoveOutKeeps

LEMMA DoOomKeeps == ASSUME Inv, do_oom PROVE Inv'
<1> DEFINE s == Now.space
           p == Head(active[s]["mmap"])
           f == frames[s][p]
<1>1. /\ call \in Requests /\ call.op # "drop" /\ s \in Spaces /\ active[s]["mmap"] # <<>>
      /\ Dequeues(s, "mmap")
  BY Reclaimed DEF do_oom, Dequeues
<1>2. /\ active' \in [Spaces -> [{"heap", "mmap"} -> Seq(Pages)]] /\ ActiveOnce'
      /\ p \in Pages
  BY <1>1, ActiveShrinks DEF Inv
<1>3. \/ /\ f.at = "ram" /\ HasSpace(zram)
         /\ zram' = zram_write(zram, ram[f.id])
         /\ MoveOut(s, p, Compressed(ZramId(zram))) /\ UNCHANGED swap
      \/ /\ f.at = "ram" /\ Free(swap) # {}
         /\ swap' = swap_write(swap, ram[f.id])
         /\ MoveOut(s, p, SwappedOut(alloc_page(swap))) /\ UNCHANGED zram
      \/ UNCHANGED <<devices, areas, frames, pte, call>>
  BY DEF do_oom, MayMove
<1> HIDE DEF s, p
<1>4. CASE /\ f.at = "ram" /\ HasSpace(zram)
           /\ zram' = zram_write(zram, ram[f.id])
           /\ MoveOut(s, p, Compressed(ZramId(zram))) /\ UNCHANGED swap
  BY <1>1, <1>2, <1>4, ZramRoundKeeps
<1>5. CASE /\ f.at = "ram" /\ Free(swap) # {}
           /\ swap' = swap_write(swap, ram[f.id])
           /\ MoveOut(s, p, SwappedOut(alloc_page(swap))) /\ UNCHANGED zram
  BY <1>1, <1>2, <1>5, SwapRoundKeeps
<1>6. CASE UNCHANGED <<devices, areas, frames, pte, call>>
  BY <1>2, <1>6, OnlyQueueChanges
<1> QED
  BY <1>3, <1>4, <1>5, <1>6

LEMMA ForceSwapKeeps == ASSUME Inv, force_swap PROVE Inv'
<1> DEFINE s == Now.space
           p == Head(active[s]["heap"])
           f == frames[s][p]
<1>1. /\ call \in Requests /\ call.op # "drop" /\ s \in Spaces /\ active[s]["heap"] # <<>>
      /\ Dequeues(s, "heap")
  BY Reclaimed DEF force_swap, Dequeues
<1>2. /\ active' \in [Spaces -> [{"heap", "mmap"} -> Seq(Pages)]] /\ ActiveOnce'
      /\ p \in Pages
  BY <1>1, ActiveShrinks DEF Inv
<1>3. \/ /\ f.at = "ram" /\ Free(swap) # {}
         /\ swap' = swap_write(swap, ram[f.id])
         /\ MoveOut(s, p, SwappedOut(alloc_page(swap))) /\ UNCHANGED zram
      \/ UNCHANGED <<devices, areas, frames, pte, call>>
  BY DEF force_swap
<1> HIDE DEF s, p
<1>4. CASE /\ f.at = "ram" /\ Free(swap) # {}
           /\ swap' = swap_write(swap, ram[f.id])
           /\ MoveOut(s, p, SwappedOut(alloc_page(swap))) /\ UNCHANGED zram
  BY <1>1, <1>2, <1>4, SwapRoundKeeps
<1>5. CASE UNCHANGED <<devices, areas, frames, pte, call>>
  BY <1>2, <1>5, OnlyQueueChanges
<1> QED
  BY <1>3, <1>4, <1>5

-----------------------------------------------------------------------------
\* Stores, forks and unmappings.

\* A step that changes what is in the frames, and the call.
LEMMA OnlyRamChanges ==
  ASSUME Inv, UNCHANGED <<frame_allocator, zram, swap, tables>>, ram' \in [Frames -> Values],
         call.op # "drop", call' \in CallTypes, CallIsSound'
  PROVE  Inv'
<1>1. UNCHANGED <<frame_allocator, zram, swap, areas, frames, pte, active>>
  BY DEF tables
<1>2. TablesAgree' /\ FrameAccount' /\ ZramAccount' /\ SwapAccount' /\ PagesHaveAreas' /\ ActiveOnce'
  BY <1>1 DEF Inv, TablesAgree, FrameAccount, ZramAccount, SwapAccount, PagesHaveAreas,
              Leaving, ActiveOnce
<1> QED
  BY <1>1, <1>2, Typed, Assembled

LEMMA StoreKeeps ==
  ASSUME Inv, NEW s \in Spaces, NEW p \in Pages, NEW x \in Values, Store(s, p, x)
  PROVE  Inv'
<1>1. /\ call = Idle /\ ram' = [ram EXCEPT ![pte[s][p].ppn] = x]
      /\ UNCHANGED <<frame_allocator, zram, swap, tables, call>>
  BY DEF Store
<1>2. ram' \in [Frames -> Values]
  BY <1>1, Typed
<1>3. call.op # "drop" /\ call' \in CallTypes /\ CallIsSound'
  BY <1>1 DEF Idle, CallTypes, CallIsSound
<1> QED
  BY <1>1, <1>2, <1>3, OnlyRamChanges

LEMMA WriteSliceKeeps == ASSUME Inv, WriteSlice PROVE Inv'
<1>1. /\ call.op = "copy" /\ call.todo = <<>>
      /\ ram' = [ram EXCEPT ![Head(call.slices).ppn] = call.arg]
      /\ call' = IF Len(call.slices) = 1 THEN Idle ELSE [call EXCEPT !.slices = Tail(@)]
      /\ UNCHANGED <<frame_allocator, zram, swap, tables>>
  BY DEF WriteSlice
<1>2. TypeOK /\ CallIsSound
  BY DEF Inv
<1>3. call \in Requests /\ call.arg \in Values /\ call.slices # <<>>
  BY <1>1, <1>2, CallKinds DEF CallIsSound
<1>4. ram' \in [Frames -> Values]
  BY <1>1, <1>3, Typed
<1>5. CASE Len(call.slices) = 1
  <2>1. call' \in CallTypes /\ CallIsSound'
    BY <1>1, <1>5 DEF Idle, CallTypes, CallIsSound
  <2> QED
    BY <1>1, <1>4, <2>1, OnlyRamChanges
<1>6. CASE Len(call.slices) # 1
  <2> DEFINE rest == Tail(call.slices)
             S == [page : Pages, ppn : 0..NFrames]
  <2>0. call.slices \in Seq(S)
    BY <1>3 DEF Requests
  <2>1. rest \in Seq(S) /\ rest # <<>>
    <3> HIDE DEF S
    <3>1. Len(call.slices) \in Nat /\ Len(call.slices) # 0
      BY <1>3, <2>0, SeqIsEmpty, SeqIsFunction
    <3>2. rest \in Seq(S) /\ Len(rest) = Len(call.slices) - 1
      BY <1>3, <2>0, SeqTail
    <3>3. Len(<<>>) = 0
      OBVIOUS
    <3>4. Len(rest) # 0
      BY <1>6, <3>1, <3>2, SMT
    <3> HIDE DEF rest
    <3> QED
      BY <3>2, <3>3, <3>4
  <2>2. call' = [call EXCEPT !.slices = rest]
    BY <1>1, <1>6
  <2> HIDE DEF rest
  <2>3. /\ call' \in Requests /\ call'.slices = rest /\ call'.op = call.op /\ call'.todo = call.todo
        /\ call'.stage = call.stage /\ call'.arg = call.arg /\ call'.space = call.space
    BY <1>3, <2>1, <2>2 DEF Requests
  <2>4. CallIsSound'
    <3>1. UNCHANGED areas
      BY <1>1 DEF tables
    <3> QED
      BY <1>1, <1>2, <2>1, <2>3, <3>1 DEF CallIsSound
  <2> QED
    BY <1>1, <1>4, <2>3, <2>4, OnlyRamChanges DEF CallTypes
<1> QED
  BY <1>5, <1>6

\* A fork gives the child the places of the parent and takes W from both.
LEMMA ForkedKeeps == ASSUME Inv, from_existing_user PROVE Inv'
<1> DEFINE s == call.space
           c == call.arg
<1>1. /\ call.op = "fork" /\ areas' = [areas EXCEPT ![c] = areas[s]]
      /\ frames' = [frames EXCEPT ![c] = frames[s]]
      /\ pte' = [pte EXCEPT ![s] = ReadOnly(pte[s]), ![c] = ReadOnly(pte[s])]
      /\ active' = [active EXCEPT ![c] = active[s]]
      /\ call' = Idle /\ UNCHANGED devices
  BY DEF from_existing_user
<1>2. TypeOK /\ CallIsSound /\ PagesHaveAreas /\ TablesAgree /\ FrameAccount /\ ZramAccount
      /\ SwapAccount /\ ActiveOnce
  BY DEF Inv
<1>3. s \in Spaces /\ c \in Spaces /\ c # s /\ areas[c] = {}
  BY <1>1, <1>2, CallKinds DEF CallIsSound, Requests
<1>4. \A q \in Pages : frames[c][q] = Unallocated
  BY <1>1, <1>2, <1>3 DEF PagesHaveAreas, Leaving
<1> HIDE DEF s, c
<1>5. /\ frames \in [Spaces -> [Pages -> Places]] /\ pte \in [Spaces -> [Pages -> Entries]]
      /\ active \in [Spaces -> [{"heap", "mmap"} -> Seq(Pages)]]
      /\ areas \in [Spaces -> {{}, {"heap"}, {"heap", "mmap"}}]
  BY Typed
<1>6. /\ frames' \in [Spaces -> [Pages -> Places]]
      /\ \A t \in Spaces, q \in Pages :
           frames'[t][q] = IF t = c THEN frames[s][q] ELSE frames[t][q]
  BY <1>1, <1>3, <1>5
<1>7. ReadOnly(pte[s]) \in [Pages -> Entries]
      /\ \A q \in Pages : /\ ReadOnly(pte[s])[q].ppn = pte[s][q].ppn
                          /\ ReadOnly(pte[s])[q].w = FALSE
                          /\ pte[s][q] = Unmapped => ReadOnly(pte[s])[q] = Unmapped
  <2>1. ASSUME NEW x \in Entries
        PROVE  /\ [x EXCEPT !.w = FALSE] \in Entries
               /\ [x EXCEPT !.w = FALSE].ppn = x.ppn
               /\ [x EXCEPT !.w = FALSE].w = FALSE
               /\ x = Unmapped => [x EXCEPT !.w = FALSE] = Unmapped
    <3>1. /\ [x EXCEPT !.w = FALSE] \in Entries
          /\ [x EXCEPT !.w = FALSE].ppn = x.ppn
          /\ [x EXCEPT !.w = FALSE].w = FALSE
      BY DEF Entries
    <3>2. \A y, z \in Entries : y.ppn = z.ppn /\ y.w = z.w => y = z
      BY SMT DEF Entries
    <3>3. Unmapped \in Entries /\ Unmapped.w = FALSE
      BY MemoryAssumption, SMT DEF Unmapped, Entries
    <3> QED
      BY <3>1, <3>2, <3>3
  <2>2. pte[s] \in [Pages -> Entries]
    BY <1>3, <1>5
  <2> QED
    BY <2>1, <2>2 DEF ReadOnly
<1>8. /\ pte' \in [Spaces -> [Pages -> Entries]]
      /\ \A t \in Spaces : pte'[t] = IF t \in {s, c} THEN ReadOnly(pte[s]) ELSE pte[t]
  BY <1>1, <1>3, <1>5, <1>7
<1>9. \A g : g # Unallocated => (Owned(frames', g) <=> Owned(frames, g))
  BY <1>3, <1>4, <1>6, SMT DEF Owned
<1>10. TablesAgree'
  <2> SUFFICES ASSUME NEW t \in Spaces, NEW q \in Pages
               PROVE  /\ frames'[t][q].at = "ram" => pte'[t][q].ppn = frames'[t][q].id
                      /\ frames'[t][q].at # "ram" => pte'[t][q] = Unmapped
                      /\ pte'[t][q].w => OnlyOwner(frames', t, q)
    BY DEF TablesAgree
  <2>1. CASE t \in {s, c}
    <3>1. frames'[t][q] = frames[s][q] /\ pte'[t][q] = ReadOnly(pte[s])[q]
      BY <1>6, <1>8, <2>1
    <3>2. /\ frames[s][q].at = "ram" => pte[s][q].ppn = frames[s][q].id
          /\ frames[s][q].at # "ram" => pte[s][q] = Unmapped
      BY <1>2, <1>3 DEF TablesAgree
    <3> QED
      BY <1>7, <3>1, <3>2
  <2>2. CASE t \notin {s, c}
    <3>1. frames'[t][q] = frames[t][q] /\ pte'[t][q] = pte[t][q]
      BY <1>6, <1>8, <2>2
    <3>2. ASSUME OnlyOwner(frames, t, q) PROVE OnlyOwner(frames', t, q)
      BY <1>3, <1>6, <2>2, <3>1, <3>2, SMT DEF OnlyOwner
    <3> QED
      BY <1>2, <3>1, <3>2 DEF TablesAgree
  <2> QED
    BY <2>1, <2>2
<1>11. /\ UNCHANGED <<frame_allocator, ram, zram, swap>>
  BY <1>1 DEF devices
<1>12. FrameAccount' /\ ZramAccount' /\ SwapAccount'
  <2>1. /\ \A i : InMemory(i) # Unallocated /\ Compressed(i) # Unallocated
                  /\ SwappedOut(i) # Unallocated
    BY PlacesDiffer
  <2> QED
    BY <1>2, <1>9, <1>11, <2>1 DEF FrameAccount, ZramAccount, SwapAccount
<1>13. PagesHaveAreas'
  <2>1. \A t \in Spaces : areas'[t] = IF t = c THEN areas[s] ELSE areas[t]
    BY <1>1, <1>3, <1>5
  <2> QED
    BY <1>1, <1>2, <1>3, <1>6, <2>1, SMT DEF PagesHaveAreas, Leaving
<1>14. /\ active' \in [Spaces -> [{"heap", "mmap"} -> Seq(Pages)]]
       /\ areas' \in [Spaces -> {{}, {"heap"}, {"heap", "mmap"}}]
  BY <1>1, <1>3, <1>5
<1>15. ActiveOnce'
  BY <1>1, <1>2, <1>3, <1>5 DEF ActiveOnce
<1>16. call' \in CallTypes /\ CallIsSound'
  BY <1>1 DEF CallTypes, CallIsSound, Idle
<1> QED
  BY <1>6, <1>8, <1>10, <1>11, <1>12, <1>13, <1>14, <1>15, <1>16, Typed, Assembled

\* Dropping areas leaves their pages for DropPage.
LEMMA DropAreasKeeps ==
  ASSUME Inv, call = Idle, NEW s \in Spaces, NEW A \in SUBSET {"heap", "mmap"},
         areas[s] \ A \in {{}, {"heap"}, {"heap", "mmap"}}, DropAreas(s, A)
  PROVE  Inv'
<1> DEFINE left == UNION {PagesOf(a) : a \in A}
           new == [a \in {"heap", "mmap"} |-> IF a \in A THEN <<>> ELSE active[s][a]]
<1>1. /\ areas \in [Spaces -> {{}, {"heap"}, {"heap", "mmap"}}]
      /\ active \in [Spaces -> [{"heap", "mmap"} -> Seq(Pages)]]
  BY Typed
<1>2. /\ areas' = [areas EXCEPT ![s] = @ \ A]
      /\ active' = [active EXCEPT ![s] = new]
      /\ call' = [op |-> "drop", space |-> s, left |-> left]
      /\ UNCHANGED <<devices, frames, pte>>
  BY <1>1 DEF DropAreas
<1>3. \A q \in Pages : AreaOf(q) \in A => q \in left
  <2> SUFFICES ASSUME NEW q \in Pages, AreaOf(q) \in A PROVE q \in left
    OBVIOUS
  <2>1. q \in PagesOf(AreaOf(q))
    BY MemoryAssumption, SMT DEF AreaOf, PagesOf, Pages
  <2> QED
    BY <2>1
<1>4. left \subseteq Pages
  BY MemoryAssumption, SMT DEF PagesOf, Pages
<1> HIDE DEF left
<1>5. call' \in CallTypes /\ CallIsSound' /\ call'.op = "drop" /\ call'.space = s /\ call'.left = left
  BY <1>2, <1>4 DEF CallTypes, CallIsSound, Drops
<1>6. /\ areas' \in [Spaces -> {{}, {"heap"}, {"heap", "mmap"}}]
      /\ \A t \in Spaces : areas'[t] = IF t = s THEN areas[s] \ A ELSE areas[t]
  BY <1>1, <1>2
<1>7. PagesHaveAreas'
  <2>1. PagesHaveAreas /\ call.op # "drop" /\ UNCHANGED frames
    BY <1>2 DEF Inv, Idle
  <2> QED
    BY <1>3, <1>5, <1>6, <2>1 DEF PagesHaveAreas, Leaving
<1>8. \A a \in {"heap", "mmap"} : new[a] \in Seq(Pages) /\ IsInjective(new[a])
  <2>1. <<>> \in Seq(Pages) /\ IsInjective(<<>>)
    BY SeqIsEmpty, SMT DEF IsInjective
  <2> QED
    BY <1>1, <2>1 DEF Inv, ActiveOnce
<1>9. new \in [{"heap", "mmap"} -> Seq(Pages)]
  BY <1>8
<1> HIDE DEF new
<1>10. active' \in [Spaces -> [{"heap", "mmap"} -> Seq(Pages)]] /\ ActiveOnce'
  BY <1>1, <1>2, <1>8, <1>9 DEF Inv, ActiveOnce
<1>11. UNCHANGED <<frame_allocator, ram, zram, swap, frames, pte>>
  BY <1>2 DEF devices
<1>12. TablesAgree' /\ FrameAccount' /\ ZramAccount' /\ SwapAccount'
  BY <1>11 DEF Inv, TablesAgree, FrameAccount, ZramAccount, SwapAccount
<1> QED
  BY <1>5, <1>6, <1>7, <1>10, <1>11, <1>12, Typed, Assembled

LEMMA MunmapKeeps == ASSUME Inv, NEW s \in Spaces, munmap(s) PROVE Inv'
<1>1. call = Idle /\ "mmap" \in areas[s] /\ DropAreas(s, {"mmap"})
  BY DEF munmap
<1>2. areas[s] \in {{}, {"heap"}, {"heap", "mmap"}}
  BY Typed
<1>3. areas[s] \ {"mmap"} \in {{}, {"heap"}, {"heap", "mmap"}}
  BY <1>2
<1> QED
  BY <1>1, <1>3, DropAreasKeeps

LEMMA ExitKeeps == ASSUME Inv, NEW s \in Spaces, Exit(s) PROVE Inv'
<1>1. call = Idle /\ DropAreas(s, areas[s])
  BY DEF Exit
<1>2. areas[s] \in SUBSET {"heap", "mmap"}
  BY AreasAreTyped
<1>3. areas[s] \ areas[s] \in {{}, {"heap"}, {"heap", "mmap"}}
  OBVIOUS
<1> QED
  BY <1>1, <1>2, <1>3, DropAreasKeeps

LEMMA MmapKeeps == ASSUME Inv, NEW s \in Spaces, mmap(s) PROVE Inv'
<1>1. /\ call = Idle /\ areas[s] # {} /\ areas' = [areas EXCEPT ![s] = @ \cup {"mmap"}]
      /\ UNCHANGED <<devices, frames, pte, active, call>>
  BY DEF mmap, Living
<1>2. areas \in [Spaces -> {{}, {"heap"}, {"heap", "mmap"}}]
  BY Typed
<1>3. areas' \in [Spaces -> {{}, {"heap"}, {"heap", "mmap"}}]
  BY <1>1, <1>2
<1>4. \A t \in Spaces : areas[t] \subseteq areas'[t]
  BY <1>1, <1>2
<1>5. UNCHANGED <<frame_allocator, ram, zram, swap, frames, pte, active, call>>
  BY <1>1 DEF devices
<1>6. PagesHaveAreas'
  BY <1>4, <1>5 DEF Inv, PagesHaveAreas, Leaving
<1>7. CallIsSound'
  BY <1>1, <1>5, SMT DEF CallIsSound, Idle
<1>8. TablesAgree' /\ FrameAccount' /\ ZramAccount' /\ SwapAccount' /\ ActiveOnce'
  BY <1>5 DEF Inv, TablesAgree, FrameAccount, ZramAccount, SwapAccount, ActiveOnce
<1> QED
  BY <1>3, <1>5, <1>6, <1>7, <1>8, Typed, Assembled

LEMMA DropPageKeeps == ASSUME Inv, DropPage PROVE Inv'
<1> DEFINE s == call.space
           p == Min(call.left)
           old == frames[s][p]
<1>1. /\ call.op = "drop" /\ call.left # {}
      /\ Moves(s, p, Unallocated) /\ Remaps(s, p, Unmapped)
      /\ frame_allocator' = IF old.at = "ram" /\ Sole(old) THEN dealloc(frame_allocator, old.id)
                            ELSE frame_allocator
      /\ zram' = IF old.at = "zram" /\ Sole(old) THEN zram_discard(zram, old.id, Absent) ELSE zram
      /\ swap' = IF old.at = "swap" /\ Sole(old) THEN swap_discard(swap, old.id) ELSE swap
      /\ call' = [call EXCEPT !.left = @ \ {p}]
      /\ UNCHANGED <<ram, areas, active>>
  BY DEF DropPage, Moves, Remaps
<1>2. /\ TypeOK /\ TablesAgree /\ FrameAccount /\ ZramAccount /\ SwapAccount /\ PagesHaveAreas
  BY DEF Inv
<1>3. call \in Drops
  BY <1>1, <1>2, CallKinds
<1>4. s \in Spaces /\ call.left \in SUBSET Pages /\ call.left \in SUBSET Nat
  BY <1>3, SMT DEF Drops, Pages
<1>5. p \in call.left /\ p \in Pages
  BY <1>1, <1>4, LeastNumber
<1>6. PICK x : x \in Values
  BY MemoryAssumption
<1>7. Unallocated \in Places /\ Unallocated.at = "none"
  BY PlacesDiffer
<1> HIDE DEF s, p
<1>8. /\ FramesMove(s, p, Unallocated) /\ SlotsMove(s, p, Unallocated, x)
      /\ SwapMoves(s, p, Unallocated, x)
  BY <1>1, <1>7 DEF FramesMove, FrameTaken, SlotsMove, SlotTaken, SwapMoves, SwapTaken, LastLeaves
<1>9. Unmapped \in Entries
  BY MemoryAssumption, SMT DEF Unmapped, Entries
<1>10. frames' \in [Spaces -> [Pages -> Places]]
       /\ \A t \in Spaces, q \in Pages :
            frames'[t][q] = IF t = s /\ q = p THEN Unallocated ELSE frames[t][q]
  BY <1>1, <1>2, <1>4, <1>5, <1>7, OneMoves, SMT
<1>11. TablesAgree' /\ pte' \in [Spaces -> [Pages -> Entries]]
  BY <1>1, <1>2, <1>4, <1>5, <1>7, <1>9, TablesFollow
<1>12. frame_allocator' \in Allocators /\ FrameAccount'
  BY <1>1, <1>2, <1>4, <1>5, <1>7, <1>8, FramesFollow
<1>13. zram' \in Stores /\ ZramAccount'
  BY <1>1, <1>2, <1>4, <1>5, <1>6, <1>7, <1>8, SlotsFollow
<1>14. swap' \in Areas /\ SwapAccount'
  BY <1>1, <1>2, <1>4, <1>5, <1>6, <1>7, <1>8, SwapFollows
<1>15. /\ call' \in Drops /\ call'.op = "drop" /\ call'.space = s /\ call'.left = call.left \ {p}
  BY <1>1, <1>3 DEF Drops, s
<1>16. PagesHaveAreas'
  BY <1>1, <1>2, <1>10, <1>15 DEF PagesHaveAreas, Leaving, s
<1>17. call' \in CallTypes /\ CallIsSound'
  BY <1>15 DEF CallTypes, CallIsSound
<1>18. ActiveOnce'
  BY <1>1 DEF Inv, ActiveOnce
<1> QED
  BY <1>1, <1>10, <1>11, <1>12, <1>13, <1>14, <1>16, <1>17, <1>18, Typed, Assembled

LEMMA StutterKeeps == ASSUME Inv, UNCHANGED vars PROVE Inv'
<1>1. UNCHANGED <<frame_allocator, ram, zram, swap, areas, frames, pte, active, call>>
  BY DEF vars, devices, tables
<1>2. /\ TablesAgree' /\ FrameAccount' /\ ZramAccount' /\ SwapAccount' /\ PagesHaveAreas'
      /\ CallIsSound' /\ ActiveOnce'
  BY <1>1, ZenonT(60) DEF Inv, TablesAgree, FrameAccount, ZramAccount, SwapAccount, PagesHaveAreas,
              Leaving, CallIsSound, ActiveOnce
<1> QED
  BY <1>1, <1>2, Typed, Assembled

-----------------------------------------------------------------------------
LEMMA InitHolds == ASSUME Init PROVE Inv
<1> USE MemoryAssumption
<1>1. /\ frame_allocator = [current |-> 0, end |-> NFrames, recycled |-> <<>>]
      /\ ram = [f \in Frames |-> Zero]
      /\ zram = [compressed |-> [i \in Slots |-> Absent], recycled |-> <<>>, tail |-> 0]
      /\ swap = [bitmap |-> {}, blocks |-> [i \in SwapIds |-> Zero]]
      /\ frames = [s \in Spaces |-> [p \in Pages |-> Unallocated]]
      /\ pte = [s \in Spaces |-> [p \in Pages |-> Unmapped]]
      /\ active = [s \in Spaces |-> [a \in {"heap", "mmap"} |-> <<>>]]
      /\ call = Idle
  BY DEF Init, frames_init, zram_new, swap_new, NoPages, NoEntries, NoActive, Frames, Slots, SwapIds
<1>2. areas \in [Spaces -> {{}, {"heap"}, {"heap", "mmap"}}]
  BY DEF Init
<1>3. /\ Unallocated \in Places /\ Unallocated.at = "none"
      /\ \A i : /\ InMemory(i) # Unallocated /\ Compressed(i) # Unallocated
                /\ SwappedOut(i) # Unallocated
  BY PlacesDiffer
<1>4. Unmapped \in Entries /\ Unmapped.w = FALSE
  BY SMT DEF Unmapped, Entries
<1>5. <<>> \in Seq(Frames) /\ <<>> \in Seq(Slots) /\ <<>> \in Seq(Pages)
      /\ IsInjective(<<>>) /\ Range(<<>>) = {}
  BY SeqIsEmpty, SMT DEF IsInjective, Range
<1>6. frame_allocator \in Allocators /\ FitsFrames(frame_allocator)
      /\ \A i \in Frames : ~IsOut(frame_allocator, i)
  <2>1. /\ frame_allocator = [current |-> 0, end |-> NFrames, recycled |-> <<>>]
        /\ 0 \in 0..NFrames
    BY <1>1, SMT
  <2>2. frame_allocator \in Allocators
    BY <1>5, <2>1 DEF Allocators
  <2>3. FitsFrames(frame_allocator)
    BY <1>5, <2>1 DEF FitsFrames
  <2>4. \A i \in Frames : ~IsOut(frame_allocator, i)
    BY <2>1, SMT DEF IsOut, Frames
  <2> QED
    BY <2>2, <2>3, <2>4
<1>7. zram \in Stores /\ FitsZram(zram) /\ \A i \in Slots : ~Stored(zram, i)
  BY <1>1, <1>5, SMT DEF Stores, FitsZram, Stored, Slots
<1>8. swap \in Areas /\ \A i \in SwapIds : i \notin swap.bitmap
  BY <1>1 DEF Areas, SwapIds
<1>9. ram \in [Frames -> Values]
  BY <1>1
<1>10. /\ frames \in [Spaces -> [Pages -> Places]]
       /\ \A s \in Spaces, p \in Pages : frames[s][p] = Unallocated
  BY <1>1, <1>3
<1>11. /\ pte \in [Spaces -> [Pages -> Entries]]
       /\ \A s \in Spaces, p \in Pages : pte[s][p] = Unmapped
  BY <1>1, <1>4
<1>12. active \in [Spaces -> [{"heap", "mmap"} -> Seq(Pages)]] /\ ActiveOnce
  BY <1>1, <1>5 DEF ActiveOnce
<1>13. call \in CallTypes /\ CallIsSound
  BY <1>1 DEF CallTypes, CallIsSound, Idle
<1>14. FrameAccount /\ ZramAccount /\ SwapAccount
  BY <1>3, <1>6, <1>7, <1>8, <1>10 DEF FrameAccount, ZramAccount, SwapAccount, Owned
<1>15. TablesAgree /\ PagesHaveAreas
  BY <1>3, <1>4, <1>10, <1>11 DEF TablesAgree, PagesHaveAreas
<1>16. TypeOK
  BY <1>2, <1>6, <1>7, <1>8, <1>9, <1>10, <1>11, <1>12, <1>13
     DEF TypeOK, Allocators, Frames, Stores, Slots, Areas, SwapIds, Entries, CallTypes
<1> QED
  BY <1>12, <1>13, <1>14, <1>15, <1>16 DEF Inv

\* The invariant is inductive: one step per action.
LEMMA StepKeeps == ASSUME Inv, [Next]_vars PROVE Inv'
<1>1. CASE do_oom
  BY <1>1, DoOomKeeps
<1>2. CASE force_swap
  BY <1>2, ForceSwapKeeps
<1>3. CASE NextVisit
  BY <1>3, NextVisitKeeps
<1>4. CASE PageFault
  BY <1>4, ZeroedKeeps, UnzipKeeps, SwapInKeeps, AllowWriteKeeps, CopyOnWriteKeeps,
     ExhaustedKeeps DEF PageFault
<1>5. CASE translated_byte_buffer
  BY <1>5, TranslateKeeps
<1>6. CASE WriteSlice
  BY <1>6, WriteSliceKeeps
<1>7. CASE from_existing_user
  BY <1>7, ForkedKeeps
<1>8. CASE DropPage
  BY <1>8, DropPageKeeps
<1>9. CASE Dropped
  BY <1>9, DroppedKeeps
<1>10. CASE UNCHANGED vars
  BY <1>10, StutterKeeps
<1>11. ASSUME NEW s \in Spaces, NEW p \in Pages, Fault(s, p) PROVE Inv'
  BY <1>11, FaultKeeps
<1>12. ASSUME NEW s \in Spaces, NEW p \in Pages, NEW x \in Values, Store(s, p, x) PROVE Inv'
  BY <1>12, StoreKeeps
<1>13. ASSUME NEW s \in Spaces, NEW b \in Buffers, NEW x \in Values, copy_to_user(s, b, x)
       PROVE  Inv'
  BY <1>13, CopyKeeps
<1>14. ASSUME NEW s \in Spaces, NEW c \in Spaces, Fork(s, c) PROVE Inv'
  BY <1>14, ForkKeeps
<1>15. ASSUME NEW s \in Spaces, munmap(s) \/ mmap(s) \/ Exit(s) PROVE Inv'
  BY <1>15, MunmapKeeps, MmapKeeps, ExitKeeps
<1> QED
  BY <1>1, <1>2, <1>3, <1>4, <1>5, <1>6, <1>7, <1>8, <1>9, <1>10, <1>11, <1>12, <1>13, <1>14,
     <1>15 DEF Next, Halted

\* The inductive invariant: whatever programs map, store, fork and unmap, and
\* whenever the kernel runs out of frames meanwhile, page tables, Frames and the
\* three stores tell the same story of where every page is.
THEOREM Invariance == Spec => []Inv
<1>1. Init => Inv
  BY InitHolds
<1>2. Inv /\ [Next]_vars => Inv'
  BY StepKeeps
<1> QED
  BY <1>1, <1>2, PTL DEF Spec

\* do_page_fault() never meets a page that is mapped but not in memory, or in
\* memory but not mapped, and never a page mapped to another frame than its own.
THEOREM MappingsHold == Spec => []MappedIsInMemory
<1>1. Inv => MappedIsInMemory
  <2> SUFFICES ASSUME Inv, NEW s \in Spaces, NEW p \in Pages
               PROVE  IF frames[s][p].at = "ram" THEN pte[s][p].ppn = frames[s][p].id
                      ELSE ~Mapped(s, p)
    BY DEF MappedIsInMemory
  <2> QED
    BY DEF Inv, TablesAgree, Mapped
<1> QED
  BY <1>1, Invariance, PTL

\* copy_on_write(): no page table lets a program write to a page that another
\* page shares, so a store is never seen by another process.
THEOREM WritesArePrivate == Spec => []WritableIsPrivate
<1>1. Inv => WritableIsPrivate
  <2> SUFFICES ASSUME Inv, NEW s \in Spaces, NEW p \in Pages, pte[s][p].w
               PROVE  Sole(frames[s][p])
    BY DEF WritableIsPrivate
  <2> QED
    BY SoleIsOnlyOwner DEF Inv, TablesAgree
<1> QED
  BY <1>1, Invariance, PTL

\* What the pages in one kind of place are in.
LEMMA IdsAreOwned ==
  ASSUME TypeOK
  PROVE  /\ \A i : i \in Ids("ram") <=> i \in Frames /\ Owned(frames, InMemory(i))
         /\ \A i : i \in Ids("zram") <=> i \in Slots /\ Owned(frames, Compressed(i))
         /\ \A i : i \in Ids("swap") <=> i \in SwapIds /\ Owned(frames, SwappedOut(i))
<1>1. frames \in [Spaces -> [Pages -> Places]]
  BY DEF TypeOK
<1>2. ASSUME NEW at, NEW i
      PROVE  i \in Ids(at) <=> \E s \in Spaces, p \in Pages : frames[s][p].at = at /\ frames[s][p].id = i
  <2>1. \A s \in Spaces : \A f : f \in Range(frames[s]) <=> \E p \in Pages : f = frames[s][p]
    BY <1>1 DEF Range
  <2> DEFINE F == UNION {Range(frames[s]) : s \in Spaces}
             G == {f \in F : f.at = at}
  <2>2. \A f : f \in F <=> \E s \in Spaces, p \in Pages : f = frames[s][p]
    BY <2>1, SMT
  <2> HIDE DEF F
  <2>3. \A f : f \in G <=> f.at = at /\ \E s \in Spaces, p \in Pages : f = frames[s][p]
    BY <2>2, SMT
  <2>4. Ids(at) = {f.id : f \in G}
    BY DEF Ids, F
  <2> HIDE DEF G
  <2>5. i \in Ids(at) <=> \E f \in G : i = f.id
    BY <2>4
  <2> QED
    BY <2>3, <2>5, SMT
<1> QED
  BY <1>1, <1>2, PlacesDiffer, SMT DEF Owned

\* StackFrameAllocator::dealloc() never panics and no frame is lost: the frames
\* handed out and not given back are exactly those of the pages in memory.
THEOREM FramesHold == Spec => []FramesAreOwned
<1>1. Inv => FramesAreOwned
  <2> SUFFICES ASSUME Inv PROVE FramesAreOwned
    OBVIOUS
  <2>1. TypeOK /\ FrameAccount /\ frame_allocator \in Allocators
    BY Typed DEF Inv
  <2>3. \A i : i \in Out(frame_allocator, 0) <=> i \in Frames /\ IsOut(frame_allocator, i)
    <3>1. frame_allocator.current \in 0..NFrames
      BY <2>1 DEF Allocators
    <3> QED
      BY <3>1, MemoryAssumption, SMT DEF Out, IsOut, Frames
  <2>4. \A i : i \in Out(frame_allocator, 0) <=> i \in Ids("ram")
    BY <2>1, <2>3, IdsAreOwned DEF FrameAccount
  <2> QED
    BY <2>1, <2>4 DEF FramesAreOwned, FrameAccount, FitsFrames
<1> QED
  BY <1>1, Invariance, PTL

\* ZramTracker's drop never meets an empty slot and no slot or swap page is lost:
\* those in use are exactly the ones some page waits in.
THEOREM SlotsHold == Spec => []SlotsAreOwned
<1>1. Inv => SlotsAreOwned
  <2> SUFFICES ASSUME Inv PROVE SlotsAreOwned
    OBVIOUS
  <2>1. /\ TypeOK /\ ZramAccount /\ SwapAccount /\ zram \in Stores /\ swap \in Areas
    BY Typed DEF Inv
  <2>3. swap.bitmap = Ids("swap")
    <3>1. \A i : i \in swap.bitmap <=> i \in Ids("swap")
      BY <2>1, IdsAreOwned DEF SwapAccount, Areas
    <3> QED
      BY <3>1
  <2>4. \A i : i \in Slots /\ Stored(zram, i) <=> i \in Ids("zram")
    BY <2>1, IdsAreOwned DEF ZramAccount
  <2>5. /\ {i \in DOMAIN zram.compressed : zram.compressed[i] # Absent} = Ids("zram")
        /\ Range(zram.recycled) = (0..(zram.tail - 1)) \ Ids("zram")
    <3>1. /\ DOMAIN zram.compressed = Slots /\ zram.tail \in 0..ZramSlots
      BY <2>1 DEF Stores
    <3>2. \A i \in Slots : zram.compressed[i] # Absent <=> Stored(zram, i)
      BY <2>1 DEF ZramAccount, FitsZram
    <3>3. \A i : i \in 0..(zram.tail - 1) => i \in Slots
      BY <3>1, MemoryAssumption, SMT DEF Slots
    <3>4. Range(zram.recycled) \subseteq 0..(zram.tail - 1)
      BY <2>1 DEF ZramAccount, FitsZram
    <3> QED
      BY <2>4, <3>1, <3>2, <3>3, <3>4 DEF Stored
  <2> QED
    BY <2>1, <2>3, <2>5 DEF SlotsAreOwned, ZramAccount, FitsZram
<1> QED
  BY <1>1, Invariance, PTL
=============================================================================

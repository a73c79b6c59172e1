-------------------------- MODULE MemoryRefinement --------------------------
(***************************************************************************)
(* MemorySet implements AddressSpaces: where a page is kept, and how often *)
(* it moves, is nobody's business.                                         *)
(***************************************************************************)
EXTENDS MemorySetProofs

\* A leaf that cites no prover is first order.
USE Zenon

\* What is kept in place f, and what the program of a space with areas A finds
\* in its page p when that is there.
Kept(f, r, z, d) == IF f.at = "ram" THEN r[f.id]
                    ELSE IF f.at = "zram" THEN zram_read(z, f.id)
                    ELSE IF f.at = "swap" THEN swap_read(d, f.id)
                    ELSE Zero
Seen(A, p, f, r, z, d) == IF AreaOf(p) \in A THEN Kept(f, r, z, d) ELSE Absent
Image(as, fs, r, z, d) ==
  [s \in Spaces |-> [p \in Pages |-> Seen(as[s], p, fs[s][p], r, z, d)]]

LEMMA ContentsAreKept == Inv => Contents = Image(areas, frames, ram, zram, swap)
<1> SUFFICES ASSUME Inv, NEW s \in Spaces, NEW p \in Pages
             PROVE  Content(s, p) = Seen(areas[s], p, frames[s][p], ram, zram, swap)
  BY DEF Contents, Image
<1>1. Mapped(s, p) => frames[s][p].at = "ram" /\ pte[s][p].ppn = frames[s][p].id
  BY MappedPage
<1>2. ~Mapped(s, p) => frames[s][p].at # "ram"
  <2>1. frames[s][p].at = "ram" => pte[s][p].ppn = frames[s][p].id /\ frames[s][p].id \in Frames
    BY ReadsAreValues DEF Inv, TablesAgree
  <2>2. \A i \in Frames : i # NFrames
    BY MemoryAssumption, SMT DEF Frames
  <2> QED
    BY <2>1, <2>2, SMT DEF Mapped, Unmapped
<1> QED
  BY <1>1, <1>2 DEF Content, Seen, Kept

LEMMA ContentsAreKeptAfter ==
  Inv' => Contents' = Image(areas', frames', ram', zram', swap')
<1>1. Inv' => (Contents = Image(areas, frames, ram, zram, swap))'
  BY ContentsAreKept, PTL
<1> QED
  BY <1>1

LEMMA ContentsAreTyped == Inv => Contents \in [Spaces -> [Pages -> Values \cup {Absent}]]
<1> SUFFICES ASSUME Inv, NEW s \in Spaces, NEW p \in Pages
             PROVE  Seen(areas[s], p, frames[s][p], ram, zram, swap) \in Values \cup {Absent}
  BY ContentsAreKept, SMT DEF Image
<1> QED
  BY ReadsAreValues, MemoryAssumption DEF Seen, Kept

LEMMA ContentsAreTypedAfter == Inv' => Contents' \in [Spaces -> [Pages -> Values \cup {Absent}]]
<1>1. Inv' => (Contents \in [Spaces -> [Pages -> Values \cup {Absent}]])'
  BY ContentsAreTyped, PTL
<1> QED
  BY <1>1

\* A step that leaves what is kept for the pages of the areas, wherever that is,
\* is not seen by any program.
LEMMA Unseen ==
  ASSUME Inv, Inv', UNCHANGED areas,
         \A t \in Spaces, q \in Pages : AreaOf(q) \in areas[t] =>
           Kept(frames'[t][q], ram', zram', swap') = Kept(frames[t][q], ram, zram, swap)
  PROVE  Contents' = Contents
<1>1. /\ Contents = Image(areas, frames, ram, zram, swap)
      /\ Contents' = Image(areas', frames', ram', zram', swap')
  BY ContentsAreKept, ContentsAreKeptAfter
<1>2. \A t \in Spaces, q \in Pages :
        Seen(areas'[t], q, frames'[t][q], ram', zram', swap')
        = Seen(areas[t], q, frames[t][q], ram, zram, swap)
  BY DEF Seen
<1> QED
  BY <1>1, <1>2 DEF Image

-----------------------------------------------------------------------------
\* A page that moves takes along what is kept for it, and for no other page does
\* anything change.

LEMMA SlotsAreKept ==
  ASSUME TypeOK, ZramAccount, NEW s \in Spaces, NEW p \in Pages, NEW f \in Places,
         NEW x \in Values, SlotsMove(s, p, f, x), ~Owned(frames, f) \/ f.at # "zram"
  PROVE  /\ \A t \in Spaces, q \in Pages :
              frames[t][q].at = "zram" /\ (t # s \/ q # p) =>
                zram_read(zram', frames[t][q].id) = zram_read(zram, frames[t][q].id)
         /\ f.at = "zram" /\ frames[s][p].at # "zram" => zram_read(zram', f.id) = x
<1> DEFINE old == frames[s][p]
           taken == SlotTaken(f, x)
<1>0. /\ f.at = "zram" => /\ HasSpace(zram) /\ f = Compressed(ZramId(zram))
                          /\ taken = zram_write(zram, x)
      /\ f.at # "zram" => taken = zram
      /\ zram' = IF old.at = "zram" /\ Sole(old) THEN zram_discard(taken, old.id, Absent)
                 ELSE taken
      /\ old = frames[s][p]
  BY DEF SlotsMove, SlotTaken, LastLeaves
<1>1. /\ zram \in Stores /\ frames \in [Spaces -> [Pages -> Places]]
  BY DEF TypeOK, Stores, Slots
<1> HIDE DEF old, taken
<1> USE <1>0
<1>2. /\ taken \in Stores /\ FitsZram(taken)
      /\ \A i \in Slots : Owned(frames, Compressed(i)) =>
           Stored(taken, i) /\ zram_read(taken, i) = zram_read(zram, i)
      /\ f.at = "zram" => zram_read(taken, f.id) = x
  <2>1. CASE f.at = "zram"
    <3>1. /\ taken \in Stores /\ FitsZram(taken) /\ ZramId(zram) \in Slots
          /\ \A i : Stored(taken, i) <=> Stored(zram, i) \/ i = ZramId(zram)
          /\ zram_read(taken, ZramId(zram)) = x
          /\ \A i \in Slots : i # ZramId(zram) => zram_read(taken, i) = zram_read(zram, i)
      BY <1>1, <2>1, ZramWriteStoresOne, SMT DEF ZramAccount
    <3> QED
      BY <2>1, <3>1, PlacesDiffer, SMT DEF ZramAccount
  <2>2. CASE f.at # "zram"
    BY <1>1, <2>2 DEF ZramAccount
  <2> QED
    BY <2>1, <2>2
<1>3. ASSUME NEW i \in Slots, Owned(frames, Compressed(i)) \/ f = Compressed(i),
             ~(old.at = "zram" /\ Sole(old) /\ i = old.id)
      PROVE  zram_read(zram', i) = zram_read(taken, i)
  <2>1. CASE old.at = "zram" /\ Sole(old)
    <3>1. old \in Places /\ Owned(frames, old)
      BY <1>1 DEF Owned
    <3>2. old.id \in Slots /\ Stored(taken, old.id)
      BY <1>2, <2>1, <3>1, PlacesDiffer, ZenonT(60)
    <3> QED
      BY <1>2, <1>3, <2>1, <3>2, ZramDiscardFreesOne
  <2>2. CASE ~(old.at = "zram" /\ Sole(old))
    BY <2>2
  <2> QED
    BY <2>1, <2>2
<1>4. ASSUME NEW t \in Spaces, NEW q \in Pages, frames[t][q].at = "zram", t # s \/ q # p
      PROVE  zram_read(zram', frames[t][q].id) = zram_read(zram, frames[t][q].id)
  <2> DEFINE g == frames[t][q]
  <2>1. g \in Places /\ Owned(frames, g)
    BY <1>1 DEF Owned
  <2>2. g.id \in Slots /\ g = Compressed(g.id)
    BY <1>4, <2>1, PlacesDiffer
  <2>3. Sole(old) => g # old
    BY <1>4, SoleIsOnlyOwner DEF OnlyOwner, old
  <2>4. ~(old.at = "zram" /\ Sole(old) /\ g.id = old.id)
    <3>1. old \in Places
      BY <1>1
    <3> QED
      BY <2>2, <2>3, <3>1, PlacesDiffer, SMT
  <2> QED
    BY <1>2, <1>3, <2>1, <2>2, <2>4
<1>5. ASSUME f.at = "zram", old.at # "zram" PROVE zram_read(zram', f.id) = x
  BY <1>2, <1>5
<1> QED
  BY <1>4, <1>5

LEMMA SwapIsKept ==
  ASSUME TypeOK, SwapAccount, NEW s \in Spaces, NEW p \in Pages, NEW f \in Places,
         NEW x \in Values, SwapMoves(s, p, f, x), ~Owned(frames, f) \/ f.at # "swap"
  PROVE  /\ \A t \in Spaces, q \in Pages :
              frames[t][q].at = "swap" =>
                swap_read(swap', frames[t][q].id) = swap_read(swap, frames[t][q].id)
         /\ f.at = "swap" => swap_read(swap', f.id) = x
<1> DEFINE old == frames[s][p]
           taken == SwapTaken(f, x)
<1>0. /\ f.at = "swap" => /\ Free(swap) # {} /\ f = SwappedOut(alloc_page(swap))
                          /\ taken = swap_write(swap, x)
      /\ f.at # "swap" => taken = swap
      /\ swap' = IF old.at = "swap" /\ Sole(old) THEN swap_discard(taken, old.id) ELSE taken
      /\ old = frames[s][p]
  BY DEF SwapMoves, SwapTaken, LastLeaves
<1>1. /\ swap \in Areas /\ frames \in [Spaces -> [Pages -> Places]]
  BY DEF TypeOK, Areas, SwapIds
<1> HIDE DEF old, taken
<1> USE <1>0
<1>2. /\ taken \in Areas
      /\ \A i \in SwapIds : Owned(frames, SwappedOut(i)) => swap_read(taken, i) = swap_read(swap, i)
      /\ f.at = "swap" => swap_read(taken, f.id) = x /\ f.id \in SwapIds
  <2>1. CASE f.at = "swap"
    <3>1. /\ taken \in Areas /\ alloc_page(swap) \in SwapIds
          /\ swap_read(taken, alloc_page(swap)) = x
          /\ \A i \in SwapIds : i # alloc_page(swap) => swap_read(taken, i) = swap_read(swap, i)
      BY <1>1, <2>1, SwapWriteStoresOne, SMT
    <3> QED
      BY <2>1, <3>1, PlacesDiffer, SMT
  <2>2. CASE f.at # "swap"
    BY <1>1, <2>2
  <2> QED
    BY <2>1, <2>2
<1>3. \A i \in SwapIds : swap_read(swap', i) = swap_read(taken, i)
  <2>1. CASE old.at = "swap" /\ Sole(old)
    <3>1. old \in Places
      BY <1>1
    <3>2. old.id \in SwapIds
      BY <2>1, <3>1, PlacesDiffer
    <3> QED
      BY <1>2, <2>1, <3>2, SwapDiscardFreesOne
  <2>2. CASE ~(old.at = "swap" /\ Sole(old))
    BY <2>2
  <2> QED
    BY <2>1, <2>2
<1>4. ASSUME NEW t \in Spaces, NEW q \in Pages, frames[t][q].at = "swap"
      PROVE  swap_read(swap', frames[t][q].id) = swap_read(swap, frames[t][q].id)
  <2>1. frames[t][q] \in Places /\ Owned(frames, frames[t][q])
    BY <1>1 DEF Owned
  <2>2. frames[t][q].id \in SwapIds /\ frames[t][q] = SwappedOut(frames[t][q].id)
    BY <1>4, <2>1, PlacesDiffer
  <2> QED
    BY <1>2, <1>3, <2>1, <2>2
<1> QED
  BY <1>2, <1>3, <1>4

LEMMA OthersKeepTheirs ==
  ASSUME Inv, NEW s \in Spaces, NEW p \in Pages, NEW f \in Places, NEW x \in Values,
         Moves(s, p, f), SlotsMove(s, p, f, x), SwapMoves(s, p, f, x),
         f = Unallocated \/ ~Owned(frames, f),
         \A i \in Frames : Owned(frames, InMemory(i)) => ram'[i] = ram[i]
  PROVE  /\ \A t \in Spaces, q \in Pages : t # s \/ q # p =>
              Kept(frames'[t][q], ram', zram', swap') = Kept(frames[t][q], ram, zram, swap)
         /\ frames'[s][p] = f
<1>1. TypeOK /\ ZramAccount /\ SwapAccount /\ frames \in [Spaces -> [Pages -> Places]]
  BY DEF Inv, TypeOK
<1>2. \A t \in Spaces, q \in Pages :
        frames'[t][q] = IF t = s /\ q = p THEN f ELSE frames[t][q]
  BY <1>1, OneMoves, SMT
<1>3. Unallocated.at = "none"
  BY PlacesDiffer
<1>4. ASSUME NEW t \in Spaces, NEW q \in Pages, t # s \/ q # p
      PROVE  Kept(frames[t][q], ram', zram', swap') = Kept(frames[t][q], ram, zram, swap)
  <2>1. frames[t][q].at = "zram" =>
          zram_read(zram', frames[t][q].id) = zram_read(zram, frames[t][q].id)
    BY <1>1, <1>3, <1>4, SlotsAreKept
  <2>2. frames[t][q].at = "swap" =>
          swap_read(swap', frames[t][q].id) = swap_read(swap, frames[t][q].id)
    BY <1>1, <1>3, SwapIsKept
  <2>3. frames[t][q].at = "ram" => ram'[frames[t][q].id] = ram[frames[t][q].id]
    <3>1. frames[t][q] \in Places /\ Owned(frames, frames[t][q])
      BY <1>1 DEF Owned
    <3> QED
      BY <3>1, PlacesDiffer, SMT
  <2> QED
    BY <2>1, <2>2, <2>3 DEF Kept
<1> QED
  BY <1>2, <1>4, SMT

\* A page comes in with what was kept for it.
LEMMA ComingInIsUnseen ==
  ASSUME Inv, Inv', UNCHANGED areas, NEW s \in Spaces, NEW p \in Pages, NEW x \in Values,
         CanAlloc(frame_allocator), Moves(s, p, InMemory(Ppn(frame_allocator))),
         SlotsMove(s, p, InMemory(Ppn(frame_allocator)), x),
         SwapMoves(s, p, InMemory(Ppn(frame_allocator)), x),
         ram' = [ram EXCEPT ![Ppn(frame_allocator)] = x],
         x = Kept(frames[s][p], ram, zram, swap)
  PROVE  Contents' = Contents
<1> DEFINE ppn == Ppn(frame_allocator)
           f == InMemory(ppn)
<1>1. ppn \in Frames /\ f \in Places /\ ~Owned(frames, f) /\ f.at = "ram" /\ f.id = ppn
  BY FreshFrame, PlacesDiffer DEF Inv
<1>2. ram \in [Frames -> Values]
  BY Typed
<1>3. \A i \in Frames : Owned(frames, InMemory(i)) => ram'[i] = ram[i]
  BY <1>1, <1>2
<1>4. /\ Moves(s, p, f) /\ SlotsMove(s, p, f, x) /\ SwapMoves(s, p, f, x)
      /\ ram' = [ram EXCEPT ![ppn] = x]
  OBVIOUS
<1> HIDE DEF ppn, f
<1>5. /\ \A t \in Spaces, q \in Pages : t # s \/ q # p =>
           Kept(frames'[t][q], ram', zram', swap') = Kept(frames[t][q], ram, zram, swap)
      /\ frames'[s][p] = f
  BY <1>1, <1>3, <1>4, OthersKeepTheirs
<1>6. Kept(f, ram', zram', swap') = x
  BY <1>1, <1>2, <1>4 DEF Kept
<1> QED
  BY <1>5, <1>6, Unseen

\* A page moves out with what was kept for it.
LEMMA MovingOutIsUnseen ==
  ASSUME Inv, Inv', NEW s \in Spaces, NEW p \in Pages, NEW f \in Places, MoveOut(s, p, f),
         frames[s][p].at = "ram", f.at \in {"zram", "swap"}, ~Owned(frames, f),
         SlotsMove(s, p, f, ram[frames[s][p].id]), SwapMoves(s, p, f, ram[frames[s][p].id])
  PROVE  Contents' = Contents
<1> DEFINE x == ram[frames[s][p].id]
<1>1. Moves(s, p, f) /\ UNCHANGED <<ram, areas>>
  BY DEF MoveOut, Moves
<1>2. x \in Values /\ x = Kept(frames[s][p], ram, zram, swap)
  BY ReadsAreValues DEF Kept
<1>3. TypeOK /\ ZramAccount /\ SwapAccount
  BY DEF Inv
<1>4. SlotsMove(s, p, f, x) /\ SwapMoves(s, p, f, x)
  OBVIOUS
<1> HIDE DEF x
<1>5. /\ \A t \in Spaces, q \in Pages : t # s \/ q # p =>
           Kept(frames'[t][q], ram', zram', swap') = Kept(frames[t][q], ram, zram, swap)
      /\ frames'[s][p] = f
  BY <1>1, <1>2, <1>4, OthersKeepTheirs, SMT
<1>6. /\ f.at = "zram" => zram_read(zram', f.id) = x
  BY <1>2, <1>3, <1>4, SlotsAreKept
<1>7. f.at = "swap" => swap_read(swap', f.id) = x
  BY <1>2, <1>3, <1>4, SwapIsKept
<1>8. Kept(f, ram', zram', swap') = x
  BY <1>6, <1>7 DEF Kept
<1> QED
  BY <1>1, <1>2, <1>5, <1>8, Unseen

-----------------------------------------------------------------------------
\* What every action does to the contents.

LEMMA SameContents ==
  ASSUME Inv, Inv', UNCHANGED <<areas, frames, ram, zram, swap>>
  PROVE  Contents' = Contents
<1>1. \A t \in Spaces, q \in Pages :
        Kept(frames'[t][q], ram', zram', swap') = Kept(frames[t][q], ram, zram, swap)
  OBVIOUS
<1> QED
  BY <1>1, Unseen

LEMMA DoOomIsUnseen == ASSUME Inv, Inv', do_oom PROVE Contents' = Contents
<1> DEFINE s == Now.space
           p == Head(active[s]["mmap"])
           f == frames[s][p]
<1>1. /\ s \in Spaces /\ active[s]["mmap"] # <<>> /\ Dequeues(s, "mmap")
  BY Reclaimed DEF do_oom, Dequeues
<1>2. p \in Pages
  BY <1>1, ActiveShrinks DEF Inv
<1>3. \/ /\ f.at = "ram" /\ HasSpace(zram)
         /\ zram' = zram_write(zram, ram[f.id])
         /\ MoveOut(s, p, Compressed(ZramId(zram))) /\ UNCHANGED swap
      \/ /\ f.at = "ram" /\ Free(swap) # {}
         /\ swap' = swap_write(swap, ram[f.id])
         /\ MoveOut(s, p, SwappedOut(alloc_page(swap))) /\ UNCHANGED zram
      \/ UNCHANGED <<devices, areas, frames, pte, call>>
  BY DEF do_oom, MayMove
<1> HIDE DEF s, p
<1>4. CASE /\ f.at = "ram" /\ HasSpace(zram)
           /\ zram' = zram_write(zram, ram[f.id])
           /\ MoveOut(s, p, Compressed(ZramId(zram))) /\ UNCHANGED swap
  <2> DEFINE g == Compressed(ZramId(zram))
  <2>1. g \in Places /\ g.at = "zram" /\ ~Owned(frames, g)
    BY <1>4, FreshSlot DEF Inv
  <2>2. MoveOut(s, p, g) /\ g = Compressed(ZramId(zram))
    BY <1>4
  <2> HIDE DEF g
  <2>3. SlotsMove(s, p, g, ram[f.id]) /\ SwapMoves(s, p, g, ram[f.id])
    BY <1>4, <2>1, <2>2 DEF SlotsMove, SlotTaken, SwapMoves, SwapTaken, LastLeaves
  <2> QED
    BY <1>1, <1>2, <1>4, <2>1, <2>2, <2>3, MovingOutIsUnseen
<1>5. CASE /\ f.at = "ram" /\ Free(swap) # {}
           /\ swap' = swap_write(swap, ram[f.id])
           /\ MoveOut(s, p, SwappedOut(alloc_page(swap))) /\ UNCHANGED zram
  <2> DEFINE g == SwappedOut(alloc_page(swap))
  <2>1. g \in Places /\ g.at = "swap" /\ ~Owned(frames, g)
    BY <1>5, FreshSwap DEF Inv
  <2>2. MoveOut(s, p, g) /\ g = SwappedOut(alloc_page(swap))
    BY <1>5
  <2> HIDE DEF g
  <2>3. SlotsMove(s, p, g, ram[f.id]) /\ SwapMoves(s, p, g, ram[f.id])
    BY <1>5, <2>1, <2>2 DEF SlotsMove, SlotTaken, SwapMoves, SwapTaken, LastLeaves
  <2> QED
    BY <1>1, <1>2, <1>5, <2>1, <2>2, <2>3, MovingOutIsUnseen
<1>6. CASE UNCHANGED <<devices, areas, frames, pte, call>>
  BY <1>6, SameContents DEF devices
<1> QED
  BY <1>3, <1>4, <1>5, <1>6

LEMMA ForceSwapIsUnseen == ASSUME Inv, Inv', force_swap PROVE Contents' = Contents
<1> DEFINE s == Now.space
           p == Head(active[s]["heap"])
           f == frames[s][p]
<1>1. /\ s \in Spaces /\ active[s]["heap"] # <<>> /\ Dequeues(s, "heap")
  BY Reclaimed DEF force_swap, Dequeues
<1>2. p \in Pages
  BY <1>1, ActiveShrinks DEF Inv
<1>3. \/ /\ f.at = "ram" /\ Free(swap) # {}
         /\ swap' = swap_write(swap, ram[f.id])
         /\ MoveOut(s, p, SwappedOut(alloc_page(swap))) /\ UNCHANGED zram
      \/ UNCHANGED <<devices, areas, frames, pte, call>>
  BY DEF force_swap
<1> HIDE DEF s, p
<1>4. CASE /\ f.at = "ram" /\ Free(swap) # {}
           /\ swap' = swap_write(swap, ram[f.id])
           /\ MoveOut(s, p, SwappedOut(alloc_page(swap))) /\ UNCHANGED zram
  <2> DEFINE g == SwappedOut(alloc_page(swap))
  <2>1. g \in Places /\ g.at = "swap" /\ ~Owned(frames, g)
    BY <1>4, FreshSwap DEF Inv
  <2>2. MoveOut(s, p, g) /\ g = SwappedOut(alloc_page(swap))
    BY <1>4
  <2> HIDE DEF g
  <2>3. SlotsMove(s, p, g, ram[f.id]) /\ SwapMoves(s, p, g, ram[f.id])
    BY <1>4, <2>1, <2>2 DEF SlotsMove, SlotTaken, SwapMoves, SwapTaken, LastLeaves
  <2> QED
    BY <1>1, <1>2, <1>4, <2>1, <2>2, <2>3, MovingOutIsUnseen
<1>5. CASE UNCHANGED <<devices, areas, frames, pte, call>>
  BY <1>5, SameContents DEF devices
<1> QED
  BY <1>3, <1>4, <1>5

LEMMA ZeroedIsUnseen == ASSUME Inv, Inv', map_one_zeroed PROVE Contents' = Contents
<1> DEFINE f == InMemory(Ppn(frame_allocator))
           s == call.space
           p == Faulting
<1>1. /\ Running /\ frames[s][p] = Unallocated /\ TakeFrame(Zero) /\ UNCHANGED <<zram, swap>>
  BY DEF map_one_zeroed, Here
<1>2. /\ Unallocated.at = "none" /\ f.at = "ram" /\ Zero \in Values
  BY PlacesDiffer, MemoryAssumption
<1>3. s \in Spaces /\ p \in Pages
  BY <1>1, RunningPage, PageAtHand
<1>4. /\ Moves(s, p, f) /\ CanAlloc(frame_allocator) /\ UNCHANGED areas
      /\ ram' = [ram EXCEPT ![Ppn(frame_allocator)] = Zero]
  BY <1>1 DEF TakeFrame, MapTo, Moves
<1> HIDE DEF f, s, p
<1>5. SlotsMove(s, p, f, Zero) /\ SwapMoves(s, p, f, Zero)
  BY <1>1, <1>2 DEF SlotsMove, SlotTaken, SwapMoves, SwapTaken, LastLeaves
<1>6. Zero = Kept(frames[s][p], ram, zram, swap)
  BY <1>1, <1>2 DEF Kept
<1> QED
  BY <1>2, <1>3, <1>4, <1>5, <1>6, ComingInIsUnseen DEF f

LEMMA UnzipIsUnseen == ASSUME Inv, Inv', unzip PROVE Contents' = Contents
<1> DEFINE f == InMemory(Ppn(frame_allocator))
           s == call.space
           p == Faulting
           x == zram_read(zram, frames[s][p].id)
<1>1. /\ Running /\ frames[s][p].at = "zram" /\ TakeFrame(x) /\ UNCHANGED swap
      /\ zram' = IF Sole(frames[s][p]) THEN zram_discard(zram, frames[s][p].id, Absent) ELSE zram
  BY DEF unzip, Here
<1>2. s \in Spaces /\ p \in Pages
  BY <1>1, RunningPage, PageAtHand
<1>3. f.at = "ram" /\ x \in Values
  BY <1>1, <1>2, PlacesDiffer, ReadsAreValues
<1>4. /\ Moves(s, p, f) /\ CanAlloc(frame_allocator) /\ UNCHANGED areas
      /\ ram' = [ram EXCEPT ![Ppn(frame_allocator)] = x]
  BY <1>1 DEF TakeFrame, MapTo, Moves
<1>5. x = Kept(frames[s][p], ram, zram, swap)
  BY <1>1 DEF Kept
<1> HIDE DEF f, s, p, x
<1>6. SlotsMove(s, p, f, x) /\ SwapMoves(s, p, f, x)
  BY <1>1, <1>3 DEF SlotsMove, SlotTaken, SwapMoves, SwapTaken, LastLeaves
<1> QED
  BY <1>2, <1>3, <1>4, <1>5, <1>6, ComingInIsUnseen DEF f

LEMMA SwapInIsUnseen == ASSUME Inv, Inv', swap_in PROVE Contents' = Contents
<1> DEFINE f == InMemory(Ppn(frame_allocator))
           s == call.space
           p == Faulting
           x == swap_read(swap, frames[s][p].id)
<1>1. /\ Running /\ frames[s][p].at = "swap" /\ TakeFrame(x) /\ UNCHANGED zram
      /\ swap' = IF Sole(frames[s][p]) THEN swap_discard(swap, frames[s][p].id) ELSE swap
  BY DEF swap_in, Here
<1>2. s \in Spaces /\ p \in Pages
  BY <1>1, RunningPage, PageAtHand
<1>3. f.at = "ram" /\ x \in Values
  BY <1>1, <1>2, PlacesDiffer, ReadsAreValues
<1>4. /\ Moves(s, p, f) /\ CanAlloc(frame_allocator) /\ UNCHANGED areas
      /\ ram' = [ram EXCEPT ![Ppn(frame_allocator)] = x]
  BY <1>1 DEF TakeFrame, MapTo, Moves
<1>5. x = Kept(frames[s][p], ram, zram, swap)
  BY <1>1 DEF Kept
<1> HIDE DEF f, s, p, x
<1>6. SlotsMove(s, p, f, x) /\ SwapMoves(s, p, f, x)
  BY <1>1, <1>3 DEF SlotsMove, SlotTaken, SwapMoves, SwapTaken, LastLeaves
<1> QED
  BY <1>2, <1>3, <1>4, <1>5, <1>6, ComingInIsUnseen DEF f

LEMMA CopyOnWriteIsUnseen == ASSUME Inv, Inv', copy_on_write PROVE Contents' = Contents
<1> DEFINE f == InMemory(Ppn(frame_allocator))
           s == call.space
           p == Faulting
           x == ram[frames[s][p].id]
<1>1. /\ Running /\ Mapped(s, p) /\ CanAlloc(frame_allocator)
      /\ ram' = [ram EXCEPT ![Ppn(frame_allocator)] = x]
      /\ MapTo(Ppn(frame_allocator)) /\ UNCHANGED <<zram, swap>>
  BY DEF copy_on_write, Here
<1>2. s \in Spaces /\ p \in Pages
  BY <1>1, RunningPage, PageAtHand
<1>3. f.at = "ram" /\ x \in Values /\ frames[s][p].at = "ram"
  BY <1>1, <1>2, PlacesDiffer, ReadsAreValues, MappedPage
<1>4. Moves(s, p, f) /\ UNCHANGED areas
  BY <1>1 DEF MapTo, Moves
<1>5. x = Kept(frames[s][p], ram, zram, swap)
  BY <1>3 DEF Kept
<1> HIDE DEF f, s, p, x
<1>6. SlotsMove(s, p, f, x) /\ SwapMoves(s, p, f, x)
  BY <1>1, <1>3 DEF SlotsMove, SlotTaken, SwapMoves, SwapTaken, LastLeaves
<1> QED
  BY <1>1, <1>2, <1>3, <1>4, <1>5, <1>6, ComingInIsUnseen DEF f

LEMMA AllowWriteIsUnseen == ASSUME Inv, Inv', AllowWrite PROVE Contents' = Contents
<1> DEFINE s == call.space
           p == Faulting
<1>1. /\ Running /\ Mapped(s, p) /\ MapTo(frames[s][p].id) /\ UNCHANGED devices
  BY DEF AllowWrite, Here
<1>2. s \in Spaces /\ p \in Pages
  BY <1>1, RunningPage, PageAtHand
<1>3. frames[s][p] = InMemory(frames[s][p].id)
  BY <1>1, <1>2, MappedPage
<1>4. Moves(s, p, frames[s][p]) /\ UNCHANGED areas
  BY <1>1, <1>3 DEF MapTo, Moves
<1> HIDE DEF s, p
<1>5. frames \in [Spaces -> [Pages -> Places]]
  BY Typed
<1>6. frames' = frames
  BY <1>2, <1>4, <1>5 DEF Moves
<1> QED
  BY <1>1, <1>4, <1>6, SameContents DEF devices

LEMMA DropPageIsUnseen ==
  ASSUME Inv, Inv', DropPage, \A p \in call.left : AreaOf(p) \notin areas[call.space]
  PROVE  Contents' = Contents
<1> DEFINE s == call.space
           p == Min(call.left)
           old == frames[s][p]
<1>1. /\ call.op = "drop" /\ call.left # {} /\ Moves(s, p, Unallocated)
      /\ zram' = IF old.at = "zram" /\ Sole(old) THEN zram_discard(zram, old.id, Absent) ELSE zram
      /\ swap' = IF old.at = "swap" /\ Sole(old) THEN swap_discard(swap, old.id) ELSE swap
      /\ UNCHANGED <<ram, areas>>
  BY DEF DropPage, Moves
<1>2. call \in Drops
  BY <1>1, CallKinds DEF Inv
<1>3. s \in Spaces /\ call.left \in SUBSET Pages /\ call.left \in SUBSET Nat
  BY <1>2, SMT DEF Drops, Pages
<1>4. p \in call.left /\ p \in Pages
  BY <1>1, <1>3, LeastNumber
<1>5. PICK x : x \in Values
  BY MemoryAssumption
<1>6. Unallocated \in Places /\ Unallocated.at = "none"
  BY PlacesDiffer
<1>7. AreaOf(p) \notin areas[s]
  BY <1>4
<1> HIDE DEF s, p
<1>8. /\ SlotsMove(s, p, Unallocated, x) /\ SwapMoves(s, p, Unallocated, x)
  BY <1>1, <1>6 DEF SlotsMove, SlotTaken, SwapMoves, SwapTaken, LastLeaves
<1>9. \A t \in Spaces, q \in Pages : t # s \/ q # p =>
        Kept(frames'[t][q], ram', zram', swap') = Kept(frames[t][q], ram, zram, swap)
  BY <1>1, <1>3, <1>4, <1>5, <1>6, <1>8, OthersKeepTheirs, SMTT(30)
<1> QED
  BY <1>1, <1>7, <1>9, Unseen

-----------------------------------------------------------------------------
\* With private buffers, what the kernel has found out about the page it copies to
\* holds until it has written: a page that is mapped is mapped writable, for buffers on pages still
\* shared after a fork are left out, and the page is not reclaimed before the
\* slice is used, for a buffer has one page.
PrivateBuffers == ~SharedBuffers /\ \A b \in Buffers : Len(b) = 1

CopyIsSafe ==
  call.op = "copy" =>
    /\ call.stage = "translate" => call.visit = NoVisit
    /\ \/ /\ Len(call.todo) = 1 /\ call.slices = <<>>
          /\ Mapped(call.space, Faulting) =>
               call.stage = "translate" /\ pte[call.space][Faulting].w
       \/ /\ call.todo = <<>> /\ Len(call.slices) = 1 /\ call.stage = "translate"
          /\ pte[call.space][call.slices[1].page] = Entry(call.slices[1].ppn, TRUE)

Safe == Inv /\ CopyIsSafe

\* A step after which nothing is copied.
LEMMA NothingGoesOn ==
  ASSUME call' \in {Idle, [op |-> "panic"]} \/ call'.op \in {"fault", "fork"}
  PROVE  CopyIsSafe'
<1>1. call'.op # "copy"
  BY SMT DEF Idle
<1> QED
  BY <1>1 DEF CopyIsSafe

\* A request that has its memory and goes on to wait, in stage "reserved".
LEMMA WaitingGoesOn ==
  ASSUME Safe, call \in Requests, call' \in Requests, Alike(call, call'),
         call.op = "copy" => call.stage = "reserved",
         \A s \in Spaces, p \in Pages : Mapped(s, p)' => Mapped(s, p)
  PROVE  CopyIsSafe'
<1>1. CASE call.op = "copy"
  <2>1. /\ Len(call.todo) = 1 /\ call.slices = <<>> /\ ~Mapped(call.space, Faulting)
        /\ CallIsSound /\ Inv
    BY <1>1 DEF Safe, Inv, CopyIsSafe
  <2>2. call.space \in Spaces /\ Faulting \in Pages
    BY <1>1, <2>1, PageAtHand DEF CallIsSound
  <2>3. /\ call'.op = "copy" /\ call'.stage = "reserved" /\ call'.todo = call.todo
        /\ call'.slices = call.slices /\ call'.space = call.space
    BY <1>1 DEF Alike
  <2>4. ~Mapped(call.space, Faulting)'
    <3>1. \A s \in Spaces, p \in Pages : pte'[s][p] # Unmapped => pte[s][p] # Unmapped
      BY DEF Mapped
    <3> QED
      BY <2>1, <2>2, <2>3, <3>1 DEF Mapped, Faulting
  <2> QED
    BY <2>1, <2>3, <2>4 DEF CopyIsSafe
<1>2. CASE call.op # "copy"
  BY <1>2, NothingGoesOn DEF Alike, Requests
<1> QED
  BY <1>1, <1>2

LEMMA ReclaimGoesOn ==
  ASSUME Safe, Reclaiming
  PROVE  call \in Requests /\ (call.op = "copy" => call.stage = "reserved")
<1>1. call \in Requests
  BY CallKinds DEF Reclaiming, Safe, Inv
<1> QED
  BY <1>1 DEF Safe, CopyIsSafe, Reclaiming, Requests

\* The one page of a buffer is found at ppn.
LEMMA SliceIsFound ==
  ASSUME Safe, call.op = "copy", call.stage \in {"reserved", "translate"}, call.todo # <<>>,
         call.visit = NoVisit, NEW ppn, Resolve(ppn),
         pte'[call.space][Faulting] = Entry(ppn, TRUE)
  PROVE  CopyIsSafe'
<1>1. call \in Requests /\ Len(call.todo) = 1 /\ call.slices = <<>>
  BY CallKinds DEF Safe, Inv, CopyIsSafe
<1>2. call.todo \in Seq(Pages)
  BY <1>1 DEF Requests
<1>3. Tail(call.todo) = <<>>
  <2>1. Tail(call.todo) \in Seq(Pages) /\ Len(Tail(call.todo)) = 0
    BY <1>1, <1>2, SeqTail, SMT
  <2> QED
    BY <2>1, SeqIsEmpty
<1> DEFINE e == [page |-> Faulting, ppn |-> ppn]
<1>4. Append(call.slices, e) = <<e>> /\ Len(<<e>>) = 1 /\ <<e>>[1] = e
  BY <1>1, SMT
<1>5. call' = [call EXCEPT !.stage = "translate", !.again = FALSE, !.todo = <<>>, !.slices = <<e>>]
  BY <1>3, <1>4 DEF Resolve
<1>6. /\ call'.op = "copy" /\ call'.stage = "translate" /\ call'.visit = NoVisit
      /\ call'.todo = <<>> /\ call'.slices = <<e>> /\ call'.space = call.space
  BY <1>1, <1>5 DEF Requests
<1>7. e.page = Faulting /\ e.ppn = ppn
  OBVIOUS
<1> HIDE DEF e
<1> QED
  BY <1>4, <1>6, <1>7 DEF CopyIsSafe

LEMMA MapToIsSafe ==
  ASSUME Safe, Running, NEW ppn, MapTo(ppn)
  PROVE  CopyIsSafe'
<1>1. call.op \in {"fault", "copy"} /\ call.todo # <<>> /\ call.stage = "reserved"
      /\ call.visit = NoVisit
  BY RunningPage DEF Safe, Running
<1>2. /\ call.space \in Spaces /\ Faulting \in Pages
  BY <1>1, PageAtHand DEF Safe
<1>3. Resolve(ppn) /\ pte' = [pte EXCEPT ![call.space][Faulting] = Entry(ppn, TRUE)]
  BY DEF MapTo
<1>4. pte \in [Spaces -> [Pages -> Entries]]
  BY Typed DEF Safe
<1>5. pte'[call.space][Faulting] = Entry(ppn, TRUE)
  BY <1>2, <1>3, <1>4
<1>6. CASE call.op = "fault"
  BY <1>3, <1>6, NothingGoesOn DEF Resolve
<1>7. CASE call.op = "copy"
  BY <1>1, <1>3, <1>5, <1>7, SliceIsFound
<1> QED
  BY <1>1, <1>6, <1>7

LEMMA PageFaultIsSafe == ASSUME Safe, PageFault PROVE CopyIsSafe'
<1>1. CASE Exhausted
  <2>1. /\ Running /\ UNCHANGED <<devices, tables>>
        /\ \/ AskAgain(NoVisit)
           \/ \E s \in Living \ {call.space}, k \in {2, 3} : AskAgain(Visit(s, k))
           \/ call' \in {Idle, [op |-> "panic"]}
    BY <1>1 DEF Exhausted
  <2>2. call \in Requests /\ call.stage = "reserved"
    BY <2>1, CallKinds DEF Running, Safe, Inv
  <2>3. ASSUME NEW v \in Visits, AskAgain(v) PROVE CopyIsSafe'
    <3>1. call' \in Requests /\ Alike(call, call')
      BY <2>2, <2>3, RequestGoesOn DEF AskAgain
    <3>2. UNCHANGED pte
      BY <2>1 DEF tables
    <3> QED
      BY <2>2, <3>1, <3>2, WaitingGoesOn DEF Mapped
  <2>4. ASSUME call' \in {Idle, [op |-> "panic"]} PROVE CopyIsSafe'
    BY <2>4, NothingGoesOn
  <2>5. ASSUME NEW s \in Living \ {call.space}, NEW k \in {2, 3} PROVE Visit(s, k) \in Visits
    BY VisitsFit, SMT DEF Living
  <2> QED
    BY <2>1, <2>3, <2>4, <2>5, VisitsFit
<1>2. CASE \E ppn : MapTo(ppn) /\ Running
  BY <1>2, MapToIsSafe
<1>3. (map_one_zeroed \/ unzip \/ swap_in \/ AllowWrite \/ copy_on_write) =>
        \E ppn : MapTo(ppn) /\ Running
  BY DEF map_one_zeroed, unzip, swap_in, AllowWrite, copy_on_write, TakeFrame
<1> QED
  BY <1>1, <1>2, <1>3 DEF PageFault

LEMMA ReclaimIsSafe ==
  ASSUME Safe, do_oom \/ force_swap \/ NextVisit PROVE CopyIsSafe'
<1>1. Reclaiming
  BY DEF do_oom, force_swap, NextVisit, Reclaims
<1>2. call \in Requests /\ (call.op = "copy" => call.stage = "reserved")
  BY <1>1, ReclaimGoesOn
<1>3. ASSUME NEW s, NEW p, NEW f, MoveOut(s, p, f) PROVE CopyIsSafe'
  <2>1. pte' = [pte EXCEPT ![s][p] = Unmapped] /\ Released
    BY <1>3 DEF MoveOut
  <2>2. PICK n \in Nat : call' = [call EXCEPT !.need = n]
    <3>1. call.need \in Nat
      BY <1>2 DEF Requests
    <3> QED
      BY <2>1, <3>1, SMT DEF Released
  <2>3. call' \in Requests /\ Alike(call, call')
    BY <1>2, <2>2 DEF Requests, Alike
  <2>4. pte \in [Spaces -> [Pages -> Entries]]
    BY Typed DEF Safe
  <2>5. \A t \in Spaces, q \in Pages : pte'[t][q] = pte[t][q] \/ pte'[t][q] = Unmapped
    BY <2>1, <2>4
  <2>6. \A t \in Spaces, q \in Pages : Mapped(t, q)' => Mapped(t, q)
    BY <2>5 DEF Mapped
  <2> QED
    BY <1>2, <2>3, <2>6, WaitingGoesOn
<1>4. ASSUME NEW v \in Visits, call' = [call EXCEPT !.visit = v], UNCHANGED <<devices, tables>>
      PROVE  CopyIsSafe'
  <2>1. call' \in Requests /\ Alike(call, call')
    BY <1>2, <1>4, RequestGoesOn
  <2>2. UNCHANGED pte
    BY <1>4 DEF tables
  <2> QED
    BY <1>2, <2>1, <2>2, WaitingGoesOn DEF Mapped
<1>5. ASSUME UNCHANGED <<call, pte>> PROVE CopyIsSafe'
  <2>1. Alike(call, call')
    BY <1>5 DEF Alike
  <2> QED
    BY <1>2, <1>5, <2>1, WaitingGoesOn DEF Mapped
<1>6. CASE do_oom \/ force_swap
  <2>1. (\E s, p, f : MoveOut(s, p, f)) \/ UNCHANGED <<call, pte>>
    BY <1>6 DEF do_oom, force_swap
  <2> QED
    BY <1>3, <1>5, <2>1
<1>7. CASE NextVisit
  <2>1. /\ UNCHANGED <<devices, tables>>
        /\ \/ call' = [call EXCEPT !.visit = NoVisit]
           \/ \E s \in Living \ Locked, k \in {2, 3} : call' = [call EXCEPT !.visit = Visit(s, k)]
    BY <1>7 DEF NextVisit
  <2>2. ASSUME NEW s \in Living \ Locked, NEW k \in {2, 3} PROVE Visit(s, k) \in Visits
    BY VisitsFit, SMT DEF Living
  <2> QED
    BY <1>4, <2>1, <2>2, VisitsFit
<1> QED
  BY <1>6, <1>7

LEMMA TranslateIsSafe ==
  ASSUME Safe, translated_byte_buffer PROVE CopyIsSafe'
<1>1. /\ call.op = "copy" /\ call.stage = "translate" /\ call.todo # <<>>
      /\ UNCHANGED <<devices, tables>>
  BY DEF translated_byte_buffer, Translating
<1>2. /\ call \in Requests /\ call.visit = NoVisit /\ Len(call.todo) = 1 /\ call.slices = <<>>
      /\ Mapped(call.space, Faulting) => pte[call.space][Faulting].w
  BY <1>1, CallKinds DEF Safe, Inv, CopyIsSafe
<1>3. call.space \in Spaces /\ Faulting \in Pages
  BY <1>1, PageAtHand DEF Safe
<1>4. pte \in [Spaces -> [Pages -> Entries]] /\ UNCHANGED pte
  BY <1>1, Typed DEF Safe, tables
<1>5. CASE Mapped(call.space, Faulting)
  <2> DEFINE ppn == pte[call.space][Faulting].ppn
  <2>1. Resolve(ppn)
    BY <1>5 DEF translated_byte_buffer
  <2>2. pte[call.space][Faulting] = Entry(ppn, TRUE)
    BY <1>2, <1>3, <1>4, <1>5 DEF Entries, Entry
  <2> QED
    BY <1>1, <1>2, <1>4, <2>1, <2>2, SliceIsFound
<1>6. CASE ~Mapped(call.space, Faulting)
  <2> DEFINE c == [call EXCEPT !.stage = "reserved"]
  <2>1. frame_reserve(c)
    BY <1>6 DEF translated_byte_buffer
  <2>2. /\ c \in Requests /\ c.op = "copy" /\ c.space = call.space /\ c.todo = call.todo
        /\ c.slices = call.slices /\ c.stage = "reserved"
    BY <1>1, <1>2 DEF Requests
  <2> HIDE DEF c
  <2>3. Alike(c, call')
    BY <2>1, <2>2, ReserveGoesOn DEF Safe, Inv
  <2>4. /\ call'.op = "copy" /\ call'.space = call.space /\ call'.todo = call.todo
        /\ call'.slices = <<>> /\ call'.stage = "reserved"
    BY <1>2, <2>2, <2>3 DEF Alike
  <2>5. ~Mapped(call.space, Faulting)'
    BY <1>4, <1>6, <2>4 DEF Mapped, Faulting
  <2> QED
    BY <1>2, <2>4, <2>5 DEF CopyIsSafe
<1> QED
  BY <1>5, <1>6

LEMMA CopyStartsSafe ==
  ASSUME Safe, PrivateBuffers, NEW s \in Spaces, NEW b \in Buffers, NEW x \in Values,
         copy_to_user(s, b, x)
  PROVE  CopyIsSafe'
<1>1. /\ \A i \in DOMAIN b : ~Mapped(s, b[i]) \/ pte[s][b[i]].w
      /\ call' = [Request("copy", s, b) EXCEPT !.stage = "translate", !.arg = x]
      /\ UNCHANGED <<devices, tables>>
  BY DEF copy_to_user, PrivateBuffers
<1>2. b \in Seq(Pages) /\ Len(b) = 1
  BY MemoryAssumption DEF PrivateBuffers, Pages
<1>3. 1 \in DOMAIN b /\ Head(b) = b[1]
  BY <1>2, SMT
<1>4. /\ call'.op = "copy" /\ call'.space = s /\ call'.todo = b
      /\ call'.slices = <<>> /\ call'.stage = "translate" /\ call'.visit = NoVisit
  BY <1>1 DEF Request
<1>5. UNCHANGED pte
  BY <1>1 DEF tables
<1>6. Mapped(call.space, Faulting)' => pte'[s][b[1]].w
  BY <1>1, <1>3, <1>4, <1>5 DEF Mapped, Faulting
<1> QED
  BY <1>2, <1>3, <1>4, <1>6 DEF CopyIsSafe, Faulting

LEMMA SafeStep == ASSUME Safe, PrivateBuffers, [Next]_vars PROVE Safe'
<1>0. Inv'
  BY StepKeeps DEF Safe
<1> SUFFICES CopyIsSafe'
  BY <1>0 DEF Safe
<1>1. CASE do_oom \/ force_swap \/ NextVisit
  BY <1>1, ReclaimIsSafe
<1>2. CASE PageFault
  BY <1>2, PageFaultIsSafe
<1>3. CASE translated_byte_buffer
  BY <1>3, TranslateIsSafe
<1>4. CASE WriteSlice
  <2>1. call.op = "copy" /\ call.todo = <<>>
        /\ call' = IF Len(call.slices) = 1 THEN Idle ELSE [call EXCEPT !.slices = Tail(@)]
    BY <1>4 DEF WriteSlice
  <2>2. Len(<<>>) # 1
    BY SMT
  <2>3. call' = Idle
    BY <2>1, <2>2 DEF Safe, CopyIsSafe
  <2> QED
    BY <2>3, NothingGoesOn
<1>5. CASE from_existing_user \/ Dropped
  BY <1>5, NothingGoesOn DEF from_existing_user, Dropped
<1>6. CASE DropPage
  <2>1. call \in Drops /\ \E p : call' = [call EXCEPT !.left = @ \ {p}]
    BY <1>6, CallKinds DEF DropPage, Safe, Inv
  <2>2. call'.op = "drop"
    BY <2>1 DEF Drops
  <2> QED
    BY <2>2 DEF CopyIsSafe
<1>7. CASE UNCHANGED vars
  <2>1. UNCHANGED <<areas, pte, call>>
    BY <1>7 DEF vars, tables
  <2> QED
    BY <2>1 DEF Safe, CopyIsSafe, Mapped, Faulting
<1>8. ASSUME NEW s \in Spaces, NEW p \in Pages, Fault(s, p) PROVE CopyIsSafe'
  <2> DEFINE r == Request("fault", s, <<p>>)
  <2>1. r \in Requests
    <3>1. <<p>> \in Seq(Pages)
      BY SMT
    <3> QED
      BY <3>1, RequestIsTyped
  <2>2. r.op = "fault" /\ frame_reserve(r)
    BY <1>8 DEF Fault, Request
  <2> HIDE DEF r
  <2>3. Alike(r, call')
    BY <2>1, <2>2, ReserveGoesOn DEF Safe, Inv
  <2> QED
    BY <2>2, <2>3, NothingGoesOn DEF Alike
<1>9. ASSUME NEW s \in Spaces, NEW p \in Pages, NEW x \in Values, Store(s, p, x)
      PROVE  CopyIsSafe'
  BY <1>9, NothingGoesOn DEF Store
<1>10. ASSUME NEW s \in Spaces, NEW b \in Buffers, NEW x \in Values, copy_to_user(s, b, x)
       PROVE  CopyIsSafe'
  BY <1>10, CopyStartsSafe
<1>11. ASSUME NEW s \in Spaces, NEW c \in Spaces, Fork(s, c) PROVE CopyIsSafe'
  <2> DEFINE r == [Request("fork", s, <<>>) EXCEPT !.arg = c]
  <2>1. r \in Requests /\ r.op = "fork" /\ frame_reserve(r)
    <3>1. /\ Zero \in Values /\ <<>> \in Seq(Pages)
          /\ <<>> \in Seq([page : Pages, ppn : 0..NFrames])
      BY MemoryAssumption, SeqIsEmpty
    <3> QED
      BY <1>11, <3>1 DEF Fork, Request, Requests
  <2> HIDE DEF r
  <2>2. Alike(r, call')
    BY <2>1, ReserveGoesOn DEF Safe, Inv
  <2> QED
    BY <2>1, <2>2, NothingGoesOn DEF Alike
<1>12. ASSUME NEW s \in Spaces, munmap(s) PROVE CopyIsSafe'
  BY <1>12 DEF munmap, DropAreas, CopyIsSafe
<1>13. ASSUME NEW s \in Spaces, Exit(s) PROVE CopyIsSafe'
  BY <1>13 DEF Exit, DropAreas, CopyIsSafe
<1>14. ASSUME NEW s \in Spaces, mmap(s) PROVE CopyIsSafe'
  BY <1>14, NothingGoesOn DEF mmap
<1> QED
  BY <1>1, <1>2, <1>3, <1>4, <1>5, <1>6, <1>7, <1>8, <1>9, <1>10, <1>11, <1>12, <1>13, <1>14
     DEF Next, Halted

-----------------------------------------------------------------------------
\* What needs no assumption on the buffers.  The kernel reclaims memory while it
\* waits for a page and not between two pages it has found, and the pages being
\* dropped are in no area any more.
AtRest == call.op = "copy" /\ call.stage = "translate" => call.visit = NoVisit
DropIsOver == call.op = "drop" => \A p \in call.left : AreaOf(p) \notin areas[call.space]

Sound == Inv /\ AtRest /\ DropIsOver

LEMMA NotDropping ==
  ASSUME \/ call' \in {Idle, [op |-> "panic"]} \/ call'.op \in {"fault", "fork"}
         \/ call'.op = "copy" /\ (call'.stage = "translate" => call'.visit = NoVisit)
  PROVE  AtRest' /\ DropIsOver'
<1>1. call'.op # "drop" /\ (call'.op = "copy" /\ call'.stage = "translate" => call'.visit = NoVisit)
  BY SMT DEF Idle
<1> QED
  BY <1>1 DEF AtRest, DropIsOver

LEMMA ReclaimIsAtRest ==
  ASSUME Sound, do_oom \/ force_swap \/ NextVisit
  PROVE  AtRest' /\ DropIsOver'
<1>1. Reclaiming
  BY DEF do_oom, force_swap, NextVisit, Reclaims
<1>2. /\ call \in Requests /\ call.op \in {"fault", "copy", "fork"}
      /\ call.op = "copy" => call.stage # "translate"
  BY <1>1, CallKinds DEF Reclaiming, Sound, Inv, AtRest
<1>3. \/ Released \/ UNCHANGED call \/ \E v : call' = [call EXCEPT !.visit = v]
  BY DEF do_oom, force_swap, NextVisit, MoveOut
<1>4. call'.op = call.op /\ call'.stage = call.stage
  BY <1>2, <1>3 DEF Released, Requests
<1> QED
  BY <1>2, <1>4, NotDropping

LEMMA ResolveIsAtRest ==
  ASSUME call \in Requests, call.op \in {"fault", "copy"}, call.visit = NoVisit,
         NEW ppn, Resolve(ppn)
  PROVE  AtRest' /\ DropIsOver'
<1>1. CASE call.op = "fault"
  BY <1>1, NotDropping DEF Resolve
<1>2. CASE call.op = "copy"
  <2>1. call'.op = "copy" /\ call'.visit = NoVisit
    BY <1>2 DEF Resolve, Requests
  <2> QED
    BY <2>1, NotDropping
<1> QED
  BY <1>1, <1>2

LEMMA PageFaultIsAtRest == ASSUME Sound, PageFault PROVE AtRest' /\ DropIsOver'
<1>1. Running
  BY DEF PageFault, map_one_zeroed, unzip, swap_in, AllowWrite, copy_on_write, Exhausted
<1>2. /\ call \in Requests /\ call.op \in {"fault", "copy"} /\ call.stage = "reserved"
      /\ call.visit = NoVisit
  BY <1>1, CallKinds DEF Running, Sound, Inv
<1>3. CASE Exhausted
  <2>1. (\E v : AskAgain(v)) \/ call' \in {Idle, [op |-> "panic"]}
    BY <1>3 DEF Exhausted
  <2>2. ASSUME NEW v, AskAgain(v) PROVE AtRest' /\ DropIsOver'
    <3>1. call'.op = call.op /\ call'.stage = "reserved"
      BY <1>2, <2>2 DEF AskAgain, Requests
    <3> QED
      BY <1>2, <3>1, NotDropping
  <2> QED
    BY <2>1, <2>2, NotDropping
<1>4. CASE \E ppn : MapTo(ppn)
  BY <1>2, <1>4, ResolveIsAtRest DEF MapTo
<1>5. (map_one_zeroed \/ unzip \/ swap_in \/ AllowWrite \/ copy_on_write) => \E ppn : MapTo(ppn)
  BY DEF map_one_zeroed, unzip, swap_in, AllowWrite, copy_on_write, TakeFrame
<1> QED
  BY <1>3, <1>4, <1>5 DEF PageFault

LEMMA TranslateIsAtRest == ASSUME Sound, translated_byte_buffer PROVE AtRest' /\ DropIsOver'
<1>1. call.op = "copy" /\ call.stage = "translate"
  BY DEF translated_byte_buffer, Translating
<1>2. call \in Requests /\ call.visit = NoVisit
  BY <1>1, CallKinds DEF Sound, Inv, AtRest
<1>3. CASE \E ppn : Resolve(ppn)
  BY <1>1, <1>2, <1>3, ResolveIsAtRest
<1>4. CASE frame_reserve([call EXCEPT !.stage = "reserved"])
  <2> DEFINE c == [call EXCEPT !.stage = "reserved"]
  <2>1. c \in Requests /\ c.op = "copy" /\ c.stage = "reserved" /\ frame_reserve(c)
    BY <1>1, <1>2, <1>4 DEF Requests
  <2> HIDE DEF c
  <2>2. Alike(c, call')
    BY <2>1, ReserveGoesOn DEF Sound, Inv
  <2> QED
    BY <2>1, <2>2, NotDropping DEF Alike
<1> QED
  BY <1>3, <1>4 DEF translated_byte_buffer

LEMMA DropStartsOver ==
  ASSUME Sound, NEW s \in Spaces, NEW A \in SUBSET {"heap", "mmap"}, DropAreas(s, A)
  PROVE  AtRest' /\ DropIsOver'
<1> DEFINE left == UNION {PagesOf(a) : a \in A}
<1>1. /\ areas' = [areas EXCEPT ![s] = @ \ A]
      /\ call' = [op |-> "drop", space |-> s, left |-> left]
  BY DEF DropAreas
<1>2. areas'[s] = areas[s] \ A
  BY <1>1, Typed DEF Sound
<1>3. \A p \in left : AreaOf(p) \in A
  BY MemoryAssumption, SMT DEF AreaOf, PagesOf
<1>4. call'.op = "drop" /\ call'.space = s /\ call'.left = left
  BY <1>1
<1> HIDE DEF left
<1> QED
  BY <1>2, <1>3, <1>4 DEF AtRest, DropIsOver

LEMMA DropPageIsOver == ASSUME Sound, DropPage PROVE AtRest' /\ DropIsOver'
<1>1. /\ call.op = "drop" /\ UNCHANGED areas /\ \E p : call' = [call EXCEPT !.left = @ \ {p}]
  BY DEF DropPage
<1>2. PICK p : call' = [call EXCEPT !.left = @ \ {p}]
  BY <1>1
<1>3. call \in Drops
  BY <1>1, CallKinds DEF Sound, Inv
<1>4. /\ call'.op = "drop" /\ call'.space = call.space /\ call'.left = call.left \ {p}
  BY <1>2, <1>3 DEF Drops
<1> QED
  BY <1>1, <1>4 DEF Sound, AtRest, DropIsOver

LEMMA SoundStep == ASSUME Sound, [Next]_vars PROVE Sound'
<1>0. Inv'
  BY StepKeeps DEF Sound
<1> SUFFICES AtRest' /\ DropIsOver'
  BY <1>0 DEF Sound
<1>1. CASE do_oom \/ force_swap \/ NextVisit
  BY <1>1, ReclaimIsAtRest
<1>2. CASE PageFault
  BY <1>2, PageFaultIsAtRest
<1>3. CASE translated_byte_buffer
  BY <1>3, TranslateIsAtRest
<1>4. CASE WriteSlice
  <2>1. /\ call.op = "copy"
        /\ call' = Idle \/ call' = [call EXCEPT !.slices = Tail(@)]
    BY <1>4 DEF WriteSlice
  <2>2. call \in Requests
    BY <2>1, CallKinds DEF Sound, Inv
  <2>3. CASE call' = [call EXCEPT !.slices = Tail(@)]
    <3>1. call'.op = "copy" /\ call'.stage = call.stage /\ call'.visit = call.visit
      BY <2>1, <2>2, <2>3 DEF Requests
    <3> QED
      BY <2>1, <3>1, NotDropping DEF Sound, AtRest
  <2> QED
    BY <2>1, <2>3, NotDropping
<1>5. CASE from_existing_user \/ Dropped
  BY <1>5, NotDropping DEF from_existing_user, Dropped
<1>6. CASE DropPage
  BY <1>6, DropPageIsOver
<1>7. CASE UNCHANGED vars
  BY <1>7 DEF vars, tables, Sound, AtRest, DropIsOver
<1>8. ASSUME NEW r \in Requests, r.op \in {"fault", "fork"}, frame_reserve(r)
      PROVE  AtRest' /\ DropIsOver'
  <2>1. Alike(r, call')
    BY <1>8, ReserveGoesOn DEF Sound, Inv
  <2> QED
    BY <1>8, <2>1, NotDropping DEF Alike
<1>9. ASSUME NEW s \in Spaces, NEW p \in Pages, Fault(s, p) PROVE AtRest' /\ DropIsOver'
  <2> DEFINE r == Request("fault", s, <<p>>)
  <2>1. <<p>> \in Seq(Pages)
    BY SMT
  <2>2. r \in Requests /\ r.op = "fault" /\ frame_reserve(r)
    BY <1>9, <2>1, RequestIsTyped DEF Fault, Request
  <2> HIDE DEF r
  <2> QED
    BY <1>8, <2>2
<1>10. ASSUME NEW s \in Spaces, NEW p \in Pages, NEW x \in Values, Store(s, p, x)
       PROVE  AtRest' /\ DropIsOver'
  BY <1>10, NotDropping DEF Store
<1>11. ASSUME NEW s \in Spaces, NEW b \in Buffers, NEW x \in Values, copy_to_user(s, b, x)
       PROVE  AtRest' /\ DropIsOver'
  <2>1. call'.op = "copy" /\ call'.visit = NoVisit
    BY <1>11 DEF copy_to_user, Request
  <2> QED
    BY <2>1, NotDropping
<1>12. ASSUME NEW s \in Spaces, NEW c \in Spaces, Fork(s, c) PROVE AtRest' /\ DropIsOver'
  <2> DEFINE r == [Request("fork", s, <<>>) EXCEPT !.arg = c]
  <2>1. r \in Requests /\ r.op = "fork" /\ frame_reserve(r)
    <3>1. /\ Zero \in Values /\ <<>> \in Seq(Pages)
          /\ <<>> \in Seq([page : Pages, ppn : 0..NFrames])
      BY MemoryAssumption, SeqIsEmpty
    <3> QED
      BY <1>12, <3>1 DEF Fork, Request, Requests
  <2> HIDE DEF r
  <2> QED
    BY <1>8, <2>1
<1>13. ASSUME NEW s \in Spaces, munmap(s) PROVE AtRest' /\ DropIsOver'
  BY <1>13, DropStartsOver DEF munmap
<1>14. ASSUME NEW s \in Spaces, Exit(s) PROVE AtRest' /\ DropIsOver'
  <2>1. areas[s] \in SUBSET {"heap", "mmap"}
    BY AreasAreTyped DEF Sound
  <2> QED
    BY <1>14, <2>1, DropStartsOver DEF Exit
<1>15. ASSUME NEW s \in Spaces, mmap(s) PROVE AtRest' /\ DropIsOver'
  BY <1>15, NotDropping DEF mmap
<1> QED
  BY <1>1, <1>2, <1>3, <1>4, <1>5, <1>6, <1>7, <1>9, <1>10, <1>11, <1>12, <1>13, <1>14, <1>15
     DEF Next, Halted

-----------------------------------------------------------------------------
\* Every step is a step of AddressSpaces, or is not seen.

LEMMA DoingIs ==
  ASSUME TypeOK
  PROVE  /\ call = Idle => Doing = Memory!User
         /\ call.op = "fork" /\ call.visit = NoVisit => Doing = Memory!ForkOf(call.space, call.arg)
         /\ call.op = "copy" /\ call.todo = <<>> =>
              Doing = Memory!StoreTo(call.space, Head(call.slices).page, call.arg)
         /\ \/ call.op \in {"fault", "drop", "panic"}
            \/ call.op = "fork" /\ call.visit # NoVisit
            \/ call.op = "copy" /\ call.todo # <<>>
            => Doing = Memory!Busy
<1>1. call = Idle => call.op = "idle"
  BY CallKinds
<1>2. CASE call = Idle
  BY <1>1, <1>2 DEF Doing, Memory!User
<1>3. CASE call # Idle
  BY <1>3 DEF Doing, Memory!ForkOf, Memory!StoreTo, Memory!Busy
<1> QED
  BY <1>1, <1>2, <1>3

LEMMA UnseenIsServed ==
  ASSUME TypeOK, Contents' = Contents,
         \/ call = Idle \/ call.op \in {"fault", "drop", "panic"}
         \/ call.op = "fork" /\ call.visit # NoVisit
         \/ call.op = "copy" /\ call.todo # <<>>
  PROVE  Memory!Next
<1>1. Doing \in {Memory!User, Memory!Busy}
  BY DoingIs
<1>2. Memory!Serve
  BY <1>1 DEF Memory!Serve
<1> QED
  BY <1>2 DEF Memory!Next

\* Memories that differ in one page.
LEMMA OnePageDiffers ==
  ASSUME NEW U, NEW F \in [Spaces -> [Pages -> U]], NEW G \in [Spaces -> [Pages -> U]],
         NEW s \in Spaces, NEW p \in Pages, NEW x,
         \A t \in Spaces, q \in Pages : G[t][q] = IF t = s /\ q = p THEN x ELSE F[t][q]
  PROVE  G = [F EXCEPT ![s][p] = x]
<1>1. \A t \in Spaces : F[t] \in [Pages -> U] /\ G[t] \in [Pages -> U]
  OBVIOUS
<1>2. G[s] = [F[s] EXCEPT ![p] = x]
  BY <1>1
<1>3. \A t \in Spaces : t # s => G[t] = F[t]
  BY <1>1, SMT
<1> QED
  BY <1>2, <1>3

\* A store to frame ppn of a page that has it for itself changes that page.
LEMMA StoreIsSeenOnce ==
  ASSUME Inv, Inv', NEW s \in Spaces, NEW p \in Pages, NEW x \in Values, pte[s][p].w,
         ram' = [ram EXCEPT ![pte[s][p].ppn] = x], UNCHANGED <<areas, frames, zram, swap>>,
         call.op # "drop"
  PROVE  /\ Contents' = [Contents EXCEPT ![s][p] = x] /\ Contents[s][p] # Absent
<1>1. /\ frames[s][p].at = "ram" /\ frames[s][p].id \in Frames /\ pte[s][p].ppn = frames[s][p].id
      /\ frames[s][p] = InMemory(frames[s][p].id)
  <2>1. Mapped(s, p)
    BY SMT DEF Mapped, Unmapped
  <2> QED
    BY <2>1, MappedPage
<1>2. OnlyOwner(frames, s, p)
  BY DEF Inv, TablesAgree
<1>3. AreaOf(p) \in areas[s]
  <2>1. frames[s][p] # Unallocated
    BY <1>1, PlacesDiffer
  <2> QED
    BY <2>1 DEF Inv, PagesHaveAreas, Leaving
<1>4. ram \in [Frames -> Values] /\ frames \in [Spaces -> [Pages -> Places]]
  BY Typed
<1>5. Kept(frames[s][p], ram', zram', swap') = x
  BY <1>1, <1>4 DEF Kept
<1>6. ASSUME NEW t \in Spaces, NEW q \in Pages, t # s \/ q # p
      PROVE  Kept(frames[t][q], ram', zram', swap') = Kept(frames[t][q], ram, zram, swap)
  <2>1. frames[t][q].at = "ram" => frames[t][q].id # frames[s][p].id
    <3>1. frames[t][q] # frames[s][p]
      BY <1>2, <1>6 DEF OnlyOwner
    <3>2. frames[t][q] \in Places /\ frames[s][p] \in Places
      BY <1>4
    <3> QED
      BY <1>1, <3>1, <3>2, PlacesDiffer, SMTT(30)
  <2>2. frames[t][q].at = "ram" => ram'[frames[t][q].id] = ram[frames[t][q].id]
    <3>1. frames[t][q].at = "ram" => frames[t][q].id \in Frames
      BY <1>4, PlacesDiffer, SMT
    <3> QED
      BY <1>1, <1>4, <2>1, <3>1
  <2> QED
    BY <2>2 DEF Kept
<1>7. /\ Contents = Image(areas, frames, ram, zram, swap)
      /\ Contents' = Image(areas, frames, ram', zram', swap')
  BY ContentsAreKept, ContentsAreKeptAfter
<1>8. \A t \in Spaces, q \in Pages :
        Seen(areas[t], q, frames[t][q], ram', zram', swap')
        = IF t = s /\ q = p THEN x ELSE Seen(areas[t], q, frames[t][q], ram, zram, swap)
  BY <1>3, <1>5, <1>6 DEF Seen
<1>9. Contents' = [Contents EXCEPT ![s][p] = x]
  <2>1. /\ Contents \in [Spaces -> [Pages -> Values \cup {Absent}]]
        /\ Contents' \in [Spaces -> [Pages -> Values \cup {Absent}]]
    BY ContentsAreTyped, ContentsAreTypedAfter
  <2>2. \A t \in Spaces, q \in Pages :
          Contents'[t][q] = IF t = s /\ q = p THEN x ELSE Contents[t][q]
    BY <1>7, <1>8 DEF Image
  <2> QED
    BY <2>1, <2>2, OnePageDiffers, SMT
<1>10. Contents[s][p] = ram[frames[s][p].id]
  BY <1>1, <1>3, <1>7 DEF Image, Seen, Kept
<1>11. Contents[s][p] \in Values
  BY <1>1, <1>4, <1>10
<1> QED
  BY <1>9, <1>11, MemoryAssumption

LEMMA StoreIsWrite ==
  ASSUME Sound, Sound', NEW s \in Spaces, NEW p \in Pages, NEW x \in Values, Store(s, p, x)
  PROVE  Memory!Next
<1>1. /\ call = Idle /\ pte[s][p].w /\ ram' = [ram EXCEPT ![pte[s][p].ppn] = x]
      /\ UNCHANGED <<areas, frames, zram, swap, call>> /\ call.op # "drop"
  BY DEF Store, tables, Idle
<1>2. Contents' = [Contents EXCEPT ![s][p] = x] /\ Contents[s][p] # Absent
  BY <1>1, StoreIsSeenOnce DEF Sound
<1>3. Doing = Memory!User /\ Doing' = Memory!User
  <2>1. Doing = Memory!User
    BY <1>1, DoingIs DEF Sound, Inv
  <2>2. Doing' = Doing
    BY <1>1 DEF Doing
  <2> QED
    BY <2>1, <2>2
<1>4. Memory!Write(s, p, x)
  BY <1>2, <1>3 DEF Memory!Write
<1> QED
  BY <1>4 DEF Memory!Next

\* The page the kernel is about to store to is the program's own: it is still
\* mapped where translated_byte_buffer() found it, and writable (page_table.rs:126
\* hands out the frame of any page that is mapped).
OwnPage == LET slice == Head(call.slices) IN
           pte[call.space][slice.page] = Entry(slice.ppn, TRUE)
InPlace == WriteSlice => OwnPage

LEMMA WriteSliceIsStore ==
  ASSUME Sound, Sound', WriteSlice, OwnPage
  PROVE  Memory!Next
<1>1. /\ call.op = "copy" /\ call.todo = <<>>
      /\ ram' = [ram EXCEPT ![Head(call.slices).ppn] = call.arg]
      /\ UNCHANGED <<areas, frames, zram, swap>>
  BY DEF WriteSlice, tables
<1> DEFINE s == call.space
           p == Head(call.slices).page
           x == call.arg
<1>2. call \in Requests /\ x \in Values
  BY <1>1, CallKinds DEF Sound, Inv, CallIsSound
<1>3. call.slices # <<>>
  BY <1>1 DEF Sound, Inv, CallIsSound
<1>4. call.slices \in Seq([page : Pages, ppn : 0..NFrames]) /\ s \in Spaces
  BY <1>2 DEF Requests
<1>5. p \in Pages
  <2> DEFINE S == [page : Pages, ppn : 0..NFrames]
  <2>1. call.slices \in Seq(S)
    BY <1>4
  <2> HIDE DEF S
  <2>2. Head(call.slices) \in S
    BY <1>3, <2>1, SMT
  <2> QED
    BY <2>2 DEF S
<1>6. pte[s][p].w /\ ram' = [ram EXCEPT ![pte[s][p].ppn] = x]
  <2> DEFINE ppn == Head(call.slices).ppn
  <2>1. pte[s][p] = Entry(ppn, TRUE)
    BY DEF OwnPage
  <2>2. pte[s][p].w = TRUE /\ pte[s][p].ppn = ppn
    BY <2>1, SMT DEF Entry
  <2> QED
    BY <1>1, <2>2
<1>7. Doing = Memory!StoreTo(s, p, x)
  BY <1>1, DoingIs DEF Sound, Inv
<1> HIDE DEF s, p, x
<1>8. Contents' = [Contents EXCEPT ![s][p] = x]
  <2>1. Inv /\ Inv' /\ call.op # "drop"
    BY <1>1 DEF Sound
  <2> QED
    BY ONLY <1>1, <1>2, <1>4, <1>5, <1>6, <2>1, StoreIsSeenOnce, Zenon
<1>9. Memory!Store(s, p, x)
  BY <1>7, <1>8 DEF Memory!Store
<1> QED
  BY <1>2, <1>4, <1>5, <1>9 DEF Memory!Next

LEMMA ForkedIsFork == ASSUME Sound, Sound', from_existing_user PROVE Memory!Next
<1> DEFINE s == call.space
           c == call.arg
<1>1. /\ call.op = "fork" /\ call.visit = NoVisit /\ areas' = [areas EXCEPT ![c] = areas[s]]
      /\ frames' = [frames EXCEPT ![c] = frames[s]] /\ UNCHANGED <<ram, zram, swap>>
  BY DEF from_existing_user, devices
<1>2. s \in Spaces /\ c \in Spaces /\ c # s /\ areas[c] = {}
  BY <1>1, CallKinds DEF Sound, Inv, CallIsSound, Requests
<1>3. Doing = Memory!ForkOf(s, c)
  BY <1>1, DoingIs DEF Sound, Inv
<1> HIDE DEF s, c
<1>4. /\ Contents = Image(areas, frames, ram, zram, swap)
      /\ Contents' = Image(areas', frames', ram, zram, swap)
  BY <1>1, ContentsAreKept, ContentsAreKeptAfter DEF Sound
<1>5. /\ frames \in [Spaces -> [Pages -> Places]]
      /\ areas \in [Spaces -> {{}, {"heap"}, {"heap", "mmap"}}]
  BY Typed DEF Sound
<1>6. \A t \in Spaces : /\ areas'[t] = IF t = c THEN areas[s] ELSE areas[t]
                        /\ frames'[t] = IF t = c THEN frames[s] ELSE frames[t]
  BY <1>1, <1>2, <1>5
<1>7. \A t \in Spaces : Contents'[t] = IF t = c THEN Contents[s] ELSE Contents[t]
  BY <1>2, <1>4, <1>6 DEF Image
<1>8. /\ Contents \in [Spaces -> [Pages -> Values \cup {Absent}]]
      /\ Contents' \in [Spaces -> [Pages -> Values \cup {Absent}]]
  BY ContentsAreTyped, ContentsAreTypedAfter DEF Sound
<1>9. Contents' = [Contents EXCEPT ![c] = Contents[s]]
  BY <1>2, <1>7, <1>8
<1>10. Contents[c] = Memory!Nothing
  BY <1>2, <1>4 DEF Image, Seen, Memory!Nothing
<1>11. Memory!Fork(s, c)
  BY <1>3, <1>9, <1>10 DEF Memory!Fork
<1> QED
  BY <1>2, <1>11 DEF Memory!Next

\* One space changes its areas and nothing else that is seen.
LEMMA AreasAreSeen ==
  ASSUME Inv, Inv', NEW s \in Spaces, UNCHANGED <<frames, ram, zram, swap>>,
         \A t \in Spaces : t # s => areas'[t] = areas[t]
  PROVE  /\ \A q \in Pages :
              /\ Contents[s][q] = Seen(areas[s], q, frames[s][q], ram, zram, swap)
              /\ Contents'[s][q] = Seen(areas'[s], q, frames[s][q], ram, zram, swap)
         /\ Contents' = [Contents EXCEPT ![s] = Contents'[s]]
<1>1. /\ Contents = Image(areas, frames, ram, zram, swap)
      /\ Contents' = Image(areas', frames, ram, zram, swap)
  BY ContentsAreKept, ContentsAreKeptAfter
<1>2. /\ Contents \in [Spaces -> [Pages -> Values \cup {Absent}]]
      /\ Contents' \in [Spaces -> [Pages -> Values \cup {Absent}]]
  BY ContentsAreTyped, ContentsAreTypedAfter
<1>3. \A t \in Spaces : t # s => Contents'[t] = Contents[t]
  BY <1>1 DEF Image
<1>4. \A q \in Pages :
        /\ Contents[s][q] = Seen(areas[s], q, frames[s][q], ram, zram, swap)
        /\ Contents'[s][q] = Seen(areas'[s], q, frames[s][q], ram, zram, swap)
  BY <1>1 DEF Image
<1>5. Contents' = [Contents EXCEPT ![s] = Contents'[s]]
  BY <1>2, <1>3
<1> QED
  BY <1>4, <1>5

LEMMA DropAreasIsUnmap ==
  ASSUME Sound, Sound', call = Idle, NEW s \in Spaces, NEW A \in SUBSET {"heap", "mmap"},
         DropAreas(s, A)
  PROVE  Memory!Next
<1> DEFINE P == {q \in Pages : AreaOf(q) \in A}
<1>1. areas' = [areas EXCEPT ![s] = @ \ A] /\ UNCHANGED <<frames, ram, zram, swap>>
  BY DEF DropAreas, devices
<1>2. areas \in [Spaces -> {{}, {"heap"}, {"heap", "mmap"}}]
  BY Typed DEF Sound
<1>3. areas'[s] = areas[s] \ A /\ \A t \in Spaces : t # s => areas'[t] = areas[t]
  BY <1>1, <1>2
<1>4. /\ \A q \in Pages :
           /\ Contents[s][q] = Seen(areas[s], q, frames[s][q], ram, zram, swap)
           /\ Contents'[s][q] = Seen(areas'[s], q, frames[s][q], ram, zram, swap)
      /\ Contents' = [Contents EXCEPT ![s] = Contents'[s]]
  BY <1>1, <1>3, AreasAreSeen DEF Sound
<1>5. Contents' \in [Spaces -> [Pages -> Values \cup {Absent}]]
  BY ContentsAreTypedAfter DEF Sound
<1>6. \A q \in Pages : Contents'[s][q] = IF q \in P THEN Absent ELSE Contents[s][q]
  BY <1>3, <1>4 DEF Seen
<1> HIDE DEF P
<1>7. Contents'[s] = [q \in Pages |-> IF q \in P THEN Absent ELSE Contents[s][q]]
  BY <1>5, <1>6
<1>8. Doing = Memory!User
  BY DoingIs DEF Sound, Inv
<1>9. Memory!Unmap(s, P)
  BY <1>4, <1>7, <1>8 DEF Memory!Unmap
<1>10. P \in SUBSET Pages
  BY DEF P
<1> QED
  BY <1>9, <1>10 DEF Memory!Next

LEMMA MmapIsMap == ASSUME Sound, Sound', NEW s \in Spaces, mmap(s) PROVE Memory!Next
<1> DEFINE P == {q \in Pages : AreaOf(q) = "mmap"}
<1>1. /\ call = Idle /\ "mmap" \notin areas[s] /\ areas' = [areas EXCEPT ![s] = @ \cup {"mmap"}]
      /\ UNCHANGED <<frames, ram, zram, swap, call>>
  BY DEF mmap, devices
<1>2. areas \in [Spaces -> {{}, {"heap"}, {"heap", "mmap"}}]
  BY Typed DEF Sound
<1>3. areas'[s] = areas[s] \cup {"mmap"} /\ \A t \in Spaces : t # s => areas'[t] = areas[t]
  BY <1>1, <1>2
<1>4. /\ \A q \in Pages :
           /\ Contents[s][q] = Seen(areas[s], q, frames[s][q], ram, zram, swap)
           /\ Contents'[s][q] = Seen(areas'[s], q, frames[s][q], ram, zram, swap)
      /\ Contents' = [Contents EXCEPT ![s] = Contents'[s]]
  BY <1>1, <1>3, AreasAreSeen DEF Sound
<1>5. Contents' \in [Spaces -> [Pages -> Values \cup {Absent}]]
  BY ContentsAreTypedAfter DEF Sound
<1>6. \A q \in P : Contents[s][q] = Absent /\ frames[s][q] = Unallocated
  <2>1. call.op # "drop"
    BY <1>1 DEF Idle
  <2> QED
    BY <1>1, <1>4, <2>1 DEF Seen, Sound, Inv, PagesHaveAreas, Leaving
<1>7. \A q \in Pages : Contents'[s][q] = IF q \in P THEN Zero ELSE Contents[s][q]
  <2>1. Kept(Unallocated, ram, zram, swap) = Zero
    BY PlacesDiffer DEF Kept
  <2> QED
    BY <1>3, <1>4, <1>6, <2>1 DEF Seen
<1> HIDE DEF P
<1>8. Contents'[s] = [q \in Pages |-> IF q \in P THEN Zero ELSE Contents[s][q]]
  BY <1>5, <1>7
<1>9. Doing = Memory!User /\ Doing' = Memory!User
  <2>1. Doing = Memory!User
    BY <1>1, DoingIs DEF Sound, Inv
  <2>2. Doing' = Doing
    BY <1>1 DEF Doing
  <2> QED
    BY <2>1, <2>2
<1>10. Memory!Map(s, P)
  BY <1>4, <1>6, <1>8, <1>9 DEF Memory!Map
<1>11. P \in SUBSET Pages
  BY DEF P
<1> QED
  BY <1>10, <1>11 DEF Memory!Next

LEMMA InitIsInit == ASSUME Init, Inv PROVE Memory!Init
<1>1. PICK s \in Spaces : areas = [t \in Spaces |-> IF t = s THEN {"heap"} ELSE {}]
  BY DEF Init
<1>2. \A t \in Spaces, q \in Pages : frames[t][q] = Unallocated
  BY DEF Init, NoPages
<1> DEFINE P == {q \in Pages : AreaOf(q) = "heap"}
<1>3. ASSUME NEW t \in Spaces, NEW q \in Pages
      PROVE  Seen(areas[t], q, frames[t][q], ram, zram, swap)
             = IF t = s /\ q \in P THEN Zero ELSE Absent
  BY <1>1, <1>2, PlacesDiffer DEF Seen, Kept
<1>4. Contents = [t \in Spaces |-> [q \in Pages |-> IF t = s /\ q \in P THEN Zero ELSE Absent]]
  BY <1>3, ContentsAreKept, SMT DEF Image
<1>5. Doing = Memory!User
  BY DoingIs DEF Init, Inv
<1>6. P \in SUBSET Pages
  OBVIOUS
<1> HIDE DEF P
<1> QED
  BY <1>4, <1>5, <1>6 DEF Memory!Init

LEMMA StepIsStep ==
  ASSUME Sound, Sound', [Next]_vars, [InPlace]_vars
  PROVE  Memory!Next \/ UNCHANGED <<Contents, Doing>>
<1>0. TypeOK /\ Inv /\ Inv'
  BY DEF Sound, Inv
<1>1. CASE do_oom \/ force_swap \/ NextVisit
  <2>1. Reclaiming
    BY <1>1 DEF do_oom, force_swap, NextVisit, Reclaims
  <2>2. call.op \in {"fault", "copy", "fork"} /\ call.visit # NoVisit
    BY <2>1 DEF Reclaiming
  <2>3. call.op = "copy" => call.todo # <<>>
    BY <2>1, CallKinds DEF Reclaiming, Sound, AtRest, Inv, CallIsSound, Requests
  <2>4. Contents' = Contents
    BY <1>0, <1>1, DoOomIsUnseen, ForceSwapIsUnseen, SameContents DEF NextVisit, devices, tables
  <2> QED
    BY <1>0, <2>2, <2>3, <2>4, UnseenIsServed
<1>2. CASE PageFault
  <2>1. Running
    BY <1>2 DEF PageFault, map_one_zeroed, unzip, swap_in, AllowWrite, copy_on_write, Exhausted
  <2>2. call.op \in {"fault", "copy"} /\ call.todo # <<>>
    BY <1>0, <2>1, RunningPage
  <2>3. Contents' = Contents
    BY <1>0, <1>2, ZeroedIsUnseen, UnzipIsUnseen, SwapInIsUnseen, AllowWriteIsUnseen,
       CopyOnWriteIsUnseen, SameContents DEF PageFault, Exhausted, devices, tables
  <2> QED
    BY <1>0, <2>2, <2>3, UnseenIsServed
<1>3. ASSUME call = Idle \/ (call.op = "copy" /\ call.todo # <<>>) \/ call.op = "drop",
             UNCHANGED <<devices, tables>>
      PROVE  Memory!Next
  <2>1. Contents' = Contents
    BY <1>0, <1>3, SameContents DEF devices, tables
  <2> QED
    BY <1>0, <1>3, <2>1, UnseenIsServed
<1>4. CASE translated_byte_buffer
  BY <1>3, <1>4 DEF translated_byte_buffer, Translating
<1>9. CASE UNCHANGED vars
  <2>1. Contents' = Contents
    BY <1>0, <1>9, SameContents DEF vars, devices, tables
  <2>2. Doing' = Doing
    BY <1>9 DEF vars, Doing
  <2> QED
    BY <2>1, <2>2
<1>5. CASE WriteSlice
  BY <1>5, <1>9, WriteSliceIsStore DEF InPlace
<1>6. CASE from_existing_user
  BY <1>6, ForkedIsFork
<1>7. CASE DropPage
  <2>1. call.op = "drop" /\ \A p \in call.left : AreaOf(p) \notin areas[call.space]
    BY <1>7 DEF DropPage, Sound, DropIsOver
  <2> QED
    BY <1>0, <1>7, <2>1, DropPageIsUnseen, UnseenIsServed
<1>8. CASE Dropped
  BY <1>3, <1>8 DEF Dropped
<1>10. ASSUME NEW s \in Spaces, NEW p \in Pages, Fault(s, p) PROVE Memory!Next
  BY <1>3, <1>10 DEF Fault
<1>11. ASSUME NEW s \in Spaces, NEW p \in Pages, NEW x \in Values, Store(s, p, x)
       PROVE  Memory!Next
  BY <1>11, StoreIsWrite
<1>12. ASSUME NEW s \in Spaces, NEW b \in Buffers, NEW x \in Values, copy_to_user(s, b, x)
       PROVE  Memory!Next
  BY <1>3, <1>12 DEF copy_to_user
<1>13. ASSUME NEW s \in Spaces, NEW c \in Spaces, Fork(s, c) PROVE Memory!Next
  BY <1>3, <1>13 DEF Fork
<1>14. ASSUME NEW s \in Spaces, munmap(s) PROVE Memory!Next
  BY <1>14, DropAreasIsUnmap DEF munmap
<1>15. ASSUME NEW s \in Spaces, Exit(s) PROVE Memory!Next
  <2>1. areas[s] \in SUBSET {"heap", "mmap"}
    BY <1>0, AreasAreTyped
  <2> QED
    BY <1>15, <2>1, DropAreasIsUnmap DEF Exit
<1>16. ASSUME NEW s \in Spaces, mmap(s) PROVE Memory!Next
  BY <1>16, MmapIsMap
<1> QED
  BY <1>1, <1>2, <1>4, <1>5, <1>6, <1>7, <1>8, <1>9, <1>10, <1>11, <1>12, <1>13, <1>14, <1>15,
     <1>16 DEF Next, Halted

\* Virtual memory keeps its promise: a page table that maps, compresses, swaps
\* and shares pages behind the programs' backs cannot be told from memory of
\* their own, whatever the buffers handed to system calls, in every behaviour in
\* which the kernel stores to pages that are still the program's own.  The code
\* does not see to that by itself: translated_byte_buffer() (page_table.rs:126)
\* hands out the frame of a page that is shared after a fork, and faulting in a
\* page of a buffer may reclaim one found before it.
THEOREM Refinement == Spec /\ [][InPlace]_vars => ImplementsAddressSpaces
<1>1. Init => Sound /\ Memory!Init
  <2> SUFFICES ASSUME Init PROVE Sound /\ Memory!Init
    OBVIOUS
  <2>1. Inv /\ Memory!Init
    BY InitHolds, InitIsInit
  <2>2. call.op = "idle"
    BY DEF Init, Idle
  <2> QED
    BY <2>1, <2>2 DEF Sound, AtRest, DropIsOver
<1>2. Sound /\ [Next]_vars => Sound'
  BY SoundStep
<1>3. Sound /\ Sound' /\ [Next]_vars /\ [InPlace]_vars => [Memory!Next]_<<Contents, Doing>>
  BY StepIsStep
<1> QED
  BY <1>1, <1>2, <1>3, PTL DEF Spec, ImplementsAddressSpaces, Memory!Spec

\* Buffers of one page that is not, when the call is made, shared after a fork
\* are enough for that: with them every store by the kernel is to a page of the
\* program's own, and virtual memory keeps its promise.
THEOREM PrivateBuffersSuffice ==
  ASSUME PrivateBuffers
  PROVE  Spec => [][InPlace]_vars /\ ImplementsAddressSpaces
<1>1. Init => Safe
  <2> SUFFICES ASSUME Init PROVE Safe
    OBVIOUS
  <2>1. call.op = "idle"
    BY DEF Init, Idle
  <2> QED
    BY <2>1, InitHolds DEF Safe, CopyIsSafe
<1>2. Safe /\ [Next]_vars => Safe'
  BY SafeStep
<1>3. Safe => InPlace
  <2> SUFFICES ASSUME Safe, WriteSlice PROVE OwnPage
    BY DEF InPlace
  <2>1. call.op = "copy" /\ call.todo = <<>>
    BY DEF WriteSlice
  <2>2. Len(<<>>) # 1
    BY SMT
  <2>3. /\ Len(call.slices) = 1
        /\ pte[call.space][call.slices[1].page] = Entry(call.slices[1].ppn, TRUE)
    BY <2>1, <2>2 DEF Safe, CopyIsSafe
  <2>4. call.slices \in Seq([page : Pages, ppn : 0..NFrames])
    BY <2>1, CallKinds DEF Safe, Inv, Requests
  <2>5. Head(call.slices) = call.slices[1]
    BY <2>3, <2>4, SMT
  <2> QED
    BY <2>3, <2>5 DEF OwnPage
<1>4. Spec => [][InPlace]_vars
  BY <1>1, <1>2, <1>3, PTL DEF Spec
<1> QED
  BY <1>4, Refinement, PTL
=============================================================================

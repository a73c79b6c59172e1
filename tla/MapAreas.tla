------------------------------ MODULE MapAreas -------------------------------
(***************************************************************************)
(* The areas of one user address space: MapArea and LinearMap of           *)
(* mm/map_area.rs and the calls of mm/memory_set.rs that insert, cut, join *)
(* and protect them (mmap, munmap, mprotect, sbrk), with the page faults   *)
(* that fill them and the reclaim that empties them.                       *)
(*                                                                         *)
(* A page is a virtual page number; an address counts in parts of a page   *)
(* (Part of them).  The space is, from below: the program, its heap, the   *)
(* mmap zone, the first stack and the trap context.  want is the ghost of  *)
(* what the calls asked for.  Frames carry what they were filled with.     *)
(***************************************************************************)
EXTENDS Integers, FiniteSets, SequencesExt

CONSTANTS HeapBase, HeapEnd,     \* pages of USER_HEAP_SIZE above the program
          MmapBase, MmapEnd,
          Top,                   \* the page of the stack; the trap context is the next
          Part,                  \* parts of a page, to tell aligned addresses
          Prots,                 \* the protections asked for
          FilePages,             \* pages of the mapped file
          Offsets,               \* pages of it that mappings start at
          MaxLen,                \* bound on the pages of one call
          MaxCalls,              \* bound on the calls and reclaims
          MaxOut,                \* bound on the count of pages moved out
          Protected,             \* pages at which mprotect() may start
          Departures             \* calls that do not do what they say, see MayCall

VARIABLES areas, pte, heap_pt, want,
          calls                  \* calls and reclaims so far

vars == <<areas, pte, heap_pt, want, calls>>

Pages == 0..(Top + 1)
Zone == MmapBase..(MmapEnd - 1)
NoFile == -1
NoFrame == <<"none", 0>>
Ram(v) == <<"ram", v>>           \* a frame of its own, zeroed for page v
Copied(o) == <<"copied", o>>     \* a frame of its own, read from page o of the file
Cached(o) == <<"cached", o>>     \* the frame of page o in the page cache
Out(f) == <<"out", f>>           \* what is in zram or swap
InMemory(f) == f[1] \in {"ram", "copied", "cached"}
Unmapped == [frame |-> NoFrame, perm |-> {}]
Nothing == [perm |-> {}, file |-> NoFile, touched |-> FALSE, mapped |-> FALSE]
Wanted(prot, file) == [perm |-> prot, file |-> file, touched |-> FALSE, mapped |-> TRUE]

-----------------------------------------------------------------------------
(* LinearMap and MapArea                                                   *)

Range0(a) == a.lo..(a.hi - 1)
Has(a, v) == v \in Range0(a)
At(a, v) == a.frames[v - a.lo + 1]

MapArea(lo, hi, perm, file) ==
  [lo |-> lo, hi |-> hi, perm |-> perm, stripped |-> FALSE, file |-> file,
   frames |-> [i \in 1..(hi - lo) |-> NoFrame], active |-> {}, out |-> 0]

Resize(fs, n) == [i \in 1..n |-> IF i <= Len(fs) THEN fs[i] ELSE NoFrame]
RotateLeft(fs, k) == SubSeq(fs, k + 1, Len(fs)) \o SubSeq(fs, 1, k)

alloc_in_memory(a, v, f) ==
  [a EXCEPT !.active = @ \cup {v - a.lo}, !.frames[v - a.lo + 1] = f]

\* active.retain() is by index; take_in_memory() leaves what is moved out.
remove_in_memory(a, V) ==
  [a EXCEPT !.active = {i \in @ : a.lo + i \notin V},
            !.frames = [i \in DOMAIN @ |-> IF a.lo + i - 1 \in V /\ InMemory(@[i])
                                           THEN NoFrame ELSE @[i]]]

set_startUnturned(a, s) == [a EXCEPT !.lo = s, !.frames = Resize(@, a.hi - s)]

\* The frames turn with the start; the active list keeps its old indices.
set_start(a, s) ==
  [a EXCEPT !.lo = s, !.frames = Resize(RotateLeft(@, s - a.lo), a.hi - s)]

set_end(a, e) == [a EXCEPT !.hi = e, !.frames = Resize(@, e - a.lo)]

CanCut(a, cut) == a.lo < cut /\ cut < a.hi

count_out(a, n) ==
  IF a.out = 0 THEN 0
  ELSE Cardinality({i \in 1..n : a.frames[i][1] = "out"})

\* split_active_into_two(): indices count from the start of their half.
ActiveBelow(a, n) == {i \in a.active : i < n}
ActiveFrom(a, n) == {i - n : i \in a.active \ ActiveBelow(a, n)}

\* LinearMap::into_two(): what stays in the area.
Lower(a, cut) ==
  LET n == cut - a.lo IN
  [a EXCEPT !.hi = cut, !.frames = SubSeq(@, 1, n), !.out = count_out(a, n),
            !.active = ActiveBelow(a, n)]

\* MapArea::into_two(): the second half, whose file starts further on.
Upper(a, cut) ==
  LET n == cut - a.lo IN
  [a EXCEPT !.lo = cut, !.frames = SubSeq(@, n + 1, Len(@)), !.out = @ - count_out(a, n),
            !.active = ActiveFrom(a, n),
            !.file = IF @ = NoFile THEN NoFile ELSE @ + n]

\* LinearMap::into_three(): three pieces; when the second cut fails, the
\* first has been made and the upper part is lost.
CutTwice(a, s, e) ==
  IF CanCut(a, s) /\ CanCut(Upper(a, s), e)
  THEN <<Lower(a, s), Lower(Upper(a, s), e), Upper(Upper(a, s), e)>>
  ELSE IF CanCut(a, s) THEN <<Lower(a, s)>> ELSE <<a>>

\* A file area is not broken apart.
into_three(a, s, e) == IF a.file # NoFile THEN <<a>> ELSE CutTwice(a, s, e)

check_overlapping(a, s, e) == ~(e < a.lo \/ s >= a.hi)
OverStart(a, s) == IF s > a.lo THEN s ELSE a.lo
OverEnd(a, e) == IF e < a.hi THEN e ELSE a.hi

-----------------------------------------------------------------------------
(* The memory set                                                          *)

\* After load_elf(): the program's text, the heap it inserts above it, the
\* stack and the trap context.
Loaded(lo, hi, perm) ==
  [MapArea(lo, hi, perm, NoFile) EXCEPT
     !.frames = [i \in 1..(hi - lo) |-> Ram(lo + i - 1)],
     !.active = 0..(hi - lo - 1)]

Init ==
  /\ areas = << Loaded(0, HeapBase, {"R", "X", "U"}),
                Loaded(HeapBase, HeapEnd, {"R", "W", "U"}),
                Loaded(Top, Top + 1, {"R", "W", "U"}),
                Loaded(Top + 1, Top + 2, {"R", "W"}) >>
  /\ pte = [v \in Pages |->
       LET on == {k \in DOMAIN areas : Has(areas[k], v)} IN
       IF on = {} THEN Unmapped
       ELSE [frame |-> Ram(v), perm |-> areas[CHOOSE k \in on : TRUE].perm]]
  /\ heap_pt = HeapBase * Part /\ calls = 0
  /\ want = [v \in Pages |->
       IF v < HeapBase THEN [Wanted({"R", "X"}, NoFile) EXCEPT !.touched = TRUE]
       ELSE IF v \in HeapBase..(HeapEnd - 1) \cup {Top}
       THEN [Wanted({"R", "W"}, NoFile) EXCEPT !.touched = TRUE]
       ELSE Nothing]

Floor(x) == x \div Part
Ceil(x) == (x + Part - 1) \div Part
Aligned(x) == x % Part = 0

\* The pages of an area that a range cuts away, when they are mapped.
Cut(a, s, e) ==
  IF check_overlapping(a, s, e) THEN OverStart(a, s)..(OverEnd(a, e) - 1) ELSE {}
MappedIn(V, t) == {v \in V : t[v] # Unmapped}

shrink_to(a, t, e) == set_end(remove_in_memory(a, MappedIn(e..(a.hi - 1), t)), e)
rshrink_to(a, t, s) == set_start(remove_in_memory(a, MappedIn(a.lo..(s - 1), t)), s)

\* What munmap() leaves of an area: nothing, an end, or both ends.
Remains(a, s, e, t) ==
  LET os == OverStart(a, s)
      oe == OverEnd(a, e)
      p == into_three(a, s, e) IN
  IF ~check_overlapping(a, s, e) THEN <<a>>
  ELSE IF os = a.lo /\ oe = a.hi THEN <<>>
  ELSE IF os = a.lo THEN <<rshrink_to(a, t, oe)>>
  ELSE IF oe = a.hi THEN <<shrink_to(a, t, os)>>
  ELSE IF Len(p) = 3 THEN <<p[1], p[3]>> ELSE p

munmap(as, t, s, e) ==
  [areas |-> FlattenSeq([k \in DOMAIN as |-> Remains(as[k], s, e, t)]),
   pte |-> [v \in Pages |-> IF \E k \in DOMAIN as : v \in Cut(as[k], s, e)
                            THEN Unmapped ELSE t[v]],
   found |-> \E k \in DOMAIN as : check_overlapping(as[k], s, e)]

\* last_mmap_area_idx(): from the last area back, without the stack and the
\* trap context, the first that does not start above the zone.
last_mmap_area_idx(as) ==
  LET below == {k \in DOMAIN as : k <= Len(as) - 2 /\ as[k].lo < MmapEnd}
      k == Max(below) IN
  IF as[k].lo >= MmapBase THEN k ELSE 0

\* A new area goes before the first that starts no lower.
InsertOrdered(as, a) ==
  LET above == {k \in DOMAIN as : as[k].lo >= a.lo} IN
  IF above = {} THEN Append(as, a) ELSE InsertAt(as, Min(above), a)

Forget(V) == [v \in Pages |-> IF v \in V THEN Nothing ELSE want[v]]

\* Calls that are kept out unless they are among the Departures: cutting a
\* file area anywhere but at its upper end, a fixed mapping of a file that
\* cannot be read, a mapping that goes past the file, giving back the right
\* to write, and lowering the break.
MayCall(d) == d \in Departures
FilesKeepStart(s, e) ==
  \/ MayCall("cut_file")
  \/ \A k \in DOMAIN areas :
       LET a == areas[k] IN
       a.file # NoFile /\ check_overlapping(a, s, e) /\ Cut(a, s, e) # {} => e >= a.hi

sys_munmap(s, len) ==
  LET e == Ceil(s * Part + len)
      r == munmap(areas, pte, s, e) IN
  /\ e <= MmapEnd /\ FilesKeepStart(s, e) /\ r.found
  /\ areas' = r.areas /\ pte' = r.pte
  /\ want' = Forget(s..(e - 1))
  /\ UNCHANGED heap_pt

-----------------------------------------------------------------------------
\* mmap() at a fixed page, over what is there.  A file that cannot be read
\* is found out after the range was unmapped.
mmap_fixed(s, n, prot, file, readable) ==
  LET r == munmap(areas, pte, s, s + n)
      fails == file # NoFile /\ ~readable IN
  /\ s + n <= MmapEnd /\ FilesKeepStart(s, s + n)
  /\ fails => MayCall("bad_file")
  /\ file = NoFile \/ file + n <= FilePages \/ MayCall("past_file")
  /\ pte' = r.pte
  /\ areas' = IF fails THEN r.areas
              ELSE InsertOrdered(r.areas, MapArea(s, s + n, prot \cup {"U"}, file))
  /\ want' = IF fails THEN want
             ELSE [v \in Pages |-> IF v \in s..(s + n - 1)
                     THEN Wanted(prot, IF file = NoFile THEN NoFile ELSE file + v - s)
                     ELSE want[v]]

expand_to(a, n) == set_end(a, a.hi + n)

\* An anonymous private mapping grows the last area when it asks for the same.
Merges(last, prot, file) ==
  /\ file = NoFile /\ areas[last].file = NoFile
  /\ areas[last].perm = prot \cup {"U"}

mmap(n, prot, file) ==
  LET last == last_mmap_area_idx(areas)
      s == IF last = 0 THEN MmapBase ELSE areas[last].hi IN
  /\ s + n <= MmapEnd
  /\ file = NoFile \/ file + n <= FilePages \/ MayCall("past_file")
  /\ areas' = IF last # 0 /\ Merges(last, prot, file)
              THEN [areas EXCEPT ![last] = expand_to(@, n)]
              ELSE InsertOrdered(areas, MapArea(s, s + n, prot \cup {"U"}, file))
  /\ want' = [v \in Pages |-> IF v \in s..(s + n - 1)
                THEN Wanted(prot, IF file = NoFile THEN NoFile ELSE file + v - s)
                ELSE want[v]]
  /\ UNCHANGED <<pte, heap_pt>>

sys_mmap ==
  \E n \in 1..MaxLen, prot \in Prots, file \in {NoFile} \cup Offsets :
    \/ mmap(n, prot, file)
    \/ /\ \E s \in Zone, readable \in BOOLEAN : mmap_fixed(s, n, prot, file, readable)
       /\ UNCHANGED heap_pt

-----------------------------------------------------------------------------
\* sbrk() grows the heap with a fixed mapping and lowers it with munmap() of
\* a length that wraps: the range ends where it should start.  An unwrap()
\* turns its error into a panic (Panicked).
Panicked == -1

sbrk(inc) ==
  LET new_pt == heap_pt + inc IN
  /\ heap_pt # Panicked
  /\ \/ /\ inc > 0 /\ new_pt <= HeapEnd * Part
        /\ heap_pt' = new_pt
        /\ IF Aligned(heap_pt)
           THEN mmap_fixed(Floor(heap_pt), Ceil(new_pt) - Floor(heap_pt), {"R", "W"}, NoFile, TRUE)
           ELSE UNCHANGED <<areas, pte, want>>
     \/ LET r == munmap(areas, pte, Floor(heap_pt), Ceil(new_pt)) IN
        /\ inc < 0 /\ new_pt > HeapBase * Part /\ MayCall("lower_break")
        /\ heap_pt' = IF Aligned(heap_pt) /\ r.found THEN new_pt ELSE Panicked
        /\ IF Aligned(heap_pt)
           THEN areas' = r.areas /\ pte' = r.pte /\ want' = Forget(Ceil(new_pt)..(Floor(heap_pt) - 1))
           ELSE UNCHANGED <<areas, pte, want>>

\* Break addresses further than a page away are reached in steps.
sys_brk(brk_addr) == brk_addr - heap_pt \in -Part..Part /\ sbrk(brk_addr - heap_pt)

-----------------------------------------------------------------------------
\* mprotect() up to the first page that is in no area.
ProtectEnd(s, e) ==
  LET holes == {v \in s..(e - 1) : \A k \in DOMAIN areas : ~Has(areas[k], v)} IN
  IF holes = {} THEN e ELSE Min(holes)

RealX(a, v) == (IF pte[v] # Unmapped THEN pte[v].perm ELSE a.perm) \cap {"X"}

Reprotect(a, prot, x) ==
  [a EXCEPT !.perm = prot \cup x \cup {"U"},
            !.stripped = @ \/ ("W" \in a.perm /\ "W" \notin prot)]

\* The pieces of an area around the part that is protected anew; a file area
\* that would be cut twice is left as it is.
Protect(a, s, e, prot) ==
  LET x == RealX(a, s) IN
  IF s = a.lo /\ e = a.hi THEN <<Reprotect(a, prot, x)>>
  ELSE IF s = a.lo THEN <<Reprotect(Lower(a, e), prot, x), Upper(a, e)>>
  ELSE IF e = a.hi THEN <<Lower(a, s), Reprotect(Upper(a, s), prot, x)>>
  ELSE LET p == into_three(a, s, e) IN
       IF Len(p) = 3 THEN <<p[1], Reprotect(p[2], prot, x), p[3]>> ELSE p

mprotect(s, n, prot) ==
  LET e == ProtectEnd(s, s + n)
      Hit(a) == check_overlapping(a, s, e) /\ Cut(a, s, e) # {}
      From(a) == OverStart(a, s)
      To(a) == OverEnd(a, e) IN
  /\ s + n <= MmapEnd /\ e > s
  /\ \/ MayCall("cut_file")
     \/ \A k \in DOMAIN areas : areas[k].file # NoFile /\ Hit(areas[k]) =>
          From(areas[k]) = areas[k].lo \/ To(areas[k]) = areas[k].hi
  /\ \/ MayCall("write_again")
     \/ "W" \in prot => \A k \in DOMAIN areas : Hit(areas[k]) => ~areas[k].stripped
  /\ areas' = FlattenSeq([k \in DOMAIN areas |->
       IF Hit(areas[k]) THEN Protect(areas[k], From(areas[k]), To(areas[k]), prot)
       ELSE <<areas[k]>>])
  /\ pte' = [v \in Pages |->
       LET on == {k \in DOMAIN areas : Hit(areas[k]) /\ v \in Cut(areas[k], s, e)} IN
       IF on = {} \/ pte[v] = Unmapped THEN pte[v]
       ELSE LET a == areas[CHOOSE k \in on : TRUE] IN
            [pte[v] EXCEPT !.perm = (prot \ {"W"}) \cup RealX(a, From(a)) \cup {"U"}]]
  /\ want' = [v \in Pages |-> IF v \in s..(e - 1) THEN [want[v] EXCEPT !.perm = prot] ELSE want[v]]
  /\ UNCHANGED heap_pt

sys_mprotect == \E s \in Protected, n \in 1..MaxLen, prot \in Prots : mprotect(s, n, prot)

-----------------------------------------------------------------------------
(* Page faults and reclaim                                                 *)

\* What do_page_fault() does to a page: the area it finds, the area and the
\* entry it leaves, or the error.
Failed(why) == [ok |-> FALSE, why |-> why]
Filled(k, a, e) == [ok |-> TRUE, idx |-> k, area |-> a, entry |-> e]

FindArea(v) ==
  LET on == {k \in DOMAIN areas : {"R", "U"} \subseteq areas[k].perm /\ Has(areas[k], v)} IN
  IF on = {} THEN 0 ELSE Min(on)

FillFile(k, v) ==
  LET a == areas[k]
      off == a.file + v - a.lo
      f == IF "W" \in a.perm THEN Copied(off) ELSE Cached(off) IN
  IF off > FilePages THEN Failed("bus")
  ELSE IF At(a, v) # NoFrame THEN Failed("panic")
  ELSE Filled(k, alloc_in_memory(a, v, f), [frame |-> f, perm |-> a.perm])

FillAnonymous(k, v) ==
  LET a == areas[k]
      f == At(a, v) IN
  IF f = NoFrame
  THEN Filled(k, alloc_in_memory(a, v, Ram(v)), [frame |-> Ram(v), perm |-> a.perm])
  ELSE IF InMemory(f) THEN Failed("panic")
  ELSE Filled(k, [alloc_in_memory(a, v, f[2]) EXCEPT !.out = @ - 1],
              [frame |-> f[2], perm |-> a.perm])

copy_on_write(k, v) ==
  LET a == areas[k]
      f == At(a, v)
      g == IF f[1] = "cached" THEN Copied(f[2]) ELSE f IN
  IF ~InMemory(f) THEN Failed("segv")
  ELSE Filled(k, alloc_in_memory(remove_in_memory(a, {v}), v, g),
              [frame |-> g, perm |-> a.perm])

do_page_fault(v) ==
  LET k == FindArea(v) IN
  IF k = 0 THEN Failed("segv")
  ELSE IF pte[v] = Unmapped
  THEN IF areas[k].file # NoFile THEN FillFile(k, v) ELSE FillAnonymous(k, v)
  ELSE IF areas[k].stripped THEN Failed("segv") ELSE copy_on_write(k, v)

Allows(entry, right) == {right, "U"} \subseteq entry.perm

\* A load or a store of the program, and the fault when it is not allowed.
Access(v, right) ==
  LET r == do_page_fault(v) IN
  /\ ~Allows(pte[v], right) /\ r.ok
  /\ areas' = [areas EXCEPT ![r.idx] = r.area]
  /\ pte' = [pte EXCEPT ![v] = r.entry]
  /\ want' = [want EXCEPT ![v].touched = TRUE]
  /\ UNCHANGED <<heap_pt, calls>>

\* do_oom() of an area: the active list is used up, pages that find no room
\* (full) stay.  Stale indices past the end are skipped.
Movable(a, full) ==
  {i \in a.active : i < a.hi - a.lo /\ InMemory(a.frames[i + 1]) /\ ~full}

do_oom(a, full) ==
  LET gone == Movable(a, full) IN
  [a EXCEPT !.active = {}, !.out = @ + Cardinality(gone),
            !.frames = [j \in DOMAIN @ |-> IF j - 1 \in gone THEN Out(@[j]) ELSE @[j]]]

do_shallow_clean(full) ==
  LET Cleaned(a) == a.lo >= MmapBase /\ a.lo <= Top /\ a.file = NoFile IN
  /\ \E k \in DOMAIN areas : Cleaned(areas[k]) /\ areas[k].active # {}
  /\ \A k \in DOMAIN areas : areas[k].out + Cardinality(Movable(areas[k], full)) <= MaxOut
  /\ areas' = [k \in DOMAIN areas |-> IF Cleaned(areas[k]) THEN do_oom(areas[k], full) ELSE areas[k]]
  /\ pte' = [v \in Pages |->
       IF \E k \in DOMAIN areas : Cleaned(areas[k]) /\ v - areas[k].lo \in Movable(areas[k], full)
       THEN Unmapped ELSE pte[v]]
  /\ UNCHANGED <<heap_pt, want>>

Call ==
  \/ sys_mmap
  \/ \E s \in Zone, n \in 1..MaxLen : sys_munmap(s, n * Part - 1)
  \/ sys_mprotect
  \/ \E brk_addr \in 0..(HeapEnd * Part) : sys_brk(brk_addr)
  \/ \E full \in BOOLEAN : do_shallow_clean(full)

Next ==
  \/ calls < MaxCalls /\ Call /\ calls' = calls + 1
  \/ \E v \in Pages, right \in {"R", "W"} : Access(v, right)

Spec == Init /\ [][Next]_vars

-----------------------------------------------------------------------------
(* Properties                                                              *)

On(v) == {k \in DOMAIN areas : Has(areas[k], v) /\ "U" \in areas[k].perm}

\* The areas are what the calls of the program asked for (mmap(), munmap(),
\* mprotect() and sbrk() in mm/memory_set.rs, however they cut and join the
\* areas): a page is in one area exactly when it is mapped, with the rights
\* and the page of the file that were asked for; an entry of the page table
\* leads to the frame its area keeps for the page; what the program has
\* touched is not forgotten; the count of pages moved out never runs below
\* what is out; and the heap below the break is mapped.
AreasAreExact ==
  /\ \A v \in Pages :
       /\ Cardinality(On(v)) = IF want[v].mapped THEN 1 ELSE 0
       /\ pte[v] # Unmapped /\ "U" \in pte[v].perm => want[v].mapped
       /\ \A k \in On(v) :
            LET a == areas[k] IN
            /\ a.perm \ {"X", "U"} = want[v].perm \ {"X"}
            /\ want[v].perm \subseteq a.perm
            /\ want[v].file = IF a.file = NoFile THEN NoFile ELSE a.file + v - a.lo
            /\ At(a, v)[1] \in {"ram"} => At(a, v) = Ram(v)
            /\ At(a, v)[1] \in {"copied", "cached"} => At(a, v)[2] = want[v].file
            /\ pte[v].frame = IF InMemory(At(a, v)) THEN At(a, v) ELSE NoFrame
            /\ pte[v].perm \subseteq a.perm
            /\ want[v].touched => At(a, v) # NoFrame
  /\ \A k \in DOMAIN areas :
       areas[k].out >= Cardinality({i \in DOMAIN areas[k].frames : areas[k].frames[i][1] = "out"})
  /\ heap_pt # Panicked /\ \A v \in HeapBase..(Ceil(heap_pt) - 1) : want[v].mapped

\* The program gets the accesses it asked for and no others (do_page_fault()
\* in mm/memory_set.rs): a fault on a load or a store that the mapping
\* permits leaves an entry that allows it, and no fault leaves one that
\* allows what the mapping does not permit or what lies past the file.
FaultsAreRight ==
  \A v \in Pages :
    LET r == do_page_fault(v)
        within == want[v].file = NoFile \/ want[v].file < FilePages IN
    \A right \in {"R", "W"} :
      LET asked == want[v].mapped /\ {"R", right} \subseteq want[v].perm /\ within IN
      /\ asked /\ ~Allows(pte[v], right) => r.ok /\ Allows(r.entry, right)
      /\ ~asked => ~Allows(pte[v], right) /\ (r.ok => ~Allows(r.entry, right))
=============================================================================

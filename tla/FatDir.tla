------------------------------- MODULE FatDir --------------------------------
(***************************************************************************)
(* A directory of the FAT32 volume: the slots of fs/fat32/layout.rs, the   *)
(* iterators of dir_iter.rs, and how fat_inode.rs creates, deletes and     *)
(* lists names, while a reader lists the directory in several calls.       *)
(*                                                                         *)
(* A name takes long entries, numbered backwards from the short one that   *)
(* ends it.  A name of an earlier system may have only the short one.      *)
(* Short names are a prefix all names share and a number that tells them   *)
(* apart.  A cluster the directory grows by holds whatever it held (Junk). *)
(***************************************************************************)
EXTENDS Integers, FiniteSets, SequencesExt

CONSTANTS Names,
          Lengths,       \* the numbers of long entries a name may have
          PerClus,       \* slots of a cluster
          MaxClus,       \* bound on the clusters of the directory
          Aligned        \* does the reader only meet names that cannot straddle where it is

VARIABLES slots, hint,   \* the directory's content and FileContent::hint
          length,        \* long entries of each name
          offset,        \* parent_dir of each inode: where its short entry is, -1 without one
          pos,           \* the offset of the reader's descriptor, -1 when it is closed
          stay, got      \* names there since it was opened; names it was given

vars == <<slots, hint, length, offset, pos, stay, got>>

UnusedSlot == <<"unused">>
LastUnused == <<"last">>
Junk == <<"junk">>
Long(n, ord) == <<"long", n, ord>>
Short(n, tail) == <<"short", n, tail>>

IsLong(s) == s[1] = "long"
IsShort(s) == s[1] = "short"
unused(s) == s \in {UnusedSlot, LastUnused}
IsLastLong(s) == IsLong(s) /\ s[3] = length[s[2]]

Size(d) == Cardinality(DOMAIN d)
Live == {n \in Names : offset[n] >= 0}

\* A directory with one cluster; old is a name with a short entry only.
Init ==
  /\ length \in [Names -> Lengths]
  /\ \E old \in SUBSET Names :
       /\ Cardinality(old) <= 1
       /\ offset = [n \in Names |-> IF n \in old THEN 0 ELSE -1]
       /\ hint = Cardinality(old)
       /\ slots = [i \in 0..(PerClus - 1) |->
            IF i = hint THEN LastUnused ELSE IF i > hint THEN Junk
            ELSE Short(CHOOSE n \in old : TRUE, 0)]
  /\ pos = -1 /\ stay = {} /\ got = <<>>

-----------------------------------------------------------------------------
\* Where a forward iterator that is not in Enum mode stops when it starts at
\* a slot.
End(d, start) ==
  LET last == {i \in DOMAIN d : i >= start /\ d[i] = LastUnused} IN
  IF last = {} THEN Size(d) ELSE Min(last)

\* DirWalker::next() from slot start on: the names it returns with the offset
\* of their short entries, and whether it runs into its unreachable!().
Walk(d, start) ==
  LET step(w, i) ==
        LET s == d[i] IN
        IF w.panic \/ unused(s) THEN w
        ELSE IF IsShort(s)
        THEN [w EXCEPT !.out = Append(@, [at |-> i, name |-> IF w.name = <<>>
                                            THEN <<s[2], s[3]>> ELSE w.name[1]]),
                       !.name = <<>>, !.ord = -1]
        ELSE IF IsLong(s) /\ (IsLastLong(s) \/ s[3] = w.ord)
        THEN [w EXCEPT !.name = <<s[2]>>, !.ord = s[3] - 1]
        ELSE [w EXCEPT !.panic = TRUE]
      first == [out |-> <<>>, name |-> <<>>, ord |-> -1, panic |-> FALSE]
  IN FoldLeft(step, first, [k \in 1..(End(d, start) - start) |-> start + k - 1])

Expand(d, n) ==
  [i \in 0..(n - 1) |-> IF i < Size(d) THEN d[i] ELSE Junk]

\* Whole clusters, at least one.
Clusters(n) == IF n = 0 THEN PerClus ELSE ((n + PerClus - 1) \div PerClus) * PerClus

\* The directory with room for k entries from hint on, and an end mark after
\* them if there is a slot for it; the hint moves there.
alloc_dir_ent(d, k) ==
  LET e == Expand(d, IF Clusters(hint + k) > Size(d) THEN Clusters(hint + k) ELSE Size(d)) IN
  IF hint + k \in DOMAIN e THEN [e EXCEPT ![hint + k] = LastUnused] ELSE e

\* gen_short_name_numtail() over the short entries in use.
numtail(d) ==
  LET taken == {d[i][3] : i \in {j \in 0..(End(d, 0) - 1) : IsShort(d[j])}} IN
  Min((0..Cardinality(taken)) \ taken)

\* Short entry last, the long ones before it with descending numbers.
create_dir_ent(d, n) ==
  LET k == length[n] + 1
      at == hint + k - 1
      e == alloc_dir_ent(d, k) IN
  [i \in DOMAIN e |-> IF i = at THEN Short(n, numtail(d))
                      ELSE IF i \in hint..(at - 1) THEN Long(n, at - i) ELSE e[i]]

create(n) ==
  LET k == length[n] + 1 IN
  /\ n \notin Live /\ Clusters(hint + k) <= MaxClus * PerClus
  /\ slots' = create_dir_ent(slots, n)
  /\ hint' = hint + k
  /\ offset' = [offset EXCEPT ![n] = hint + k - 1]
  /\ UNCHANGED <<length, pos, stay, got>>

-----------------------------------------------------------------------------
\* The long entries delete_dir_ent() removes: from the used slot before the
\* short one back to the last long one.
LongBefore(d, at) ==
  LET used == {i \in 0..(at - 1) : ~unused(d[i])} IN
  IF used = {} \/ ~IsLong(d[Max(used)]) THEN {}
  ELSE LET ends == {i \in used : IsLastLong(d[i])} IN {i \in used : i >= Max(ends)}

Erase(d, S) == [i \in DOMAIN d |-> IF i \in S THEN UnusedSlot ELSE d[i]]

\* The hint moves back over unused slots, which become end marks.
Retracted(d) ==
  LET used == {i \in 0..(hint - 1) : ~unused(d[i])} IN
  IF used = {} THEN 0 ELSE Max(used) + 1

\* shrink_dir_size() mutated: it drops the cluster the hint is in.
ShrinkTooFar(d, h) ==
  LET n == IF h < PerClus THEN PerClus ELSE (h \div PerClus) * PerClus IN
  [i \in 0..(n - 1) |-> IF i \in h..(hint - 1) THEN LastUnused ELSE d[i]]

shrink_dir_size(d, h) ==
  [i \in 0..(Clusters(h) - 1) |-> IF i \in h..(hint - 1) THEN LastUnused ELSE d[i]]

delete_dir_ent(n) ==
  LET at == offset[n]
      longs == LongBefore(slots, at)
      d == Erase(slots, {at} \union longs)
      h == Retracted(d) IN
  IF longs = {} THEN slots' = d /\ UNCHANGED hint
  ELSE slots' = shrink_dir_size(d, h) /\ hint' = h

unlink(n) ==
  /\ n \in Live
  /\ delete_dir_ent(n)
  /\ offset' = [offset EXCEPT ![n] = -1]
  /\ stay' = stay \ {n}
  /\ UNCHANGED <<length, pos, got>>

-----------------------------------------------------------------------------
\* All names take k slots, a cluster a multiple of it, and so does what is there.
AlignedBy(k) ==
  /\ PerClus % k = 0 /\ hint % k = 0
  /\ \A n \in Names : length[n] + 1 = k /\ (offset[n] + 1) % k = 0

OpenReader ==
  /\ pos = -1 /\ (Aligned => \E k \in 2..PerClus : AlignedBy(k))
  /\ pos' = 0 /\ stay' = Live /\ got' = <<>>
  /\ UNCHANGED <<slots, hint, length, offset>>

\* dirent_info_lock() mutated: the entry read ahead is skipped.
NextPosSkips(w, count) ==
  IF Len(w) > count THEN w[count + 1].at + 1 ELSE Size(slots)

\* The offset of the last entry returned: that of the entry after it, or the
\* size of the directory when there is none.
NextPos(w, count) ==
  IF Len(w) > count THEN w[count].at + 1 ELSE Size(slots)

\* get_dirent() for at most count entries.
get_dirent(count) ==
  LET w == Walk(slots, pos)
      k == IF Len(w.out) > count THEN count ELSE Len(w.out) IN
  /\ pos >= 0 /\ ~w.panic /\ w.out # <<>>
  /\ got' = got \o [i \in 1..k |-> w.out[i].name]
  /\ pos' = NextPos(w.out, count)
  /\ UNCHANGED <<slots, hint, length, offset, stay>>

\* A call that returned nothing ends the listing.
CloseReader ==
  /\ pos >= 0 /\ Walk(slots, pos).out = <<>>
  /\ pos' = -1 /\ stay' = {} /\ got' = <<>>
  /\ UNCHANGED <<slots, hint, length, offset>>

Next == \/ \E n \in Names : create(n) \/ unlink(n)
        \/ OpenReader \/ CloseReader
        \/ \E count \in 1..2 : get_dirent(count)

Spec == Init /\ [][Next]_vars

-----------------------------------------------------------------------------
\* A walk over the directory finds the names whose inodes are linked, each with
\* the offset its inode deletes it by, and never a slot that was not written;
\* short names differ; and the hint is where a fresh scan would put it
\* (fat_inode.rs set_hint): creating and deleting in any order, over cluster
\* boundaries, keeps the slots and the in-memory offsets together.
DirIsExact ==
  LET w == Walk(slots, 0) IN
  /\ ~w.panic /\ Len(w.out) = Cardinality(Live)
  /\ \A i \in DOMAIN w.out :
       \E n \in Live : offset[n] = w.out[i].at /\ w.out[i].name \in {n, <<n, slots[offset[n]][3]>>}
  /\ \A m, n \in Live : m # n => slots[offset[m]][3] # slots[offset[n]][3]
  /\ hint = End(slots, 0)

\* The walker of a listing in progress does not run into its unreachable!()
\* (dir_iter.rs:228).
WalkerNeverPanics == pos >= 0 => ~Walk(slots, pos).panic

\* A listing in several calls returns names only, and when it ends it has
\* returned every name that was there all the time exactly once, although
\* names came and went between the calls (fat_osinode.rs get_dirent).
ListingIsExact ==
  pos >= 0 =>
    /\ \A i \in DOMAIN got : got[i] \in Names
    /\ ~Walk(slots, pos).panic
    /\ Walk(slots, pos).out = <<>> =>
         \A n \in stay : Cardinality({i \in DOMAIN got : got[i] = n}) = 1
=============================================================================

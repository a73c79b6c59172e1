----------------------------- MODULE PageTables -----------------------------
(***************************************************************************)
(* One page table of the kernel, in either of its two formats: Sv39        *)
(* (hal/arch/riscv/sv39.rs) and the LoongArch table (laflex.rs).  A table  *)
(* is a tree of frames; a virtual page number is cut into three indices    *)
(* of Fanout values (512 in the code).  A frame is an array of entries, an *)
(* entry a page number and a set of flag bits, and the two formats differ  *)
(* in the flags: Sv39 says what is allowed, LoongArch marks what is not    *)
(* (NR, NX), has no accessed bit and keeps the dirty bits of the identity  *)
(* mapped kernel memory in an array of its own.                            *)
(*                                                                         *)
(* want is what the calls asked for: the page, the permission and the      *)
(* dirty bit each virtual page should have now.  map is only called for a  *)
(* page that has no mapping (it asserts so), and a frame is always found   *)
(* ("Assume that it won't encounter oom when creating/mapping").           *)
(***************************************************************************)
EXTENDS Integers, FiniteSets, FiniteSetsExt, SequencesExt

CONSTANTS Fanout,      \* entries of one table
          Vpns,        \* the virtual pages the calls are about
          Ident,       \* those that lie in the identity mapped segment
          Ppns,        \* pages to map
          Perms,       \* permissions to map with
          Bits,        \* permissions to revoke
          TableFrames  \* frames a table can be made of

VARIABLES arch,        \* the format of this build
          kernel,      \* made by new_kern_space: told apart on LoongArch only
          root, frames, table, dirty, want

vars == <<arch, kernel, root, frames, table, dirty, want>>

Nothing == [ppn |-> 0, perm |-> {}, dirty |-> FALSE]
Empty == [ppn |-> 0, flags |-> {}]
Blank == [i \in 0..Fanout - 1 |-> Empty]
Valid(pte) == "V" \in pte.flags

(***************************************************************************)
(* Entries.                                                                *)
(***************************************************************************)
sv39_new(perm) == perm \cup {"V", "A", "D"}

laflex_new(perm) ==
  {"V", "MAT_CC"} \cup (IF "R" \in perm THEN {} ELSE {"NR"})
                  \cup (IF "X" \in perm THEN {} ELSE {"NX"})
                  \cup (perm \cap {"W"})
                  \cup (IF "U" \in perm THEN {"PLV3"} ELSE {})

NewFlags(perm) == IF arch = "sv39" THEN sv39_new(perm) ELSE laflex_new(perm)

sv39_set_permission(flags, perm) == (flags \ {"R", "W", "X", "U"}) \cup perm

\* A permission that is taken away is not marked as such.
laflex_set_permissionKeeps(flags, perm) ==
  (flags \ {"NR", "NX", "W", "PLV3", "RPLV"}) \cup
    ({"W"} \cap perm) \cup (IF "U" \in perm THEN {"PLV3"} ELSE {"RPLV"})

laflex_set_permission(flags, perm) ==
  (flags \ {"NR", "NX", "W", "PLV3", "RPLV"})
     \cup (IF "R" \in perm THEN {} ELSE {"NR"})
     \cup (IF "X" \in perm THEN {} ELSE {"NX"})
     \cup ({"W"} \cap perm)
     \cup (IF "U" \in perm THEN {"PLV3"} ELSE {"RPLV"})

SetPermission(flags, perm) ==
  IF arch = "sv39" THEN sv39_set_permission(flags, perm)
  ELSE laflex_set_permission(flags, perm)

sv39_flags(flags) == flags \cap {"R", "W", "X", "U"}

laflex_flags(flags) ==
  ({"W"} \cap flags) \cup (IF "NR" \in flags THEN {} ELSE {"R"})
                     \cup (IF "NX" \in flags THEN {} ELSE {"X"})
                     \cup (IF "PLV3" \in flags /\ "RPLV" \notin flags
                           THEN {"U"} ELSE {})

PermissionOf(flags) ==
  IF arch = "sv39" THEN sv39_flags(flags) ELSE laflex_flags(flags)

\* revoke_read, revoke_write, revoke_execute: the bit p of the permission.
Revoked(flags, p) ==
  CASE arch = "sv39" \/ p = "W" -> flags \ {p}
    [] p = "R" /\ arch = "laflex" -> flags \cup {"NR"}
    [] p = "X" /\ arch = "laflex" -> flags \cup {"NX"}

(***************************************************************************)
(* Walking the tree.  A place is a frame and an index; NoPlace is None.    *)
(***************************************************************************)
NoPlace == <<0, 0>>

indexes(vpn) == <<(vpn \div (Fanout * Fanout)) % Fanout,
                  (vpn \div Fanout) % Fanout, vpn % Fanout>>

Entry(t, place) == t[place[1]][place[2]]

\* Sv39 follows the indices in a loop, and stops at an entry not valid.
sv39_find_pte(vpn) ==
  LET Step(place, i) ==
        IF place = NoPlace \/ ~Valid(Entry(table, place)) THEN NoPlace
        ELSE <<Entry(table, place).ppn, i>>
      idx == indexes(vpn)
      place == Step(Step(<<root, idx[1]>>, idx[2]), idx[3])
  IN IF place # NoPlace /\ Valid(Entry(table, place)) THEN place ELSE NoPlace

\* LoongArch spells the three levels out.
laflex_find_pte(vpn) ==
  LET idx == indexes(vpn)
      first == Entry(table, <<root, idx[1]>>)
      second == Entry(table, <<first.ppn, idx[2]>>)
      place == <<second.ppn, idx[3]>>
  IN IF Valid(first) /\ Valid(second) /\ Valid(Entry(table, place))
     THEN place ELSE NoPlace

find_pte(vpn) ==
  IF arch = "sv39" THEN sv39_find_pte(vpn) ELSE laflex_find_pte(vpn)

\* One level of find_pte_create: the table below entry i, made when there is
\* none.  s holds the tables, the frames held, and the table we are in.
Descend(s, i) ==
  LET pte == Entry(s.table, <<s.at, i>>)
      fresh == Min(TableFrames \ s.frames)
  IN IF Valid(pte) THEN [s EXCEPT !.at = pte.ppn]
     ELSE [table |-> [s.table EXCEPT ![fresh] = Blank,
                        ![s.at][i] = [ppn |-> fresh, flags |-> {"V"}]],
           frames |-> s.frames \cup {fresh}, at |-> fresh]

find_pte_create(vpn) ==
  LET idx == indexes(vpn)
  IN Descend(Descend([table |-> table, frames |-> frames, at |-> root],
                     idx[1]), idx[2])

translate(vpn) ==
  LET place == find_pte(vpn)
  IN IF place = NoPlace THEN 0 ELSE Entry(table, place).ppn

get_pte_flags(vpn) ==
  LET place == find_pte(vpn)
  IN IF place = NoPlace THEN {} ELSE PermissionOf(Entry(table, place).flags)

is_ident_map(vpn) == arch = "laflex" /\ kernel /\ vpn \in Ident

is_mapped(vpn) == is_ident_map(vpn) \/ find_pte(vpn) # NoPlace

is_dirty(vpn) ==
  LET place == find_pte(vpn)
  IN IF is_ident_map(vpn) THEN vpn \in dirty
     ELSE place # NoPlace /\ "D" \in Entry(table, place).flags

(***************************************************************************)
(* Calls.                                                                  *)
(***************************************************************************)
New ==
  /\ root = Min(TableFrames)
  /\ frames = {root}
  /\ table = [f \in TableFrames \cup {0} |-> Blank]
  /\ dirty = {}

Init ==
  /\ arch \in {"sv39", "laflex"}
  /\ kernel \in IF arch = "laflex" THEN BOOLEAN ELSE {FALSE}
  /\ New
  /\ want = [vpn \in Vpns |-> Nothing]

map(vpn, ppn, perm) ==
  LET s == find_pte_create(vpn)
      idx == indexes(vpn)
  IN /\ ~is_mapped(vpn)
     /\ table' = [s.table EXCEPT ![s.at][idx[3]] =
                    [ppn |-> ppn, flags |-> NewFlags(perm)]]
     /\ frames' = s.frames
     /\ want' = [want EXCEPT ![vpn] =
                   [ppn |-> ppn, perm |-> perm, dirty |-> arch = "sv39"]]
     /\ UNCHANGED <<arch, kernel, root, dirty>>

\* On LoongArch the direct mapped window needs no entry.
map_identical(vpn, perm) ==
  /\ vpn \in Ident
  /\ \/ arch = "sv39" /\ map(vpn, vpn, perm)
     \/ arch = "laflex" /\ UNCHANGED vars

unmap(vpn) ==
  LET place == find_pte(vpn)
  IN /\ table' = IF place = NoPlace THEN table
                 ELSE [table EXCEPT ![place[1]][place[2]] = Empty]
     /\ want' = [want EXCEPT ![vpn] =
                   IF is_ident_map(vpn) THEN @ ELSE Nothing]
     /\ UNCHANGED <<arch, kernel, root, frames, dirty>>

\* What the calls on one entry have in common: nothing happens (Err) when
\* the page has none.
Change(vpn, Flags(_), wanted) ==
  LET place == find_pte(vpn)
  IN /\ place # NoPlace
     /\ table' = [table EXCEPT ![place[1]][place[2]].flags = Flags(@)]
     /\ want' = [want EXCEPT ![vpn] = wanted]
     /\ UNCHANGED <<arch, kernel, root, frames, dirty>>

revoke(vpn, p) ==
  Change(vpn, LAMBDA flags : Revoked(flags, p),
         [want[vpn] EXCEPT !.perm = @ \ {p}])

set_ppn(vpn, ppn) ==
  LET place == find_pte(vpn)
  IN /\ place # NoPlace
     /\ table' = [table EXCEPT ![place[1]][place[2]].ppn = ppn]
     /\ want' = [want EXCEPT ![vpn].ppn = ppn]
     /\ UNCHANGED <<arch, kernel, root, frames, dirty>>

set_pte_flags(vpn, perm) ==
  Change(vpn, LAMBDA flags : SetPermission(flags, perm),
         [want[vpn] EXCEPT !.perm = perm])

clear_access_bit(vpn) ==
  Change(vpn, LAMBDA flags : flags \ {"A"}, want[vpn])

\* The page is about to be shared: LoongArch also clears the dirty bit, as a
\* dirty page can be written there.
block_and_ret_mut(vpn) ==
  LET clears == IF arch = "laflex" THEN {"D"} ELSE {}
  IN Change(vpn, LAMBDA flags : flags \ ({"W"} \cup clears),
            [want[vpn] EXCEPT !.perm = @ \ {"W"},
                              !.dirty = @ /\ arch = "sv39"])

\* On LoongArch these work on the DIRTY array for identity mapped pages.
DirtyBit(vpn, to) ==
  \/ /\ is_ident_map(vpn)
     /\ dirty' = IF to THEN dirty \cup {vpn} ELSE dirty \ {vpn}
     /\ want' = [want EXCEPT ![vpn].dirty = to]
     /\ UNCHANGED <<arch, kernel, root, frames, table>>
  \/ /\ ~is_ident_map(vpn)
     /\ Change(vpn,
               LAMBDA flags : IF to THEN flags \cup {"D"} ELSE flags \ {"D"},
               [want[vpn] EXCEPT !.dirty = to])

clear_dirty_bit(vpn) == DirtyBit(vpn, FALSE)

\* Called by the page-modification handler of LoongArch.
set_dirty_bit(vpn) == arch = "laflex" /\ DirtyBit(vpn, TRUE)

Next ==
  \E vpn \in Vpns :
    \/ \E ppn \in Ppns, perm \in Perms : map(vpn, ppn, perm)
    \/ \E perm \in Perms : map_identical(vpn, perm)
    \/ unmap(vpn)
    \/ \E p \in Bits : revoke(vpn, p)
    \/ \E ppn \in Ppns : set_ppn(vpn, ppn)
    \/ \E perm \in Perms : set_pte_flags(vpn, perm)
    \/ clear_access_bit(vpn)
    \/ block_and_ret_mut(vpn)
    \/ clear_dirty_bit(vpn)
    \/ set_dirty_bit(vpn)

Spec == Init /\ [][Next]_vars

-----------------------------------------------------------------------------
\* The entries that point to a table: the valid ones of the root and of the
\* tables below it.
Middle ==
  LET Of(f) == {<<f, i>> : i \in {j \in 0..Fanout - 1 : Valid(table[f][j])}}
      first == Of(root)
  IN first \cup UNION {Of(Entry(table, place).ppn) : place \in first}

(***************************************************************************)
(* Every page translates to the page last mapped, with the permission last *)
(* given and the dirty bit last set, whatever was done to pages that share *)
(* tables with it, and a page unmapped is not found.  The tables below the *)
(* root are held by the page table (it frees them when it is dropped), one *)
(* entry points to each, and that entry carries V alone: with any other    *)
(* bit the hardware takes it for a leaf or refuses it (sv39.rs, the note   *)
(* at the entry that find_pte_create makes).                               *)
(***************************************************************************)
TableIsExact ==
  /\ \A vpn \in Vpns :
       /\ translate(vpn) = want[vpn].ppn
       /\ get_pte_flags(vpn) = want[vpn].perm
       /\ is_dirty(vpn) = want[vpn].dirty
       /\ is_mapped(vpn) <=> want[vpn].ppn # 0 \/ is_ident_map(vpn)
  /\ {Entry(table, place).ppn : place \in Middle} = frames \ {root}
  /\ Cardinality(Middle) = Cardinality(frames) - 1
  /\ \A place \in Middle : Entry(table, place).flags = {"V"}

=============================================================================

------------------------------ MODULE MCMemory ------------------------------
(***************************************************************************)
(* Memory for TLC.  A behaviour is one of one component: where the pages   *)
(* of two address spaces are kept, the page table of one, or the copies    *)
(* between the kernel and its user.                                        *)
(***************************************************************************)
EXTENDS MemorySet, TLC

CONSTANT Parts   \* the components this run is about

VARIABLE which   \* the component that runs
VARIABLES arch, kernel, root, tables_frames, table, dirty, want   \* PageTables
VARIABLES at, mem, view, got   \* UserMemory

tables_vars == <<arch, kernel, root, tables_frames, table, dirty, want>>
copies_vars == <<at, mem, view, got>>


Symmetric == Permutations(Spaces)
\* What a system call writes: one byte on a page, or one on each of two.
OnePage == {<<1>>, <<2>>}
TwoPages == {<<1, 2>>}

Tables == INSTANCE PageTables WITH
  Fanout <- 2, Vpns <- {2, 3, 6}, Ident <- {6}, Ppns <- {1}, Perms <- {{"R", "W", "U"}},
  Bits <- {"R"}, TableFrames <- 1..5, frames <- tables_frames
Copies == INSTANCE UserMemory WITH
  PageSize <- 2, Pages <- 3, Lazy <- {0, 1}, Frames <- 0..3, Bytes <- {0, 1},
  Sizes <- {1, 2}, Spanning <- FALSE

-----------------------------------------------------------------------------
\* The components that do not run keep still.
MCInit ==
  /\ which \in Parts
  /\ Init
  /\ IF which = "tables" THEN Tables!Init
     ELSE /\ arch = 0 /\ kernel = 0 /\ root = 0 /\ tables_frames = 0 /\ table = 0 /\ dirty = 0
          /\ want = 0
  /\ IF which = "copies" THEN Copies!Init
     ELSE /\ at = 0 /\ mem = 0 /\ view = 0 /\ got = 0

MCNext ==
  \/ /\ which = "pages" /\ Next
     /\ UNCHANGED <<which, tables_vars, copies_vars>>
  \/ /\ which = "tables" /\ Tables!Next
     /\ UNCHANGED <<which, vars, copies_vars>>
  \/ /\ which = "copies" /\ Copies!Next
     /\ UNCHANGED <<which, vars, tables_vars>>

MCvars == <<which, vars, tables_vars, copies_vars>>
MCSpec == MCInit /\ [][MCNext]_MCvars

-----------------------------------------------------------------------------

\* A page table translates every page as it was last told, and holds each of its
\* tables once (hal/arch sv39.rs and laflex.rs); and a copy between kernel and
\* user moves the bytes of the user's pages in order (mm/page_table.rs).
TranslationIsExact ==
  /\ which = "tables" => Tables!TableIsExact
  /\ which = "copies" => Copies!UserCopiesAreExact
=============================================================================

----------------------------- MODULE MCStorage -----------------------------
(***************************************************************************)
(* The file systems for TLC.  A behaviour is one of one component: the     *)
(* block cache, what FAT and ext4 keep for two files, what their           *)
(* directories hold, and the tree of names above FAT.                      *)
(***************************************************************************)
EXTENDS BlockCache, TLC

CONSTANT Parts   \* the components this run is about

CONSTANTS Files,
          Zero, Noise,  \* what a new and what an unwritten cell holds
          Absent,
          DirNames,    \* names in a FAT directory
          Departures   \* see Ext4 and DirectoryTree

VARIABLE which   \* the component that runs
VARIABLES fat, vacant_clus, hint, fat_disk, clus_list, size, cache, linked, opened   \* Fat
VARIABLES volume, mounted, ext4_disk, inode, names, file, want, created, ext4_halted   \* Ext4
VARIABLES slots, dir_hint, length, offset, pos, stay, got   \* FatDir
VARIABLES block, dir, entries, dir_created, dir_halted   \* Ext4Dir
VARIABLES ent, children, father, name, spe_usage, handle, PATH_CACHE, halted   \* DirectoryTree

fat_vars == <<fat, vacant_clus, hint, fat_disk, clus_list, size, cache, linked, opened>>
ext4_vars == <<volume, mounted, ext4_disk, inode, names, file, want, created, ext4_halted>>
fat_dir_vars == <<slots, dir_hint, length, offset, pos, stay, got>>
ext4_dir_vars == <<block, dir, entries, dir_created, dir_halted>>
tree_vars == <<ent, children, father, name, spe_usage, handle, PATH_CACHE, halted>>


Symmetric == Permutations(Files)

\* One disk and one pool stand for all where the block cache does not run.
AtRest == \A x \in {disk[b] : b \in Blocks} \cup {cache_pool[i].data : i \in Pool} :
            x = CHOOSE y \in Values : TRUE

\* Group 0 of the ext4 volume holds the metadata.
Metadata == (0 :> 0..1) @@ (1 :> {0})
\* The words ".", ".." and three names take in an entry.
NameWords == <<1, 1, 1, 1, 2>>

\* Two names on two levels; an empty volume, or a directory with a file in it.
TreeNames == {"a", "b"}
Nodes == {0, 1, 2}
OldEntries ==
  LET entry(d, n, k) == [par |-> d, name |-> n, kind |-> k] IN
  {[i \in Nodes |-> Absent],
   [i \in Nodes |-> IF i = 1 THEN entry(0, "a", "dir")
                    ELSE IF i = 2 THEN entry(1, "b", "file") ELSE Absent]}
AllPaths == {<<"a">>, <<"b">>, <<"a", "b">>, <<"dot">>, <<"a", "up", "b">>}

Fat == INSTANCE Fat WITH
  Files <- Files, Zero <- Zero, Junk <- Noise, Absent <- Absent, TotEnt <- 6,
  FirstData <- 3, VacantMax <- 1, CellsPerClus <- 1, ClusPerPage <- 2, MaxSize <- 3,
  MaxWrite <- 2, MaxGrow <- 1, Holes <- FALSE, Forgets <- FALSE, MayFill <- FALSE,
  disk <- fat_disk
Ext4 == INSTANCE Ext4 WITH
  Files <- Files, Zero <- Zero, Junk <- Noise, Groups <- 2, PerGroup <- 4, InodesPerGroup <- 4,
  Word <- 2, Byte <- 2, BlockCells <- 2, RootMax <- 1, LeafMax <- 2, InitMaxLen <- 2,
  Wrap16 <- 8, Reserved <- Metadata, ReservedInodes <- 1, MaxSize <- 6, MaxWrite <- 2,
  MaxInodes <- 2, MaxMounts <- 1, Departures <- Departures, disk <- ext4_disk,
  halted <- ext4_halted
FatDir == INSTANCE FatDir WITH
  Names <- DirNames, Lengths <- {1, 2}, PerClus <- 4, MaxClus <- 2, Aligned <- TRUE,
  hint <- dir_hint
Ext4Dir == INSTANCE Ext4Dir WITH
  Names <- {3, 4, 5}, Words <- NameWords, Room <- 14, TailWords <- 3, Window <- 4,
  MaxBlocks <- 3, MaxInodes <- 4, MaxDirs <- 2, MaxCreates <- 4, AnyCall <- FALSE,
  created <- dir_created, halted <- dir_halted
Tree == INSTANCE DirectoryTree WITH
  Names <- TreeNames, Ids <- Nodes, Root <- 0, None <- Absent, Paths <- AllPaths,
  Up <- "up", Dot <- "dot", Handles <- Files, Old <- OldEntries,
  Departures <- Departures

-----------------------------------------------------------------------------
\* The components that do not run keep still.
MCInit ==
  /\ which \in Parts
  /\ Init /\ (which # "cache" => AtRest)
  /\ Fat!Init
  /\ IF which = "ext4" THEN Ext4!Init
     ELSE /\ volume = 0 /\ mounted = 0 /\ ext4_disk = 0 /\ inode = 0 /\ names = 0 /\ file = 0
          /\ want = 0 /\ created = 0 /\ ext4_halted = 0
  /\ IF which = "fat_dir" THEN FatDir!Init
     ELSE /\ slots = 0 /\ dir_hint = 0 /\ length = 0 /\ offset = 0 /\ pos = 0 /\ stay = 0
          /\ got = 0
  /\ IF which = "ext4_dir" THEN Ext4Dir!Init
     ELSE /\ block = 0 /\ dir = 0 /\ entries = 0 /\ dir_created = 0 /\ dir_halted = 0
  /\ IF which = "tree" THEN Tree!Init
     ELSE /\ ent = 0 /\ children = 0 /\ father = 0 /\ name = 0 /\ spe_usage = 0 /\ handle = 0
          /\ PATH_CACHE = 0 /\ halted = 0

MCNext ==
  \/ /\ which = "cache" /\ Next
     /\ UNCHANGED <<which, fat_vars, ext4_vars, fat_dir_vars, ext4_dir_vars, tree_vars>>
  \/ /\ which = "fat" /\ Fat!Next
     /\ UNCHANGED <<which, vars, ext4_vars, fat_dir_vars, ext4_dir_vars, tree_vars>>
  \/ /\ which = "ext4" /\ Ext4!Next
     /\ UNCHANGED <<which, vars, fat_vars, fat_dir_vars, ext4_dir_vars, tree_vars>>
  \/ /\ which = "fat_dir" /\ FatDir!Next
     /\ UNCHANGED <<which, vars, fat_vars, ext4_vars, ext4_dir_vars, tree_vars>>
  \/ /\ which = "ext4_dir" /\ Ext4Dir!Next
     /\ UNCHANGED <<which, vars, fat_vars, ext4_vars, fat_dir_vars, tree_vars>>
  \/ /\ which = "tree" /\ Tree!Next
     /\ UNCHANGED <<which, vars, fat_vars, ext4_vars, fat_dir_vars, ext4_dir_vars>>

MCvars == <<which, vars, fat_vars, ext4_vars, fat_dir_vars, ext4_dir_vars, tree_vars>>
MCSpec == MCInit /\ [][MCNext]_MCvars

-----------------------------------------------------------------------------

\* On a FAT volume every cluster is free or in one chain, as long as its file is
\* and in the order the file has it (bitmap.rs, fat_inode.rs).  A directory holds
\* the names it was given where its inodes look for them, and a listing in
\* several calls skips and repeats none that stayed (dir_iter.rs, fat_inode.rs
\* create_dir_ent and get_dirent).
FatVolumeIsExact ==
  /\ which = "fat" => Fat!FatIsExact
  /\ which = "fat_dir" => FatDir!DirIsExact /\ FatDir!ListingIsExact

\* The files of an ext4 volume have blocks of their own, without gaps, and read
\* as they were written, through the page cache and from the disk (extent.rs
\* insert_extent, balloc.rs, ialloc.rs, file.rs write_at).  A directory lists
\* exactly the names it was given (direntry.rs try_insert_to_existing_block and
\* dir_remove_entry).
Ext4VolumeIsExact ==
  /\ which = "ext4" => Ext4!TreesAreExact /\ Ext4!ContentsAreKept
  /\ which = "ext4_dir" => Ext4Dir!DirIsExact

\* The tree of nodes agrees with the disk and the cached path with the tree, and
\* a directory somebody works in is not deleted (fs/directory_tree.rs open,
\* mkdir, delete and rename).
TreeIsExact == which = "tree" => Tree!TreeIsExact /\ Tree!SpecialUsesAreKept
\* Reads of a file return what the calls before them stored, whatever was cached,
\* evicted and allocated again in between (fat_inode.rs, cache.rs).
ImplementsFileContents == Fat!ImplementsFileContents
=============================================================================

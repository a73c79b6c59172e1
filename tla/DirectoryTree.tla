---------------------------- MODULE DirectoryTree ----------------------------
(***************************************************************************)
(* The tree of names of fs/directory_tree.rs over a FAT32 volume: the      *)
(* nodes, their maps of children, which are read from the disk once, the   *)
(* cache of the path opened last, the counts of special uses, and the      *)
(* descriptors of fs/file_descriptor.rs that work through it.              *)
(*                                                                         *)
(* A node and the inode it was made for share an id.  Only the map of its  *)
(* parent owns a node, so a node is alive when the maps lead to it.  What  *)
(* files hold, and O_TRUNC, are left to Fat.                               *)
(***************************************************************************)
EXTENDS Integers, FiniteSets, SequencesExt

CONSTANTS Names, Ids, Root, None,
          Paths,          \* paths as the calls are given them, split at '/'
          Up, Dot,        \* the components ".." and "."
          Handles,        \* file objects that may be open at a time
          Old,            \* entries the volume may have at boot: [Ids -> ...]
          Departures      \* renames, normally none, that break a property:
                          \* "other_name", "cached_path", "full_directory"

VARIABLES ent,            \* ent[i]: the directory entry of inode i on the disk, or None
          children,       \* children[i]: the map of node i, or None when it was not read
          father, name,   \* of each node
          spe_usage,
          handle,         \* handle[h]: the open file objects, None when closed
          PATH_CACHE,
          halted          \* the kernel panicked, or spins on a lock it holds

vars == <<ent, children, father, name, spe_usage, handle, PATH_CACHE, halted>>

Entry(d, n, k) == [par |-> d, name |-> n, kind |-> k]

\* What a file may be called: nothing keeps ".." above the root from being one.
Keys == Names \union {Up}

\* The nodes the maps lead to.
AliveIn(kids) ==
  LET near(S) == {i \in Ids : \E d \in S : kids[d] # None /\ \E n \in Keys : kids[d][n] = i}
      reach[k \in 0..Cardinality(Ids)] ==
        IF k = 0 THEN {Root} ELSE LET r == reach[k - 1] IN r \union near(r)
  IN reach[Cardinality(Ids)]
Alive == AliveIn(children)

IsDir(i) == i = Root \/ ent[i].kind = "dir"

\* The count of the root starts at one, for ROOT_FD.
Init ==
  /\ ent \in Old
  /\ children = [i \in Ids |-> None]
  /\ father = [i \in Ids |-> IF ent[i] = None THEN None ELSE ent[i].par]
  /\ name = [i \in Ids |-> IF ent[i] = None THEN None ELSE ent[i].name]
  /\ spe_usage = [i \in Ids |-> IF i = Root THEN 1 ELSE 0]
  /\ handle = [h \in Handles |-> None]
  /\ PATH_CACHE = [path |-> <<>>, node |-> None]
  /\ halted = FALSE
-----------------------------------------------------------------------------
\* Walking paths.  kids are the maps as the call has read them so far.

parse_dir_path(path) ==
  LET step(v, c) == IF c = Dot THEN v
                    ELSE IF c # Up \/ v = <<>> \/ Last(v) = Up THEN Append(v, c)
                    ELSE Front(v)
      parsed[k \in 0..Len(path)] == IF k = 0 THEN <<>> ELSE step(parsed[k - 1], path[k])
  IN parsed[Len(path)]

Named(d, n) == {i \in Ids : ent[i] # None /\ ent[i].par = d /\ ent[i].name = n}

cache_all_subfile(kids, d) ==
  IF kids[d] # None \/ ~IsDir(d) THEN kids
  ELSE [kids EXCEPT ![d] = [n \in Keys |->
          IF Named(d, n) = {} THEN None ELSE CHOOSE i \in Named(d, n) : TRUE]]

try_to_open_subfile(kids, d, n) ==
  IF ~IsDir(d) THEN None ELSE cache_all_subfile(kids, d)[d][n]

\* at is None once a component is missing.
cd_comp(kids, from, comps) ==
  LET step(s, c) ==
        IF s.at = None THEN s
        ELSE IF c = Up THEN [s EXCEPT !.at = IF father[@] = None THEN @ ELSE father[@]]
        ELSE [kids |-> cache_all_subfile(s.kids, s.at),
              at |-> try_to_open_subfile(s.kids, s.at, c)]
      walked[k \in 0..Len(comps)] ==
        IF k = 0 THEN [kids |-> kids, at |-> from] ELSE step(walked[k - 1], comps[k])
  IN walked[Len(comps)]

\* The path of a node, from the names the nodes were made with.
get_cwd(i) ==
  LET up[k \in 0..Cardinality(Ids)] ==
        IF k = 0 THEN <<i, <<>>>>
        ELSE LET u == up[k - 1] IN
             IF father[u[1]] = None THEN u ELSE <<father[u[1]], <<name[u[1]]>> \o u[2]>>
  IN up[Cardinality(Ids)][2]

\* A call starts at the root, or at a directory a file object leads to.
Bases == {Root} \union ({handle[h].node : h \in {h \in Handles : handle[h] # None}} \cap Alive)
NewId(i) ==
  LET unused == {j \in Ids \ Alive : ent[j] = None /\ \A h \in Handles :
                                       handle[h] = None \/ handle[h].node # j} IN
  unused # {} /\ i = CHOOSE j \in unused : TRUE

\* Nodes the maps no longer lead to are gone with what they held; the cache has
\* a Weak that cannot be upgraded any more.
Keep(kids, up) ==
  LET live == AliveIn(kids) IN
  /\ children' = [i \in Ids |-> IF i \in live THEN kids[i] ELSE None]
  /\ father' = [i \in Ids |-> IF i \in live \/ ent'[i] # None THEN up[i] ELSE None]
  /\ name' = [i \in Ids |-> IF i \in live \/ ent'[i] # None THEN name[i] ELSE None]
  /\ spe_usage' = [i \in Ids |-> IF i \in live THEN spe_usage[i] ELSE 0]
  /\ PATH_CACHE' = [PATH_CACHE EXCEPT !.node = IF @ \in live THEN @ ELSE None]

OnlyRead(kids) ==
  children' = kids /\ UNCHANGED <<ent, father, name, spe_usage, handle, PATH_CACHE, halted>>

-----------------------------------------------------------------------------
\* open() after the lookup: i was found, with the entries e and the maps kids.
OpenFlags ==
  {[creat |-> FALSE, excl |-> FALSE, directory |-> TRUE,  write |-> FALSE, special |-> TRUE],
   [creat |-> FALSE, excl |-> FALSE, directory |-> FALSE, write |-> FALSE, special |-> TRUE],
   [creat |-> TRUE,  excl |-> FALSE, directory |-> FALSE, write |-> TRUE,  special |-> FALSE],
   [creat |-> TRUE,  excl |-> TRUE,  directory |-> FALSE, write |-> FALSE, special |-> FALSE]}

Refused(i, e, f) ==
  LET dir == i = Root \/ e[i].kind = "dir" IN
  \/ ~dir /\ spe_usage[i] > 0 /\ f.write
  \/ dir /\ f.write
  \/ ~dir /\ f.directory

Opened(i, e, kids, absolute, path, f, h) ==
  /\ ent' = e /\ children' = kids /\ UNCHANGED halted
  /\ IF Refused(i, e, f) THEN UNCHANGED <<spe_usage, handle, PATH_CACHE>>
     ELSE /\ spe_usage' = [spe_usage EXCEPT ![i] = IF f.special THEN @ + 1 ELSE @]
          /\ handle' = [handle EXCEPT ![h] = [node |-> i, special |-> f.special]]
          /\ PATH_CACHE' = IF absolute /\ path # PATH_CACHE.path
                           THEN [path |-> path, node |-> i] ELSE PATH_CACHE

\* Created mutated: the node does not enter the map of its parent.
CreatedApart(e, kids, d, n, i, kind) ==
  [ent |-> [e EXCEPT ![i] = Entry(d, n, kind)], kids |-> kids]

\* create() and the node made for the new file.
Created(e, kids, d, n, i, kind) ==
  [ent |-> [e EXCEPT ![i] = Entry(d, n, kind)], kids |-> [kids EXCEPT ![d][n] = i]]

Cached(absolute, path) ==
  absolute /\ path = PATH_CACHE.path /\ PATH_CACHE.node \in Alive

\* n is looked up in the node d, with the maps kids read on the way there.
OpenIn(kids, d, n, i, absolute, path, f, h) ==
  IF i # None /\ f.creat /\ f.excl THEN OnlyRead(kids)
  ELSE IF i # None
  THEN Opened(i, ent, kids, absolute, path, f, h) /\ UNCHANGED <<father, name>>
  ELSE IF ~f.creat \/ ~IsDir(d) THEN OnlyRead(kids)
  ELSE \E new \in Ids : NewId(new) /\
         LET c == Created(ent, kids, d, n, new, "file") IN
         /\ Opened(new, c.ent, c.kids, absolute, path, f, h)
         /\ father' = [father EXCEPT ![new] = d] /\ name' = [name EXCEPT ![new] = n]

\* w is where the walk over all components but the last ended.
OpenAt(w, comps, absolute, path, f, h) ==
  IF w.at = None THEN OnlyRead(w.kids)
  ELSE IF comps = <<>>
  THEN Opened(w.at, ent, w.kids, absolute, path, f, h) /\ UNCHANGED <<father, name>>
  ELSE OpenIn(cache_all_subfile(w.kids, w.at), w.at, Last(comps),
              try_to_open_subfile(w.kids, w.at, Last(comps)), absolute, path, f, h)

WalkTo(from, comps) ==
  cd_comp(children, from, IF comps = <<>> THEN <<>> ELSE Front(comps))

open(from, absolute, path, f, h) ==
  /\ handle[h] = None
  /\ IF Cached(absolute, path)
     THEN Opened(PATH_CACHE.node, ent, children, absolute, path, f, h) /\ UNCHANGED <<father, name>>
     ELSE \E comps \in {parse_dir_path(path)} :
            OpenAt(WalkTo(from, comps), comps, absolute, path, f, h)

mkdir(from, path) ==
  LET comps == parse_dir_path(path)
      w == cd_comp(children, from, Front(comps))
      n == Last(comps)
      kids == cache_all_subfile(w.kids, w.at) IN
  /\ comps # <<>>
  /\ IF w.at = None THEN OnlyRead(w.kids)
     ELSE IF ~IsDir(w.at) \/ try_to_open_subfile(w.kids, w.at, n) # None THEN OnlyRead(kids)
     ELSE \E new \in Ids : NewId(new) /\
            LET c == Created(ent, kids, w.at, n, new, "dir") IN
            /\ ent' = c.ent /\ children' = c.kids
            /\ father' = [father EXCEPT ![new] = w.at] /\ name' = [name EXCEPT ![new] = n]
            /\ UNCHANGED <<spe_usage, handle, PATH_CACHE, halted>>

Empty(e, i) == {j \in Ids : e[j] # None /\ e[j].par = i} = {}

\* delete() checks mutated: a node in special use may be deleted.
DeletesInUse(i, directory) == IsDir(i) = directory /\ father[i] # None /\ Empty(ent, i)

MayDelete(i, directory) ==
  /\ spe_usage[i] = 0 /\ IsDir(i) = directory /\ father[i] # None
  /\ Empty(ent, i)        \* unlink()

delete(from, path, directory) ==
  LET comps == parse_dir_path(path) w == cd_comp(children, from, comps) IN
  IF path # <<>> /\ Last(path) = Dot THEN UNCHANGED vars
  ELSE IF comps = <<>>
  THEN halted' = TRUE /\ UNCHANGED <<ent, children, father, name, spe_usage, handle, PATH_CACHE>>
  ELSE IF w.at = None THEN OnlyRead(w.kids)
  ELSE IF ~MayDelete(w.at, directory) THEN OnlyRead(w.kids)
  ELSE /\ ent' = [ent EXCEPT ![w.at] = None]
       /\ Keep([w.kids EXCEPT ![father[w.at]][Last(comps)] = None], father)
       /\ UNCHANGED <<handle, halted>>

\* A target that exists is never replaced: unlink() is asked of the directory
\* it is in, which is not empty.  The entry of a file that is moved is written
\* under its old name.  The key is removed before unlink() may fail.
rename(oldfrom, oldpath, newfrom, newpath) ==
  LET old == parse_dir_path(get_cwd(oldfrom) \o oldpath)
      new == parse_dir_path(get_cwd(newfrom) \o newpath)
      wo == cd_comp(children, Root, Front(old))
      wn == cd_comp(wo.kids, Root, Front(new))
      ko == cache_all_subfile(wn.kids, wo.at)
      i == try_to_open_subfile(wn.kids, wo.at, Last(old))
      kn == cache_all_subfile(ko, wn.at)
      removed == [kn EXCEPT ![wo.at][Last(old)] = None] IN
  IF old = new \/ IsPrefix(old, new) THEN UNCHANGED vars
  ELSE IF new = <<>>
  THEN halted' = TRUE /\ UNCHANGED <<ent, children, father, name, spe_usage, handle, PATH_CACHE>>
  ELSE IF wo.at = None THEN OnlyRead(wo.kids)
  ELSE IF wn.at = None THEN OnlyRead(wn.kids)
  ELSE IF Front(old) # Front(new) /\ wo.at = wn.at
  THEN halted' = TRUE /\ UNCHANGED <<ent, children, father, name, spe_usage, handle, PATH_CACHE>>
  ELSE IF i = None \/ spe_usage[i] > 0 THEN OnlyRead(ko)
  ELSE IF ~IsDir(wn.at) \/ kn[wn.at][Last(new)] # None THEN OnlyRead(kn)
  ELSE IF IsDir(i) /\ ~Empty(ent, i)
  THEN UNCHANGED <<ent, handle, halted>> /\ Keep(removed, father)
  ELSE /\ ent' = [ent EXCEPT ![i] = Entry(wn.at, Last(old), @.kind)]
       /\ Keep([removed EXCEPT ![wn.at][Last(new)] = i], [father EXCEPT ![i] = wn.at])
       /\ UNCHANGED <<handle, halted>>

\* The renames that are made: to another directory under the same name, not of
\* the node of the cached path, and not of a directory with entries.
MayRename(from, oldpath, newpath) ==
  LET old == parse_dir_path(get_cwd(from) \o oldpath)
      i == cd_comp(children, Root, old).at IN
  /\ old # <<>>
  /\ "other_name" \in Departures \/ Last(oldpath) = Last(newpath)
  /\ i # None => /\ "cached_path" \in Departures \/ PATH_CACHE.node # i
                 /\ "full_directory" \in Departures \/ Empty(ent, i)

\* deep_clone(), as fork() copies a working directory.
deep_clone(h, g) ==
  /\ handle[h] # None /\ handle[g] = None
  /\ handle' = [handle EXCEPT ![g] = handle[h]]
  /\ spe_usage' = [spe_usage EXCEPT ![handle[h].node] =
                     IF handle[h].special /\ handle[h].node \in Alive THEN @ + 1 ELSE @]
  /\ UNCHANGED <<ent, children, father, name, PATH_CACHE, halted>>

drop(h) ==
  /\ handle[h] # None
  /\ handle' = [handle EXCEPT ![h] = None]
  /\ spe_usage' = [spe_usage EXCEPT ![handle[h].node] =
                     IF handle[h].special /\ handle[h].node \in Alive THEN @ - 1 ELSE @]
  /\ UNCHANGED <<ent, children, father, name, PATH_CACHE, halted>>

Next ==
  /\ ~halted
  /\ \/ \E h \in Handles :
          \/ drop(h)
          \/ \E g \in Handles : deep_clone(h, g)
          \/ \E path \in Paths, f \in OpenFlags :
               open(Root, TRUE, path, f, h) \/ \E b \in Bases \ {Root} : open(b, FALSE, path, f, h)
     \/ \E b \in Bases, path \in Paths :
          mkdir(b, path) \/ \E directory \in BOOLEAN : delete(b, path, directory)
     \/ \E b \in Bases, old, new \in Paths :
          MayRename(b, old, new) /\ rename(b, old, b, new)

Spec == Init /\ [][Next]_vars

-----------------------------------------------------------------------------
\* The tree and the disk agree: a map that was read has exactly the entries of
\* the directory, no name is twice in a directory, every entry is in a
\* directory that exists, and a path the cache remembers for a node that is
\* alive is where walking it leads (open(), mkdir(), delete()).
TreeIsExact ==
  /\ \A d \in Alive : children[d] # None =>
       \A n \in Keys : Named(d, n) = {children[d][n]} \ {None}
  /\ \A i \in Ids : ent[i] # None => ent[i].par = Root \/ ent[ent[i].par] # None
  /\ PATH_CACHE.node \in Alive =>
       cd_comp(children, Root, parse_dir_path(PATH_CACHE.path)).at = PATH_CACHE.node

\* The count of a node is the number of file objects that use it as a working
\* directory or a running program, and such a node stays in the tree: the
\* working directory of a task always has a path (get_cwd(), EBUSY).
SpecialUsesAreKept ==
  /\ \A h \in Handles : handle[h] # None /\ handle[h].special => handle[h].node \in Alive
  /\ \A i \in Alive :
       spe_usage[i] = Cardinality({h \in Handles : handle[h] # None /\ handle[h].special
                                                   /\ handle[h].node = i})
                      + (IF i = Root THEN 1 ELSE 0)

\* rename() renames a file or directory or leaves the names as they are: no
\* step takes a node from the tree and leaves its entry on the disk.
RenameKeepsNodes ==
  [][\A i \in Alive : i \in AliveIn(children') \/ ent'[i] = None]_vars
=============================================================================

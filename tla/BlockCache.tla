----------------------------- MODULE BlockCache ------------------------------
(***************************************************************************)
(* The pool of block buffers of fs/cache.rs, which the file systems read   *)
(* and write their tables through.                                         *)
(*                                                                         *)
(* A caller asks for the buffer of a block, reads or modifies it through   *)
(* the Arc it is given, and drops the Arc.  The search for a buffer is a   *)
(* loop in the kernel; a pass of it is a step here, and nothing else runs  *)
(* between two passes.  written is what the callers stored last.           *)
(***************************************************************************)
EXTENDS Integers, FiniteSets

CONSTANTS Blocks, Values,
          Unused,      \* usize::MAX, the block_id of a buffer without a block
          PoolSize,    \* buffers of the pool
          MaxHeld      \* buffers the callers hold at a time

ASSUME BlockCacheAssumption ==
  Unused \notin Blocks /\ PoolSize \in Nat \ {0} /\ MaxHeld \in Nat

PRIORITY_UPPERBOUND == 1
Pool == 1..PoolSize

VARIABLES cache_pool,   \* BlockCacheManager::cache_pool
          disk,         \* the block device
          held,         \* buffers whose Arc a caller holds too
          wanted,       \* the block get_block_cache() looks for a buffer for, or Unused
          written

vars == <<cache_pool, disk, held, wanted, written>>

Buffer == [priority : 0..PRIORITY_UPPERBOUND, block_id : Blocks \union {Unused},
           dirty : BOOLEAN, data : Values]

Init ==
  /\ disk \in [Blocks -> Values] /\ written = disk
  /\ cache_pool \in [Pool -> {b \in Buffer : b.priority = 0 /\ b.block_id = Unused /\ ~b.dirty}]
  /\ held = {} /\ wanted = Unused

Raised(p) == IF p < PRIORITY_UPPERBOUND THEN p + 1 ELSE p

\* The first buffer of the pool with that block_id.
FirstWith(i, b) ==
  /\ cache_pool[i].block_id = b
  /\ \A j \in 1..(i - 1) : cache_pool[j].block_id # b
NoneWith(b) == \A i \in Pool : cache_pool[i].block_id # b

\* The callers hold fewer than MaxHeld buffers when one of them asks.
MayAsk == wanted = Unused /\ Cardinality(held) < MaxHeld

try_get_block_cache(b) ==
  \E i \in Pool :
    /\ FirstWith(i, b)
    /\ cache_pool' = [cache_pool EXCEPT ![i].priority = Raised(@)]
    /\ held' = held \union {i}
    /\ UNCHANGED <<disk, wanted, written>>

get_block_cache(b) ==
  /\ MayAsk
  /\ \/ try_get_block_cache(b)
     \/ NoneWith(b) /\ wanted' = b /\ UNCHANGED <<cache_pool, disk, held, written>>

\* The buffer after read_block() and the priority get_block_cache() gives it;
\* dirty is left as it was.
read_block(i) ==
  [cache_pool[i] EXCEPT !.block_id = wanted, !.data = disk[wanted], !.priority = Raised(@)]

alloc_buffer_cache ==
  /\ wanted # Unused
  /\ \E i \in Pool :
       /\ FirstWith(i, Unused)
       /\ cache_pool' = [cache_pool EXCEPT ![i] = read_block(i)]
       /\ held' = held \union {i}
  /\ wanted' = Unused
  /\ UNCHANGED <<disk, written>>

Evicted(i) == i \notin held /\ cache_pool[i].priority = 0

\* Lowered mutated: a buffer keeps its second chance.
KeepsChance(p) == p

Lowered(p) == p - 1

\* A pass over a pool in which every buffer has a block.
oom ==
  /\ wanted # Unused /\ NoneWith(Unused)
  /\ cache_pool' = [i \in Pool |->
       IF Evicted(i) THEN [cache_pool[i] EXCEPT !.block_id = Unused, !.dirty = FALSE]
       ELSE IF i \in held THEN cache_pool[i]
       ELSE [cache_pool[i] EXCEPT !.priority = Lowered(@)]]
  /\ disk' = [b \in Blocks |->
       LET w == {i \in Pool : Evicted(i) /\ cache_pool[i].dirty /\ cache_pool[i].block_id = b} IN
       IF w = {} THEN disk[b] ELSE cache_pool[CHOOSE i \in w : TRUE].data]
  /\ UNCHANGED <<held, wanted, written>>

\* modify() mutated: the buffer is not marked.
ModifyUnmarked(i, v) ==
  /\ wanted = Unused /\ i \in held
  /\ cache_pool' = [cache_pool EXCEPT ![i].data = v]
  /\ written' = [written EXCEPT ![cache_pool[i].block_id] = v]
  /\ UNCHANGED <<disk, held, wanted>>

modify(i, v) ==
  /\ wanted = Unused /\ i \in held
  /\ cache_pool' = [cache_pool EXCEPT ![i].dirty = TRUE, ![i].data = v]
  /\ written' = [written EXCEPT ![cache_pool[i].block_id] = v]
  /\ UNCHANGED <<disk, held, wanted>>

\* The caller's Arc goes out of scope.
drop(i) ==
  /\ wanted = Unused /\ i \in held
  /\ held' = held \ {i}
  /\ UNCHANGED <<cache_pool, disk, wanted, written>>

Next ==
  \/ \E b \in Blocks : get_block_cache(b)
  \/ alloc_buffer_cache
  \/ oom
  \/ \E i \in Pool : drop(i) \/ \E v \in Values : modify(i, v)

Spec == Init /\ [][Next]_vars

\* The loop of alloc_buffer_cache() runs until it returns.
FairSpec == Spec /\ WF_vars(alloc_buffer_cache) /\ WF_vars(oom)

-----------------------------------------------------------------------------
TypeOK ==
  /\ cache_pool \in [Pool -> Buffer]
  /\ disk \in [Blocks -> Values] /\ written \in [Blocks -> Values]
  /\ held \subseteq Pool /\ wanted \in Blocks \union {Unused}

\* What a caller reads is what was stored last, whichever buffers were reused
\* in between: a block is in one buffer at most, that buffer holds its latest
\* contents and is dirty when the disk differs, a block in no buffer is on the
\* disk, and a buffer without a block is clean and nobody's, so that reusing it
\* writes nothing over another block (get_block_cache(), oom()).
CacheIsCoherent ==
  /\ \A i \in Pool :
       /\ cache_pool[i].block_id = Unused => ~cache_pool[i].dirty /\ i \notin held
       /\ cache_pool[i].block_id # Unused =>
            /\ cache_pool[i].data = written[cache_pool[i].block_id]
            /\ cache_pool[i].dirty \/ cache_pool[i].data = disk[cache_pool[i].block_id]
            /\ \A j \in Pool : cache_pool[j].block_id = cache_pool[i].block_id => j = i
  /\ \A b \in Blocks : NoneWith(b) => disk[b] = written[b]

\* A request for a buffer is answered: two passes free one, as long as the
\* callers leave one buffer of the pool alone (alloc_buffer_cache()).
RequestsAreAnswered == wanted # Unused ~> wanted = Unused
=============================================================================

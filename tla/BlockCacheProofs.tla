-------------------------- MODULE BlockCacheProofs ---------------------------
(* Proofs about BlockCache, for every pool, disk and set of values.         *)
EXTENDS BlockCache, TLAPS

\* While a buffer is looked for, no buffer holds the block that is wanted.
Searching == wanted # Unused => NoneWith(wanted)

Inv == TypeOK /\ CacheIsCoherent /\ Searching

\* The invariant holds of the empty pool BlockCacheManager::new() makes.
LEMMA InvInit == Init => Inv
BY BlockCacheAssumption
DEF Init, Inv, TypeOK, CacheIsCoherent, Searching, Buffer, NoneWith, PRIORITY_UPPERBOUND

\* A step that changes neither buffers nor contents keeps it: drop().
LEMMA InvDrop == ASSUME Inv, NEW i \in Pool, drop(i) PROVE Inv'
BY DEF drop, Inv, TypeOK, CacheIsCoherent, Searching, NoneWith

\* A buffer of the right type stays one when its priority is raised.
LEMMA RaisedType == \A p \in 0..PRIORITY_UPPERBOUND : Raised(p) \in 0..PRIORITY_UPPERBOUND
BY DEF Raised, PRIORITY_UPPERBOUND

\* A request that finds its block, or finds that no buffer has it, keeps it.
LEMMA InvGet == ASSUME Inv, NEW b \in Blocks, get_block_cache(b) PROVE Inv'
<1>1. CASE try_get_block_cache(b)
  <2>1. PICK i \in Pool : /\ FirstWith(i, b)
                          /\ cache_pool' = [cache_pool EXCEPT ![i].priority = Raised(@)]
                          /\ held' = held \union {i}
                          /\ UNCHANGED <<disk, wanted, written>>
    BY <1>1 DEF try_get_block_cache
  <2>2. cache_pool[i].block_id = b /\ b # Unused
    BY <2>1, BlockCacheAssumption DEF FirstWith
  <2>3. /\ cache_pool \in [Pool -> Buffer]
        /\ Raised(cache_pool[i].priority) \in 0..PRIORITY_UPPERBOUND
    BY RaisedType DEF Inv, TypeOK, Buffer
  <2>4. TypeOK'
    BY <2>1, <2>3 DEF Inv, TypeOK, Buffer
  <2>5. \A j \in Pool : /\ cache_pool'[j].block_id = cache_pool[j].block_id
                        /\ cache_pool'[j].dirty = cache_pool[j].dirty
                        /\ cache_pool'[j].data = cache_pool[j].data
    BY <2>1, <2>3 DEF Buffer
  <2>6. CacheIsCoherent'
    BY <2>1, <2>2, <2>5 DEF Inv, CacheIsCoherent, NoneWith
  <2>7. Searching'
    BY <2>1, <2>5 DEF Inv, Searching, NoneWith
  <2> QED BY <2>4, <2>6, <2>7 DEF Inv
<1>2. CASE NoneWith(b) /\ wanted' = b /\ UNCHANGED <<cache_pool, disk, held, written>>
  BY <1>2 DEF Inv, TypeOK, CacheIsCoherent, Searching, NoneWith
<1> QED BY <1>1, <1>2 DEF get_block_cache

\* Reading the wanted block into a free buffer keeps it: the buffer is clean,
\* and the disk has the latest contents since no buffer holds the block.
LEMMA InvAlloc == ASSUME Inv, alloc_buffer_cache PROVE Inv'
<1>1. PICK i \in Pool : /\ FirstWith(i, Unused)
                        /\ cache_pool' = [cache_pool EXCEPT ![i] = read_block(i)]
                        /\ held' = held \union {i}
  BY DEF alloc_buffer_cache
<1>2. /\ wanted \in Blocks /\ wanted # Unused /\ wanted' = Unused
      /\ UNCHANGED <<disk, written>> /\ NoneWith(wanted)
      /\ cache_pool \in [Pool -> Buffer] /\ disk[wanted] \in Values
  BY BlockCacheAssumption DEF alloc_buffer_cache, Inv, TypeOK, Searching
<1>3. cache_pool[i].block_id = Unused /\ ~cache_pool[i].dirty
  BY <1>1 DEF FirstWith, Inv, CacheIsCoherent
<1>4. /\ read_block(i) \in Buffer
      /\ read_block(i).block_id = wanted /\ read_block(i).data = disk[wanted]
      /\ ~read_block(i).dirty
  BY <1>2, <1>3, RaisedType DEF read_block, Buffer
<1>5. /\ cache_pool'[i] = read_block(i)
      /\ \A j \in Pool : j # i => cache_pool'[j] = cache_pool[j]
      /\ cache_pool' \in [Pool -> Buffer]
  BY <1>1, <1>2, <1>4
<1>6. TypeOK'
  BY <1>1, <1>2, <1>5 DEF Inv, TypeOK
<1>7. disk[wanted] = written[wanted]
  BY <1>2 DEF Inv, CacheIsCoherent
<1>8. CacheIsCoherent'
  <2>1. ASSUME NEW j \in Pool
        PROVE /\ cache_pool'[j].block_id = Unused => ~cache_pool'[j].dirty /\ j \notin held'
              /\ cache_pool'[j].block_id # Unused =>
                   /\ cache_pool'[j].data = written'[cache_pool'[j].block_id]
                   /\ cache_pool'[j].dirty \/ cache_pool'[j].data = disk'[cache_pool'[j].block_id]
    BY <1>1, <1>2, <1>4, <1>5, <1>7 DEF Inv, CacheIsCoherent
  <2>2. ASSUME NEW j \in Pool, NEW k \in Pool, cache_pool'[j].block_id # Unused,
               cache_pool'[k].block_id = cache_pool'[j].block_id
        PROVE k = j
    BY <1>2, <1>4, <1>5, <2>2 DEF Inv, CacheIsCoherent, NoneWith
  <2>3. ASSUME NEW b \in Blocks, NoneWith(b)'
        PROVE disk'[b] = written'[b]
    <3>1. NoneWith(b)
      BY <1>3, <1>5, <2>3, BlockCacheAssumption DEF NoneWith
    <3> QED BY <3>1, <1>2 DEF Inv, CacheIsCoherent
  <2> QED BY <2>1, <2>2, <2>3 DEF CacheIsCoherent
<1> QED BY <1>2, <1>6, <1>8 DEF Inv, Searching

\* A pass of evictions keeps it: the one buffer of a block is what is written.
LEMMA InvOom == ASSUME Inv, oom PROVE Inv'
<1> DEFINE W(b) == {i \in Pool : Evicted(i) /\ cache_pool[i].dirty /\ cache_pool[i].block_id = b}
<1>1. /\ wanted # Unused /\ NoneWith(Unused) /\ NoneWith(wanted)
      /\ UNCHANGED <<held, wanted, written>>
      /\ cache_pool \in [Pool -> Buffer]
  BY DEF oom, Inv, TypeOK, Searching
<1>2. ASSUME NEW i \in Pool, Evicted(i)
      PROVE /\ cache_pool'[i] = [cache_pool[i] EXCEPT !.block_id = Unused, !.dirty = FALSE]
            /\ i \notin held
  BY <1>2 DEF oom, Evicted
<1>3. ASSUME NEW i \in Pool, ~Evicted(i)
      PROVE /\ cache_pool'[i].block_id = cache_pool[i].block_id
            /\ cache_pool'[i].dirty = cache_pool[i].dirty
            /\ cache_pool'[i].data = cache_pool[i].data
            /\ cache_pool'[i] \in Buffer
  <2>1. CASE i \in held
    BY <1>1, <1>3, <2>1 DEF oom
  <2>2. CASE i \notin held
    <3>1. cache_pool'[i] = [cache_pool[i] EXCEPT !.priority = @ - 1]
      BY <1>3, <2>2 DEF oom, Lowered
    <3>2. cache_pool[i].priority - 1 \in 0..PRIORITY_UPPERBOUND
      BY <1>1, <1>3, <2>2 DEF Evicted, Buffer, PRIORITY_UPPERBOUND
    <3> QED BY <1>1, <3>1, <3>2 DEF Buffer
  <2> QED BY <2>1, <2>2
<1>4. ASSUME NEW i \in Pool, Evicted(i)
      PROVE /\ cache_pool'[i] \in Buffer
            /\ cache_pool'[i].block_id = Unused /\ ~cache_pool'[i].dirty
  BY <1>1, <1>2, <1>4 DEF Buffer
<1>5. /\ cache_pool' \in [Pool -> Buffer]
      /\ disk' = [b \in Blocks |-> IF W(b) = {} THEN disk[b]
                                   ELSE cache_pool[CHOOSE i \in W(b) : TRUE].data]
  <2>1. \A i \in Pool : cache_pool'[i] \in Buffer
    BY <1>3, <1>4
  <2>2. cache_pool' = [i \in Pool |-> cache_pool'[i]]
    BY DEF oom
  <2> QED BY <2>1, <2>2 DEF oom
<1>6. ASSUME NEW b \in Blocks, NEW i \in Pool, cache_pool[i].block_id = b
      PROVE disk'[b] = (IF Evicted(i) /\ cache_pool[i].dirty THEN written[b] ELSE disk[b])
  <2>0. b # Unused
    BY BlockCacheAssumption
  <2>1. \A j \in Pool : cache_pool[j].block_id = b => j = i
    BY <1>6, <2>0 DEF Inv, CacheIsCoherent
  <2>2. cache_pool[i].data = written[b]
    BY <1>6, <2>0 DEF Inv, CacheIsCoherent
  <2>3. CASE Evicted(i) /\ cache_pool[i].dirty
    <3>1. i \in W(b) /\ \A j \in W(b) : j = i
      BY <1>6, <2>1, <2>3
    <3>2. (CHOOSE j \in W(b) : TRUE) = i
      BY <3>1
    <3>3. disk'[b] = cache_pool[CHOOSE j \in W(b) : TRUE].data
      BY <1>5, <3>1
    <3> QED BY <2>2, <2>3, <3>2, <3>3
  <2>4. CASE ~(Evicted(i) /\ cache_pool[i].dirty)
    <3>1. W(b) = {}
      BY <2>1, <2>4
    <3> QED BY <1>5, <2>4, <3>1
  <2> QED BY <2>3, <2>4
<1>7. ASSUME NEW b \in Blocks, NoneWith(b)
      PROVE disk'[b] = disk[b]
  <2>1. W(b) = {}
    BY <1>7 DEF NoneWith
  <2> QED BY <1>5, <2>1
<1>8. TypeOK'
  <2>1. \A b \in Blocks : disk'[b] \in Values
    <3> TAKE b \in Blocks
    <3>1. CASE NoneWith(b)
      BY <1>7, <3>1 DEF Inv, TypeOK
    <3>2. CASE ~NoneWith(b)
      <4>1. PICK i \in Pool : cache_pool[i].block_id = b
        BY <3>2 DEF NoneWith
      <4>2. disk[b] \in Values /\ written[b] \in Values
        BY DEF Inv, TypeOK
      <4> QED BY <1>6, <4>1, <4>2
    <3> QED BY <3>1, <3>2
  <2> QED BY <1>1, <1>5, <2>1 DEF Inv, TypeOK
<1>9. ASSUME NEW i \in Pool
      PROVE /\ cache_pool'[i].block_id = Unused => ~cache_pool'[i].dirty /\ i \notin held'
            /\ cache_pool'[i].block_id # Unused =>
                 /\ cache_pool'[i].data = written'[cache_pool'[i].block_id]
                 /\ cache_pool'[i].dirty \/ cache_pool'[i].data = disk'[cache_pool'[i].block_id]
                 /\ \A j \in Pool : cache_pool'[j].block_id = cache_pool'[i].block_id => j = i
  <2>1. CASE Evicted(i)
    BY <1>1, <1>2, <1>4, <2>1
  <2>2. CASE ~Evicted(i)
    <3>1. /\ cache_pool[i].block_id # Unused /\ cache_pool[i].block_id \in Blocks
          /\ cache_pool[i].data = written[cache_pool[i].block_id]
          /\ cache_pool[i].dirty \/ cache_pool[i].data = disk[cache_pool[i].block_id]
          /\ \A j \in Pool : cache_pool[j].block_id = cache_pool[i].block_id => j = i
      BY <1>1 DEF Inv, CacheIsCoherent, NoneWith, Buffer
    <3>2. \A j \in Pool : cache_pool'[j].block_id = cache_pool'[i].block_id => j = i
      BY <1>3, <1>4, <2>2, <3>1
    <3>3. disk'[cache_pool[i].block_id] = disk[cache_pool[i].block_id]
      BY <1>6, <2>2, <3>1
    <3> QED BY <1>1, <1>3, <2>2, <3>1, <3>2, <3>3
  <2> QED BY <2>1, <2>2
<1>10. ASSUME NEW b \in Blocks, NoneWith(b)'
       PROVE disk'[b] = written'[b]
  <2>1. CASE NoneWith(b)
    BY <1>1, <1>7, <2>1 DEF Inv, CacheIsCoherent
  <2>2. CASE ~NoneWith(b)
    <3>1. PICK i \in Pool : cache_pool[i].block_id = b
      BY <2>2 DEF NoneWith
    <3>2. Evicted(i) /\ b # Unused
      BY <1>3, <1>10, <3>1, BlockCacheAssumption DEF NoneWith
    <3>3. cache_pool[i].dirty \/ disk[b] = written[b]
      BY <3>1, <3>2 DEF Inv, CacheIsCoherent
    <3> QED BY <1>1, <1>6, <3>1, <3>2, <3>3
  <2> QED BY <2>1, <2>2
<1>11. CacheIsCoherent'
  BY <1>9, <1>10 DEF CacheIsCoherent
<1>12. Searching'
  BY <1>1, <1>3, <1>4 DEF Searching, NoneWith
<1> QED BY <1>8, <1>11, <1>12 DEF Inv

\* Storing into a held buffer keeps it: a held buffer has a block of its own.
LEMMA InvModify == ASSUME Inv, NEW i \in Pool, NEW v \in Values, modify(i, v) PROVE Inv'
<1>1. /\ wanted = Unused /\ i \in held /\ UNCHANGED <<disk, held, wanted>>
      /\ cache_pool' = [cache_pool EXCEPT ![i].dirty = TRUE, ![i].data = v]
      /\ written' = [written EXCEPT ![cache_pool[i].block_id] = v]
      /\ cache_pool \in [Pool -> Buffer] /\ written \in [Blocks -> Values]
  BY DEF modify, Inv, TypeOK
<1>2. cache_pool[i].block_id # Unused /\ cache_pool[i].block_id \in Blocks
  BY <1>1 DEF Inv, CacheIsCoherent, Buffer
<1>3. /\ cache_pool'[i].block_id = cache_pool[i].block_id
      /\ cache_pool'[i].dirty /\ cache_pool'[i].data = v /\ cache_pool'[i] \in Buffer
  BY <1>1 DEF Buffer
<1>4. \A j \in Pool : j # i => cache_pool'[j] = cache_pool[j]
  BY <1>1
<1>5. TypeOK'
  <2>1. cache_pool' \in [Pool -> Buffer]
    BY <1>1, <1>3, <1>4
  <2> QED BY <1>1, <2>1 DEF Inv, TypeOK
<1>6. /\ written'[cache_pool[i].block_id] = v
      /\ \A b \in Blocks : b # cache_pool[i].block_id => written'[b] = written[b]
  BY <1>1, <1>2
<1>7. ASSUME NEW j \in Pool
      PROVE /\ cache_pool'[j].block_id = Unused => ~cache_pool'[j].dirty /\ j \notin held'
            /\ cache_pool'[j].block_id # Unused =>
                 /\ cache_pool'[j].data = written'[cache_pool'[j].block_id]
                 /\ cache_pool'[j].dirty \/ cache_pool'[j].data = disk'[cache_pool'[j].block_id]
                 /\ \A k \in Pool : cache_pool'[k].block_id = cache_pool'[j].block_id => k = j
  <2>1. CASE j = i
    BY <1>1, <1>2, <1>3, <1>4, <1>6, <2>1 DEF Inv, CacheIsCoherent
  <2>2. CASE j # i
    <3>1. cache_pool'[j] = cache_pool[j] /\ cache_pool[j].block_id \in Blocks \union {Unused}
      BY <1>1, <1>4, <2>2 DEF Buffer
    <3>2. cache_pool[j].block_id # cache_pool[i].block_id
      BY <1>2, <2>2 DEF Inv, CacheIsCoherent
    <3> QED BY <1>1, <1>3, <1>4, <1>6, <3>1, <3>2 DEF Inv, CacheIsCoherent
  <2> QED BY <2>1, <2>2
<1>8. ASSUME NEW b \in Blocks, NoneWith(b)'
      PROVE disk'[b] = written'[b]
  BY <1>1, <1>3, <1>4, <1>6, <1>8 DEF Inv, CacheIsCoherent, NoneWith
<1> QED BY <1>1, <1>5, <1>7, <1>8 DEF Inv, CacheIsCoherent, Searching

\* What a caller reads is always what was stored last, for every pool and every
\* order of requests, stores, releases and evictions.
THEOREM CacheIsAlwaysCoherent == Spec => []CacheIsCoherent
<1>1. Inv /\ [Next]_vars => Inv'
  <2> SUFFICES ASSUME Inv, [Next]_vars PROVE Inv'
    OBVIOUS
  <2>1. CASE \E b \in Blocks : get_block_cache(b)
    BY <2>1, InvGet
  <2>2. CASE alloc_buffer_cache
    BY <2>2, InvAlloc
  <2>3. CASE oom
    BY <2>3, InvOom
  <2>4. CASE \E i \in Pool : drop(i)
    BY <2>4, InvDrop
  <2>5. CASE \E i \in Pool : \E v \in Values : modify(i, v)
    BY <2>5, InvModify
  <2>6. CASE UNCHANGED vars
    BY <2>6 DEF vars, Inv, TypeOK, CacheIsCoherent, Searching, NoneWith
  <2> QED BY <2>1, <2>2, <2>3, <2>4, <2>5, <2>6 DEF Next
<1>2. Inv => CacheIsCoherent
  BY DEF Inv
<1> QED BY InvInit, <1>1, <1>2, PTL DEF Spec
=============================================================================

------------------------------ MODULE Aquarium ------------------------------
(***************************************************************************)
(* interpreter/aquarium.c: the allocator of Lanky objects.  A tide pool is *)
(* a malloc'd region of N blocks and a header {next, inlet, outlet, free,  *)
(* used}.  The free blocks of a pool form a list threaded through the      *)
(* blocks themselves: the first word of a free block is the address of the *)
(* next one, and `outlet' is the first.  The same word is object data      *)
(* while the block is out.                                                 *)
(*                                                                         *)
(* A pool's header and its region have the same lifetime, so a pool is     *)
(* named by its region.  The chain of headers from `large_pool' is the     *)
(* sequence `pools'.  The build is the default one, where                  *)
(* aqua_use_system_malloc_free_ is 0.                                      *)
(***************************************************************************)
EXTENDS Integers, Sequences, FiniteSets

CONSTANTS Region,     \* the regions malloc can return: bounds the pools alive at once
          N,          \* LARGE_COUNT, the blocks of a pool
          Junk,       \* a word that is not the address of a block
          NoBlock     \* the value of pinned before the first request

Block == Region \X (1..N)
Word  == Block \cup {Junk}
BlocksOf(r) == {r} \X (1..N)

ASSUME RegionAssumption == Region # {}
ASSUME NAssumption == N \in Nat \ {0}
ASSUME JunkAssumption == Junk \notin Block /\ NoBlock \notin Block

VARIABLES pools,      \* the chain of pools a walk from large_pool visits
          live,       \* the regions malloc'd and not yet freed
          link,       \* the first word of each block
          outlet,     \* pool->outlet
          free,       \* pool->free
          used,       \* pool->used
          held,       \* the blocks the interpreter holds
          pinned,     \* the block of the interpreter's first object
          status      \* "running", or how the program ended

vars == <<pools, live, link, outlet, free, used, held, pinned, status>>

TypeOK ==
  /\ pools \in Seq(Region)
  /\ live \in SUBSET Region
  /\ link \in [Block -> Word]
  /\ outlet \in [Region -> Word]
  /\ free \in [Region -> 0..N]
  /\ used \in [Region -> 0..N]
  /\ held \in SUBSET Block
  /\ pinned \in Block \cup {NoBlock}
  /\ status \in {"running", "unmanaged", "down"}

-----------------------------------------------------------------------------
\* A broken Threaded, for the runs to catch: the loop stops one block early.
ThreadedShort(r) ==
  [b \in Block |-> IF b[1] # r THEN link[b]
                   ELSE IF b[2] < N - 1 THEN <<r, b[2] + 1>> ELSE Junk]

\* Another: each block is linked to itself.
ThreadedToSelf(r) ==
  [b \in Block |-> IF b[1] # r THEN link[b]
                   ELSE IF b[2] < N THEN <<r, b[2]>> ELSE Junk]

\* aqua_init_pool threads the list through the blocks in address order and
\* leaves the last block's word as malloc returned it.
Threaded(r) ==
  [b \in Block |-> IF b[1] # r THEN link[b]
                   ELSE IF b[2] < N THEN <<r, b[2] + 1>> ELSE Junk]

Init ==
  \E r \in Region :
    /\ pools = <<r>>
    /\ live = {r}
    /\ link = [b \in Block |-> IF b[1] = r /\ b[2] < N THEN <<r, b[2] + 1>> ELSE Junk]
    /\ outlet = [q \in Region |-> IF q = r THEN <<r, 1>> ELSE Junk]
    /\ free = [q \in Region |-> IF q = r THEN N ELSE 0]
    /\ used = [q \in Region |-> 0]
    /\ held = {}
    /\ pinned = NoBlock
    /\ status = "running"

\* The first pool of the chain that has a free block.
FirstWithRoom(i) == free[pools[i]] > 0 /\ \A j \in 1..(i-1) : free[pools[j]] = 0

\* The interpreter's side of a request: it holds the block it was handed, and
\* its very first object is never collected.
Receives(ptr) ==
  /\ held' = held \cup {ptr}
  /\ pinned' = IF pinned = NoBlock THEN ptr ELSE pinned

\* aqua_request_next_block, when a pool of the chain has room
RequestFromPool ==
  /\ status = "running"
  /\ \E i \in DOMAIN pools :
       LET r == pools[i]
           ptr == outlet[r]
       IN /\ FirstWithRoom(i)
          /\ ptr \in Block     \* a wild word would be dereferenced: see OutletIsFree
          /\ outlet' = [outlet EXCEPT ![r] = link[ptr]]
          /\ used' = [used EXCEPT ![r] = @ + 1]
          /\ free' = [free EXCEPT ![r] = @ - 1]
          /\ Receives(ptr)
  /\ UNCHANGED <<pools, live, link, status>>

\* A broken RequestNewPool: the block it hands out is not counted as used.
RequestUncounted ==
  /\ status = "running"
  /\ \A i \in DOMAIN pools : free[pools[i]] = 0
  /\ \E r \in Region \ live :
       /\ pools' = Append(pools, r)
       /\ live' = live \cup {r}
       /\ link' = Threaded(r)
       /\ outlet' = [outlet EXCEPT ![r] = Threaded(r)[<<r, 1>>]]
       /\ used' = [used EXCEPT ![r] = 0]
       /\ free' = [free EXCEPT ![r] = N]
       /\ Receives(<<r, 1>>)
  /\ UNCHANGED status

\* aqua_request_next_block, when it must append a pool to the chain
RequestNewPool ==
  /\ status = "running"
  /\ \A i \in DOMAIN pools : free[pools[i]] = 0
  /\ \E r \in Region \ live :
       /\ pools' = Append(pools, r)
       /\ live' = live \cup {r}
       /\ link' = Threaded(r)
       /\ outlet' = [outlet EXCEPT ![r] = Threaded(r)[<<r, 1>>]]
       /\ used' = [used EXCEPT ![r] = 1]
       /\ free' = [free EXCEPT ![r] = N - 1]
       /\ Receives(<<r, 1>>)
  /\ UNCHANGED status

\* The holder of a block writes its object over it.
Write(b, w) ==
  /\ status = "running"
  /\ b \in held
  /\ link' = [link EXCEPT ![b] = w]
  /\ UNCHANGED <<pools, live, outlet, free, used, held, pinned, status>>

\* A broken IsPoolOf: the last pool of the chain, whatever its range.
IsLastPool(i, b) == i = Len(pools)

\* aqua_find_pool_of: the pool of the chain whose address range has b
IsPoolOf(i, b) == pools[i] = b[1] /\ \A j \in 1..(i-1) : pools[j] # b[1]

\* Unlinks a pool that became empty.  With no predecessor there is nothing to
\* rewrite, and large_pool keeps the address of the freed header.
Unlink(i) ==
  IF i = 1 THEN pools
  ELSE [k \in 1..(Len(pools) - 1) |-> IF k < i THEN pools[k] ELSE pools[k+1]]

\* aqua_release of a block the caller holds; a block in no pool is exit(1)
Release(b) ==
  /\ status = "running"
  /\ b \in held \ {pinned}
  /\ IF \E i \in DOMAIN pools : pools[i] = b[1]
     THEN \E i \in DOMAIN pools :
            /\ IsPoolOf(i, b)
            /\ link' = [link EXCEPT ![b] = outlet[b[1]]]
            /\ outlet' = [outlet EXCEPT ![b[1]] = b]
            /\ used' = [used EXCEPT ![b[1]] = @ - 1]
            /\ free' = [free EXCEPT ![b[1]] = @ + 1]
            /\ IF used[b[1]] = 1
               THEN pools' = Unlink(i) /\ live' = live \ {b[1]}
               ELSE UNCHANGED <<pools, live>>
            /\ held' = held \ {b}
            /\ UNCHANGED <<pinned, status>>
     ELSE /\ status' = "unmanaged"
          /\ UNCHANGED <<pools, live, link, outlet, free, used, held, pinned>>

\* aqua_teardown frees every pool of the chain at the end of main.
Teardown ==
  /\ status = "running"
  /\ pinned # NoBlock
  /\ live' = live \ {pools[i] : i \in DOMAIN pools}
  /\ status' = "down"
  /\ UNCHANGED <<pools, link, outlet, free, used, held, pinned>>

Request == RequestFromPool \/ RequestNewPool

Next ==
  \/ Request
  \/ Teardown
  \/ \E b \in Block : Release(b)
  \/ \E b \in Block, w \in Word : Write(b, w)

Spec == Init /\ [][Next]_vars
-----------------------------------------------------------------------------
Running == status = "running"

\* The block the next request will hand out is nobody's: a word its former
\* holder, or a holder of another block, wrote is never taken for a list link
\* (aqua_request_next_block copies the block's first word into outlet).
OutletIsFree ==
  Running => \A r \in live : free[r] > 0 => outlet[r] \in BlocksOf(r) \ held

\* The counters that decide when a pool is full and when it is freed agree
\* with the blocks that are out.
CountsAreExact ==
  Running => \A r \in live : /\ used[r] = Cardinality(held \cap BlocksOf(r))
                             /\ free[r] = N - used[r]

\* No pool is freed under a block that is out, none leaks, and a walk from
\* large_pool meets no freed header (aqua_release does not reset large_pool).
ChainIsLive ==
  Running => /\ {pools[i] : i \in DOMAIN pools} = live
             /\ \A b \in held : b[1] \in live

\* A live block always finds its pool: aqua_release never reaches its exit(1).
NeverUnmanaged == status # "unmanaged"

\* aqua_teardown gives back every region.
TeardownFreesAll == status = "down" => live = {}

-----------------------------------------------------------------------------
\* The list of free blocks of pool r, in the order they will be handed out.
IsFreeList(r, c) ==
  /\ c \in [1..free[r] -> BlocksOf(r)]
  /\ \A i, j \in 1..free[r] : c[i] = c[j] => i = j
  /\ \A i \in 1..free[r] : c[i] \notin held
  /\ \A b \in BlocksOf(r) \ held : \E i \in 1..free[r] : c[i] = b
  /\ free[r] > 0 => c[1] = outlet[r]
  /\ \A i \in 1..(free[r] - 1) : link[c[i]] = c[i+1]

ListsAreSound == Running => \A r \in live : \E c \in [1..free[r] -> BlocksOf(r)] : IsFreeList(r, c)

ChainIsInjective ==
  Running => \A i, j \in DOMAIN pools : pools[i] = pools[j] => i = j

UnmappedIsUnused == \A r \in Region \ live : Running => used[r] = 0

PinnedInFirstPool ==
  Running => \/ pinned = NoBlock /\ held = {} /\ Len(pools) = 1
             \/ pinned \in held /\ Len(pools) > 0 /\ pinned[1] = pools[1]

\* The inductive invariant.
IInv ==
  /\ TypeOK
  /\ ChainIsLive
  /\ ChainIsInjective
  /\ CountsAreExact
  /\ UnmappedIsUnused
  /\ ListsAreSound
  /\ PinnedInFirstPool
  /\ NeverUnmanaged
  /\ TeardownFreesAll

\* aquarium.c keeps the promises of BlockStore.
Store == INSTANCE BlockStore WITH Slots <- N, out <- used, mapped <- live
StoreSpec == Store!Spec
=============================================================================

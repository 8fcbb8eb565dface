--------------------------- MODULE AquariumProofs ---------------------------
(***************************************************************************)
(* For every set of regions and every pool size: the free lists that       *)
(* aquarium.c threads through released memory stay sound, and the          *)
(* allocator implements BlockStore.                                        *)
(***************************************************************************)
EXTENDS Aquarium, FiniteSetTheorems, TLAPS

\* A pool has finitely many blocks, so the counters can count them.
LEMMA BlocksAreFinite ==
  ASSUME NEW r \in Region, NEW S
  PROVE  IsFiniteSet(S \cap BlocksOf(r))
<1>1. IsFiniteSet(1..N)
  BY FS_Interval, NAssumption
<1>2. IsFiniteSet({r})
  BY FS_Singleton
<1>3. IsFiniteSet(BlocksOf(r))
  BY <1>1, <1>2, FS_Product DEF BlocksOf
<1> QED
  BY <1>3, FS_Subset

\* The program starts with one pool whose list is its blocks in order
\* (aqua_init, aqua_init_pool).
LEMMA InitEstablishes == Init => IInv
<1> SUFFICES ASSUME Init PROVE IInv
  OBVIOUS
<1> USE NAssumption
<1>1. PICK r \in Region :
        /\ pools = <<r>>
        /\ live = {r}
        /\ link = [b \in Block |-> IF b[1] = r /\ b[2] < N THEN <<r, b[2] + 1>> ELSE Junk]
        /\ outlet = [q \in Region |-> IF q = r THEN <<r, 1>> ELSE Junk]
        /\ free = [q \in Region |-> IF q = r THEN N ELSE 0]
        /\ used = [q \in Region |-> 0]
        /\ held = {}
        /\ pinned = NoBlock
        /\ status = "running"
  BY DEF Init
<1>2. TypeOK
  <2>1. link \in [Block -> Word]
    BY <1>1 DEF Block, Word
  <2> QED
    BY <1>1, <2>1 DEF TypeOK, Block, Word
<1>3. CountsAreExact
  <2>1. Cardinality(held \cap BlocksOf(r)) = 0
    BY <1>1, FS_EmptySet
  <2> QED
    BY <1>1, <2>1 DEF CountsAreExact
<1>4. ListsAreSound
  <2> DEFINE c == [k \in 1..N |-> <<r, k>>]
  <2>1. free[r] = N
    BY <1>1
  <2>2. c \in [1..free[r] -> BlocksOf(r)]
    BY <2>1 DEF BlocksOf
  <2>3. IsFreeList(r, c)
    <3>1. \A k \in 1..(N - 1) : link[c[k]] = c[k+1]
      BY <1>1 DEF Block
    <3>2. \A i, j \in 1..N : c[i] = c[j] => i = j
      OBVIOUS
    <3>3. \A b \in BlocksOf(r) : \E i \in 1..N : c[i] = b
      BY DEF BlocksOf
    <3>4. c[1] = outlet[r]
      BY <1>1
    <3> HIDE DEF c
    <3> QED
      BY <1>1, <2>1, <2>2, <3>1, <3>2, <3>3, <3>4 DEF IsFreeList
  <2> QED
    BY <1>1, <2>2, <2>3 DEF ListsAreSound
<1> QED
  BY <1>1, <1>2, <1>3, <1>4 DEF IInv, ChainIsLive, ChainIsInjective,
     UnmappedIsUnused, PinnedInFirstPool, NeverUnmanaged, TeardownFreesAll, Block

\* A step that leaves the chain, the lists and the counters alone, and touches
\* only words of held blocks, keeps the free list of a pool.
LEMMA ListKept ==
  ASSUME NEW r \in Region, NEW c, IsFreeList(r, c),
         free'[r] = free[r], outlet'[r] = outlet[r],
         BlocksOf(r) \ held' = BlocksOf(r) \ held,
         \A b \in BlocksOf(r) \ held : link'[b] = link[b],
         TypeOK
  PROVE  IsFreeList(r, c)'
<1>1. \A i \in 1..free[r] : c[i] \in BlocksOf(r) \ held
  BY DEF IsFreeList
<1>2. \A i \in 1..(free[r] - 1) : i \in 1..free[r]
  BY DEF TypeOK
<1>3. \A i \in 1..free[r] : c[i] \notin held'
  BY <1>1
<1>4. \A i \in 1..(free[r] - 1) : link'[c[i]] = c[i+1]
  BY <1>1, <1>2 DEF IsFreeList
<1> QED
  BY <1>3, <1>4 DEF IsFreeList

\* A request takes the first block of a pool's list: what is left is a list,
\* and it starts at the word the block held.
LEMMA ListPopped ==
  ASSUME NEW r \in Region, NEW c, IsFreeList(r, c), TypeOK,
         free[r] > 0,
         free'[r] = free[r] - 1,
         outlet'[r] = link[outlet[r]],
         held' = held \cup {outlet[r]},
         link' = link
  PROVE  \E d \in [1..free'[r] -> BlocksOf(r)] : IsFreeList(r, d)'
<1> DEFINE d == [k \in 1..(free[r] - 1) |-> c[k+1]]
<1>1. free[r] \in Nat /\ \A k \in 1..(free[r] - 1) : k+1 \in 1..free[r] /\ d[k] = c[k+1]
  BY DEF TypeOK
<1>2. d \in [1..free'[r] -> BlocksOf(r)]
  BY <1>1 DEF IsFreeList
<1>3. \A i, j \in 1..free'[r] : d[i] = d[j] => i = j
  <2> SUFFICES ASSUME NEW i \in 1..(free[r] - 1), NEW j \in 1..(free[r] - 1), d[i] = d[j]
               PROVE  i = j
    OBVIOUS
  <2>1. c[i+1] = c[j+1]
    BY <1>1
  <2>2. i+1 = j+1
    BY <1>1, <2>1 DEF IsFreeList
  <2> QED
    BY <1>1, <2>2
<1>4. \A i \in 1..free'[r] : d[i] \notin held'
  <2> SUFFICES ASSUME NEW i \in 1..(free[r] - 1)
               PROVE  c[i+1] \notin held /\ c[i+1] # c[1]
    BY <1>1 DEF IsFreeList
  <2>1. i+1 \in 1..free[r] /\ 1 \in 1..free[r] /\ i+1 # 1
    BY <1>1
  <2> QED
    BY <2>1 DEF IsFreeList
<1>5. \A b \in BlocksOf(r) \ held' : \E i \in 1..free'[r] : d[i] = b
  <2> SUFFICES ASSUME NEW b \in BlocksOf(r) \ held'
               PROVE  \E i \in 1..(free[r] - 1) : d[i] = b
    OBVIOUS
  <2>1. PICK k \in 1..free[r] : c[k] = b
    BY DEF IsFreeList
  <2>2. k # 1
    BY <2>1 DEF IsFreeList
  <2>3. k-1 \in 1..(free[r] - 1) /\ (k-1)+1 = k
    BY <1>1, <2>2
  <2> QED
    BY <1>1, <2>1, <2>3
<1>6. free'[r] > 0 => d[1] = outlet'[r]
  <2> SUFFICES ASSUME free[r] - 1 > 0 PROVE c[2] = link[c[1]]
    BY <1>1 DEF IsFreeList
  <2>1. 1 \in 1..(free[r] - 1)
    BY <1>1
  <2> QED
    BY <2>1 DEF IsFreeList
<1>7. \A i \in 1..(free'[r] - 1) : link'[d[i]] = d[i+1]
  <2>0. 1..(free'[r] - 1) = 1..(free[r] - 2)
    BY <1>1
  <2> SUFFICES ASSUME NEW i \in 1..(free[r] - 2)
               PROVE  link[d[i]] = d[i+1]
    BY <2>0
  <2>1. i \in 1..(free[r] - 1) /\ i+1 \in 1..(free[r] - 1)
    BY <1>1
  <2>2. d[i] = c[i+1] /\ d[i+1] = c[(i+1)+1]
    BY <1>1, <2>1
  <2> HIDE DEF d
  <2> QED
    BY <2>1, <2>2 DEF IsFreeList
<1> HIDE DEF d
<1> QED
  BY <1>2, <1>3, <1>4, <1>5, <1>6, <1>7 DEF IsFreeList

\* A release puts the block in front of its pool's list.
LEMMA ListPushed ==
  ASSUME NEW r \in Region, NEW c, IsFreeList(r, c), TypeOK,
         NEW b \in BlocksOf(r), b \in held,
         free'[r] = free[r] + 1,
         outlet'[r] = b,
         held' = held \ {b},
         link' = [link EXCEPT ![b] = outlet[r]]
  PROVE  \E d \in [1..free'[r] -> BlocksOf(r)] : IsFreeList(r, d)'
<1> DEFINE d == [k \in 1..(free[r] + 1) |-> IF k = 1 THEN b ELSE c[k-1]]
<1>1. /\ free[r] \in Nat
      /\ d[1] = b
      /\ \A k \in 1..(free[r] + 1) : k = 1 \/ (k-1 \in 1..free[r] /\ d[k] = c[k-1])
  BY DEF TypeOK
<1>2. d \in [1..free'[r] -> BlocksOf(r)]
  BY <1>1 DEF IsFreeList
<1>3. \A k \in 1..free[r] : c[k] # b /\ c[k] \in BlocksOf(r)
  BY DEF IsFreeList
<1>4. \A i, j \in 1..free'[r] : d[i] = d[j] => i = j
  <2> SUFFICES ASSUME NEW i \in 1..(free[r] + 1), NEW j \in 1..(free[r] + 1), d[i] = d[j]
               PROVE  i = j
    OBVIOUS
  <2> HIDE DEF d
  <2>1. CASE i = 1 \/ j = 1
    BY <1>1, <1>3, <2>1
  <2>2. CASE i # 1 /\ j # 1
    <3>1. i-1 \in 1..free[r] /\ j-1 \in 1..free[r] /\ c[i-1] = c[j-1]
      BY <1>1, <2>2
    <3>2. i-1 = j-1
      BY <3>1 DEF IsFreeList
    <3> QED
      BY <3>2
  <2> QED
    BY <2>1, <2>2
<1>5. \A i \in 1..free'[r] : d[i] \notin held'
  <2> HIDE DEF d
  <2> QED
    BY <1>1 DEF IsFreeList
<1>6. \A a \in BlocksOf(r) \ held' : \E i \in 1..free'[r] : d[i] = a
  <2> SUFFICES ASSUME NEW a \in BlocksOf(r) \ held'
               PROVE  \E i \in 1..(free[r] + 1) : d[i] = a
    OBVIOUS
  <2>1. CASE a = b
    BY <1>1, <2>1
  <2>2. CASE a # b
    <3>1. PICK k \in 1..free[r] : c[k] = a
      BY <2>2 DEF IsFreeList
    <3>2. k+1 \in 1..(free[r] + 1) /\ k+1 # 1 /\ (k+1)-1 = k
      BY <1>1
    <3>3. d[k+1] = c[k]
      BY <3>2
    <3> QED
      BY <3>1, <3>2, <3>3
  <2> QED
    BY <2>1, <2>2
<1>7. \A i \in 1..(free'[r] - 1) : link'[d[i]] = d[i+1]
  <2>0. 1..(free'[r] - 1) = 1..free[r]
    BY <1>1
  <2> SUFFICES ASSUME NEW i \in 1..free[r]
               PROVE  link'[d[i]] = d[i+1]
    BY <2>0
  <2>1. d[i+1] = c[i]
    <3>1. i+1 \in 1..(free[r] + 1) /\ i+1 # 1 /\ (i+1)-1 = i
      BY <1>1
    <3> QED
      BY <3>1
  <2>2. b \in Block /\ link \in [Block -> Word]
    BY DEF TypeOK, Block, BlocksOf
  <2>3. CASE i = 1
    <3>1. link'[b] = outlet[r] /\ c[1] = outlet[r]
      BY <1>1, <2>2, <2>3 DEF IsFreeList
    <3> QED
      BY <1>1, <2>1, <2>3, <3>1
  <2>4. CASE i # 1
    <3>1. i \in 1..(free[r] + 1) /\ i-1 \in 1..(free[r] - 1) /\ i-1 \in 1..free[r] /\ (i-1)+1 = i
      BY <1>1, <2>4
    <3>2. d[i] = c[i-1]
      BY <1>1, <2>4, <3>1
    <3>3. c[i-1] \in Block /\ c[i-1] # b
      BY <1>3, <3>1 DEF Block, BlocksOf
    <3>4. link'[c[i-1]] = link[c[i-1]]
      BY <2>2, <3>3
    <3>5. link[c[i-1]] = c[(i-1)+1]
      BY <3>1 DEF IsFreeList
    <3> HIDE DEF d
    <3> QED
      BY <2>1, <3>1, <3>2, <3>4, <3>5
  <2> QED
    BY <2>3, <2>4
<1> HIDE DEF d
<1> QED
  BY <1>1, <1>2, <1>4, <1>5, <1>6, <1>7 DEF IsFreeList

\* A block handed out or taken back changes its pool's count by one.
LEMMA CountUp ==
  ASSUME NEW r \in Region, NEW b \in BlocksOf(r), b \notin held
  PROVE  Cardinality((held \cup {b}) \cap BlocksOf(r)) = Cardinality(held \cap BlocksOf(r)) + 1
<1>1. (held \cup {b}) \cap BlocksOf(r) = (held \cap BlocksOf(r)) \cup {b}
  OBVIOUS
<1> QED
  BY <1>1, BlocksAreFinite, FS_AddElement

\* The same for a block that a holder gives back.
LEMMA CountDown ==
  ASSUME NEW r \in Region, NEW b \in BlocksOf(r), b \in held
  PROVE  Cardinality((held \ {b}) \cap BlocksOf(r)) = Cardinality(held \cap BlocksOf(r)) - 1
<1>1. (held \ {b}) \cap BlocksOf(r) = (held \cap BlocksOf(r)) \ {b}
  OBVIOUS
<1>2. b \in held \cap BlocksOf(r)
  OBVIOUS
<1> QED
  BY <1>1, <1>2, BlocksAreFinite, FS_RemoveElement

\* aqua_request_next_block, a pool of the chain having room: its list loses its
\* first block and its counters move by one; no other pool changes.
LEMMA RequestFromPoolKeeps == IInv /\ RequestFromPool => IInv'
<1> SUFFICES ASSUME IInv, RequestFromPool PROVE IInv'
  OBVIOUS
<1> USE NAssumption, JunkAssumption
<1>1. PICK i \in DOMAIN pools :
        /\ FirstWithRoom(i)
        /\ outlet[pools[i]] \in Block
        /\ outlet' = [outlet EXCEPT ![pools[i]] = link[outlet[pools[i]]]]
        /\ used' = [used EXCEPT ![pools[i]] = @ + 1]
        /\ free' = [free EXCEPT ![pools[i]] = @ - 1]
        /\ Receives(outlet[pools[i]])
  BY DEF RequestFromPool
<1> DEFINE r == pools[i]
           ptr == outlet[r]
<1>2. /\ TypeOK /\ Running /\ status = "running"
      /\ UNCHANGED <<pools, live, link, status>>
      /\ Running'
  BY DEF RequestFromPool, IInv, Running
<1>3. r \in live /\ r \in Region /\ free[r] > 0 /\ free[r] \in 0..N /\ used[r] \in 0..N
  BY <1>1, <1>2 DEF IInv, ChainIsLive, TypeOK, FirstWithRoom
<1>4. PICK c \in [1..free[r] -> BlocksOf(r)] : IsFreeList(r, c)
  BY <1>2, <1>3 DEF IInv, ListsAreSound
<1>5. ptr \in BlocksOf(r) /\ ptr \notin held
  <2>1. 1 \in 1..free[r] /\ c[1] = ptr
    BY <1>3, <1>4 DEF IsFreeList
  <2> QED
    BY <1>4, <2>1 DEF IsFreeList
<1>6. ptr \in Block /\ ptr[1] = r
  BY <1>5, <1>3 DEF BlocksOf, Block
<1>7. /\ held' = held \cup {ptr}
      /\ pinned' = IF pinned = NoBlock THEN ptr ELSE pinned
      /\ free'[r] = free[r] - 1 /\ used'[r] = used[r] + 1
      /\ outlet'[r] = link[ptr]
      /\ \A q \in Region \ {r} : free'[q] = free[q] /\ used'[q] = used[q] /\ outlet'[q] = outlet[q]
  BY <1>1, <1>2, <1>3 DEF Receives, TypeOK
<1>8. used[r] = Cardinality(held \cap BlocksOf(r)) /\ free[r] = N - used[r]
  BY <1>2, <1>3 DEF IInv, CountsAreExact
<1> HIDE DEF r, ptr
<1>9. TypeOK'
  <2>1. free[r] - 1 \in 0..N /\ used[r] + 1 \in 0..N
    BY <1>3, <1>8
  <2>2. link[ptr] \in Word
    BY <1>2, <1>6 DEF TypeOK
  <2>3. free' \in [Region -> 0..N]
    BY <1>1, <1>2, <1>3, <2>1 DEF TypeOK, r
  <2>4. used' \in [Region -> 0..N]
    BY <1>1, <1>2, <1>3, <2>1 DEF TypeOK, r
  <2>5. outlet' \in [Region -> Word]
    BY <1>1, <1>2, <1>3, <2>2 DEF TypeOK, r, ptr
  <2> QED
    BY <1>2, <1>6, <1>7, <2>3, <2>4, <2>5 DEF TypeOK
<1>10. ChainIsLive'
  BY <1>2, <1>3, <1>6, <1>7 DEF IInv, ChainIsLive
<1>11. ChainIsInjective'
  BY <1>2 DEF IInv, ChainIsInjective
<1>12. \A q \in Region \ {r} : held' \cap BlocksOf(q) = held \cap BlocksOf(q)
                               /\ BlocksOf(q) \ held' = BlocksOf(q) \ held
  BY <1>6, <1>7 DEF BlocksOf
<1>13. CountsAreExact'
  <2> SUFFICES ASSUME NEW q \in live
               PROVE  used'[q] = Cardinality(held' \cap BlocksOf(q)) /\ free'[q] = N - used'[q]
    BY <1>2 DEF CountsAreExact
  <2>1. q \in Region
    BY <1>2 DEF TypeOK
  <2>2. CASE q = r
    BY <1>3, <1>5, <1>7, <1>8, <2>2, CountUp
  <2>3. CASE q # r
    BY <1>2, <1>7, <1>12, <2>1, <2>3 DEF IInv, CountsAreExact
  <2> QED
    BY <2>2, <2>3
<1>14. UnmappedIsUnused'
  BY <1>2, <1>3, <1>7 DEF IInv, UnmappedIsUnused
<1>15. ListsAreSound'
  <2> SUFFICES ASSUME NEW q \in live
               PROVE  \E d \in [1..free'[q] -> BlocksOf(q)] : IsFreeList(q, d)'
    BY <1>2 DEF ListsAreSound
  <2>1. q \in Region
    BY <1>2 DEF TypeOK
  <2>2. CASE q = r
    BY <1>2, <1>3, <1>4, <1>7, <2>2, ListPopped DEF ptr
  <2>3. CASE q # r
    <3>1. PICK d \in [1..free[q] -> BlocksOf(q)] : IsFreeList(q, d)
      BY <1>2 DEF IInv, ListsAreSound
    <3>2. IsFreeList(q, d)'
      BY <1>2, <1>7, <1>12, <2>1, <2>3, <3>1, ListKept
    <3> QED
      BY <1>7, <2>1, <2>3, <3>1, <3>2
  <2> QED
    BY <2>2, <2>3
<1>16. PinnedInFirstPool'
  <2>1. CASE pinned = NoBlock
    <3>1. Len(pools) = 1 /\ i = 1
      BY <1>1, <1>2, <2>1 DEF IInv, PinnedInFirstPool, TypeOK
    <3> QED
      BY <1>2, <1>6, <1>7, <2>1, <3>1 DEF PinnedInFirstPool, r
  <2>2. CASE pinned # NoBlock
    BY <1>2, <1>7, <2>2 DEF IInv, PinnedInFirstPool
  <2> QED
    BY <2>1, <2>2
<1> QED
  BY <1>2, <1>9, <1>10, <1>11, <1>13, <1>14, <1>15, <1>16
     DEF IInv, NeverUnmanaged, TeardownFreesAll

\* aqua_request_next_block, every pool being full: a fresh pool at the end of
\* the chain, whose first block is handed out at once.
LEMMA RequestNewPoolKeeps == IInv /\ RequestNewPool => IInv'
<1> SUFFICES ASSUME IInv, RequestNewPool PROVE IInv'
  OBVIOUS
<1> USE NAssumption, JunkAssumption
<1>1. PICK r \in Region \ live :
        /\ pools' = Append(pools, r)
        /\ live' = live \cup {r}
        /\ link' = Threaded(r)
        /\ outlet' = [outlet EXCEPT ![r] = Threaded(r)[<<r, 1>>]]
        /\ used' = [used EXCEPT ![r] = 1]
        /\ free' = [free EXCEPT ![r] = N - 1]
        /\ Receives(<<r, 1>>)
  BY DEF RequestNewPool
<1> DEFINE b == <<r, 1>>
<1>2. /\ TypeOK /\ Running /\ status = "running"
      /\ status' = status /\ Running'
  BY DEF RequestNewPool, IInv, Running
<1>3. b \in Block /\ b \in BlocksOf(r) /\ b[1] = r /\ r \in Region /\ r \notin live
  BY <1>1 DEF Block, BlocksOf
<1>4. \A a \in held : a[1] \in live
  BY <1>2 DEF IInv, ChainIsLive
<1>5. held \cap BlocksOf(r) = {} /\ b \notin held
  BY <1>3, <1>4 DEF BlocksOf
<1>6. /\ held' = held \cup {b}
      /\ pinned' = IF pinned = NoBlock THEN b ELSE pinned
      /\ free'[r] = N - 1 /\ used'[r] = 1
      /\ outlet'[r] = link'[b]
      /\ \A q \in Region \ {r} : free'[q] = free[q] /\ used'[q] = used[q] /\ outlet'[q] = outlet[q]
  BY <1>1, <1>2, <1>3 DEF Receives, TypeOK
<1>7. /\ \A a \in Block : a[1] # r => link'[a] = link[a]
      /\ \A k \in 1..(N-1) : link'[<<r, k>>] = <<r, k+1>>
      /\ link' \in [Block -> Word]
  <2>1. link' = [a \in Block |-> IF a[1] # r THEN link[a]
                   ELSE IF a[2] < N THEN <<r, a[2] + 1>> ELSE Junk]
    BY <1>1 DEF Threaded
  <2>2. \A a \in Block : a[1] = r /\ a[2] < N => <<r, a[2] + 1>> \in Word
    BY <1>3 DEF Block, Word
  <2>3. \A a \in Block : link[a] \in Word /\ Junk \in Word
    BY <1>2 DEF TypeOK, Word
  <2>4. \A k \in 1..(N-1) : <<r, k>> \in Block
    BY <1>3 DEF Block
  <2> QED
    BY <2>1, <2>2, <2>3, <2>4
<1>8. /\ Len(pools') = Len(pools) + 1 /\ Len(pools) \in Nat
      /\ DOMAIN pools' = 1..(Len(pools) + 1) /\ DOMAIN pools = 1..Len(pools)
      /\ \A k \in 1..Len(pools) : pools'[k] = pools[k] /\ pools[k] \in live
      /\ pools'[Len(pools) + 1] = r
      /\ pools' \in Seq(Region)
  BY <1>1, <1>2, <1>3 DEF TypeOK, IInv, ChainIsLive
<1> HIDE DEF b
<1>9. TypeOK'
  <2>1. free' \in [Region -> 0..N] /\ used' \in [Region -> 0..N]
    BY <1>1, <1>2 DEF TypeOK
  <2>2. outlet' \in [Region -> Word]
    BY <1>1, <1>2, <1>3, <1>6, <1>7 DEF TypeOK
  <2> QED
    BY <1>1, <1>2, <1>3, <1>6, <1>7, <1>8, <2>1, <2>2 DEF TypeOK
<1>10. ChainIsLive'
  <2>1. {pools[k] : k \in DOMAIN pools} = live
    BY <1>2 DEF IInv, ChainIsLive
  <2>2. {pools'[k] : k \in DOMAIN pools'} = live \cup {r}
    BY <1>8, <2>1
  <2> QED
    BY <1>1, <1>3, <1>4, <1>6, <2>2 DEF ChainIsLive
<1>11. ChainIsInjective'
  <2> SUFFICES ASSUME NEW i \in DOMAIN pools', NEW j \in DOMAIN pools', pools'[i] = pools'[j]
               PROVE  i = j
    BY DEF ChainIsInjective
  <2>1. CASE i \in 1..Len(pools) /\ j \in 1..Len(pools)
    BY <1>2, <1>8, <2>1 DEF IInv, ChainIsInjective
  <2>2. CASE ~(i \in 1..Len(pools) /\ j \in 1..Len(pools))
    BY <1>3, <1>8, <2>2
  <2> QED
    BY <2>1, <2>2
<1>12. \A q \in Region \ {r} : held' \cap BlocksOf(q) = held \cap BlocksOf(q)
                               /\ BlocksOf(q) \ held' = BlocksOf(q) \ held
  BY <1>3, <1>6 DEF BlocksOf
<1>13. CountsAreExact'
  <2> SUFFICES ASSUME NEW q \in live'
               PROVE  used'[q] = Cardinality(held' \cap BlocksOf(q)) /\ free'[q] = N - used'[q]
    BY DEF CountsAreExact
  <2>1. q \in live \cup {r} /\ q \in Region
    BY <1>1, <1>2, <1>3 DEF TypeOK
  <2>2. CASE q = r
    <3>1. Cardinality(held' \cap BlocksOf(r)) = Cardinality(held \cap BlocksOf(r)) + 1
      BY <1>3, <1>5, <1>6, CountUp
    <3>2. Cardinality(held \cap BlocksOf(r)) = 0
      BY <1>5, FS_EmptySet
    <3> QED
      BY <1>6, <2>2, <3>1, <3>2
  <2>3. CASE q # r
    BY <1>2, <1>6, <1>12, <2>1, <2>3 DEF IInv, CountsAreExact
  <2> QED
    BY <2>2, <2>3
<1>14. UnmappedIsUnused'
  BY <1>1, <1>2, <1>6 DEF IInv, UnmappedIsUnused
<1>15. ListsAreSound'
  <2> SUFFICES ASSUME NEW q \in live'
               PROVE  \E d \in [1..free'[q] -> BlocksOf(q)] : IsFreeList(q, d)'
    BY DEF ListsAreSound
  <2>1. q \in live \cup {r} /\ q \in Region
    BY <1>1, <1>2, <1>3 DEF TypeOK
  <2>2. CASE q = r
    <3> DEFINE d == [k \in 1..(N-1) |-> <<r, k+1>>]
    <3>1. d \in [1..(N-1) -> BlocksOf(r)]
      BY DEF BlocksOf
    <3>2. \A k \in 1..(N-1) : d[k] = <<r, k+1>> /\ d[k] # b /\ d[k] \notin held
      <4>1. \A k \in 1..(N-1) : d[k] = <<r, k+1>>
        OBVIOUS
      <4>2. \A k \in 1..(N-1) : d[k] # b
        BY <4>1 DEF b
      <4>3. \A k \in 1..(N-1) : d[k] \in BlocksOf(r)
        BY <3>1
      <4> HIDE DEF d
      <4> QED
        BY <1>5, <4>1, <4>2, <4>3
    <3>3. \A i, j \in 1..(N-1) : d[i] = d[j] => i = j
      OBVIOUS
    <3>4. \A a \in BlocksOf(r) \ held' : \E k \in 1..(N-1) : d[k] = a
      <4> SUFFICES ASSUME NEW a \in BlocksOf(r) \ held'
                   PROVE  \E k \in 1..(N-1) : d[k] = a
        OBVIOUS
      <4>1. a = <<r, a[2]>> /\ a[2] \in 1..N /\ a # b
        BY <1>6 DEF BlocksOf
      <4>2. a[2] # 1
        BY <4>1 DEF b
      <4>3. a[2] - 1 \in 1..(N-1) /\ (a[2] - 1) + 1 = a[2]
        BY <4>1, <4>2
      <4>4. d[a[2] - 1] = <<r, a[2]>>
        BY <4>3
      <4> HIDE DEF d
      <4> QED
        BY <4>1, <4>3, <4>4
    <3>5. N - 1 > 0 => d[1] = outlet'[r]
      <4> SUFFICES ASSUME N - 1 > 0 PROVE d[1] = outlet'[r]
        OBVIOUS
      <4>1. 1 \in 1..(N-1)
        OBVIOUS
      <4> QED
        BY <1>6, <1>7, <4>1 DEF b
    <3>6. \A k \in 1..((N-1) - 1) : link'[d[k]] = d[k+1]
      <4> SUFFICES ASSUME NEW k \in 1..((N-1) - 1) PROVE link'[d[k]] = d[k+1]
        OBVIOUS
      <4>1. k \in 1..(N-1) /\ k+1 \in 1..(N-1)
        OBVIOUS
      <4>2. d[k] = <<r, k+1>> /\ d[k+1] = <<r, (k+1)+1>>
        BY <4>1
      <4> HIDE DEF d
      <4> QED
        BY <1>7, <4>1, <4>2
    <3>7. \A k \in 1..(N-1) : d[k] \notin held'
      <4> HIDE DEF d
      <4> QED
        BY <1>6, <3>2
    <3> HIDE DEF d
    <3>8. IsFreeList(r, d)'
      BY <1>6, <3>1, <3>3, <3>4, <3>5, <3>6, <3>7 DEF IsFreeList
    <3> QED
      BY <1>6, <2>2, <3>1, <3>8
  <2>3. CASE q # r
    <3>1. PICK d \in [1..free[q] -> BlocksOf(q)] : IsFreeList(q, d)
      BY <1>2, <2>1, <2>3 DEF IInv, ListsAreSound
    <3>2. \A a \in BlocksOf(q) \ held : link'[a] = link[a]
      BY <1>7, <2>1, <2>3 DEF Block, BlocksOf
    <3>3. IsFreeList(q, d)'
      BY <1>2, <1>6, <1>12, <2>1, <2>3, <3>1, <3>2, ListKept
    <3> QED
      BY <1>6, <2>1, <2>3, <3>1, <3>3
  <2> QED
    BY <2>2, <2>3
<1>16. PinnedInFirstPool'
  <2>1. CASE pinned = NoBlock
    <3>1. Len(pools) = 1 /\ pools[1] \in live /\ held = {}
      BY <1>2, <1>8, <2>1 DEF IInv, PinnedInFirstPool, TypeOK
    <3>2. free[pools[1]] = 0
      BY <1>8, <3>1 DEF RequestNewPool
    <3>3. Cardinality(held \cap BlocksOf(pools[1])) = 0
      BY <3>1, FS_EmptySet
    <3> QED
      BY <1>2, <3>1, <3>2, <3>3 DEF IInv, CountsAreExact
  <2>2. CASE pinned # NoBlock
    BY <1>2, <1>6, <1>8, <2>2 DEF IInv, PinnedInFirstPool
  <2> QED
    BY <2>1, <2>2
<1> QED
  BY <1>2, <1>9, <1>10, <1>11, <1>13, <1>14, <1>15, <1>16
     DEF IInv, NeverUnmanaged, TeardownFreesAll

\* The holder of a block writes its first word: no free block is touched, so
\* every list stays as it was.
LEMMA WriteKeeps ==
  ASSUME IInv, NEW b \in Block, NEW w \in Word, Write(b, w)
  PROVE  IInv'
<1>1. /\ TypeOK /\ Running /\ b \in held
      /\ link' = [link EXCEPT ![b] = w]
      /\ UNCHANGED <<pools, live, outlet, free, used, held, pinned, status>>
  BY DEF Write, IInv, Running
<1>2. TypeOK'
  BY <1>1 DEF TypeOK
<1>3. ListsAreSound'
  <2> SUFFICES ASSUME NEW q \in live
               PROVE  \E d \in [1..free[q] -> BlocksOf(q)] : IsFreeList(q, d)'
    BY <1>1 DEF ListsAreSound
  <2>1. q \in Region
    BY <1>1 DEF TypeOK
  <2>2. PICK d \in [1..free[q] -> BlocksOf(q)] : IsFreeList(q, d)
    BY <1>1 DEF IInv, ListsAreSound
  <2>3. \A a \in BlocksOf(q) \ held : link'[a] = link[a]
    BY <1>1, <2>1 DEF TypeOK, Block, BlocksOf
  <2>4. IsFreeList(q, d)'
    BY <1>1, <2>1, <2>2, <2>3, ListKept
  <2> QED
    BY <2>2, <2>4
<1>4. ChainIsLive' /\ ChainIsInjective' /\ PinnedInFirstPool'
  BY <1>1 DEF IInv, ChainIsLive, ChainIsInjective, PinnedInFirstPool, Running
<1>5. CountsAreExact' /\ UnmappedIsUnused'
  BY <1>1 DEF IInv, CountsAreExact, UnmappedIsUnused, Running
<1>6. NeverUnmanaged' /\ TeardownFreesAll'
  BY <1>1 DEF IInv, NeverUnmanaged, TeardownFreesAll, Running
<1> QED
  BY <1>2, <1>3, <1>4, <1>5, <1>6 DEF IInv

\* aqua_teardown: nothing is mapped afterwards.
LEMMA TeardownKeeps == IInv /\ Teardown => IInv'
<1> SUFFICES ASSUME IInv, Teardown PROVE IInv'
  OBVIOUS
<1>1. TypeOK /\ Running /\ ~Running' /\ status' = "down"
  BY DEF IInv, Teardown, Running
<1>2. live' = {}
  BY <1>1 DEF IInv, ChainIsLive, Teardown
<1>3. TypeOK'
  BY <1>1, <1>2 DEF TypeOK, Teardown
<1> QED
  BY <1>1, <1>2, <1>3 DEF IInv, ChainIsLive, ChainIsInjective, CountsAreExact,
     UnmappedIsUnused, ListsAreSound, PinnedInFirstPool, NeverUnmanaged, TeardownFreesAll

\* A release never meets an unknown block, and the pool it finds is the only
\* one of the chain with the block's address.
LEMMA ReleaseFindsPool ==
  ASSUME IInv, NEW b \in Block, Release(b)
  PROVE  \E i \in DOMAIN pools :
            /\ pools[i] = b[1]
            /\ link' = [link EXCEPT ![b] = outlet[b[1]]]
            /\ outlet' = [outlet EXCEPT ![b[1]] = b]
            /\ used' = [used EXCEPT ![b[1]] = @ - 1]
            /\ free' = [free EXCEPT ![b[1]] = @ + 1]
            /\ IF used[b[1]] = 1
               THEN pools' = Unlink(i) /\ live' = live \ {b[1]}
               ELSE UNCHANGED <<pools, live>>
            /\ held' = held \ {b}
            /\ UNCHANGED <<pinned, status>>
<1>1. b \in held /\ Running
  BY DEF Release, Running
<1>2. \E i \in DOMAIN pools : pools[i] = b[1]
  BY <1>1 DEF IInv, ChainIsLive
<1> QED
  BY <1>2 DEF Release, IsPoolOf

\* aqua_release: the block goes back in front of its pool's list, and a pool
\* other than the first that has no block out leaves the chain.
LEMMA ReleaseKeeps ==
  ASSUME IInv, NEW b \in Block, Release(b)
  PROVE  IInv'
<1> USE NAssumption, JunkAssumption
<1> DEFINE r == b[1]
<1>1. PICK i \in DOMAIN pools :
            /\ pools[i] = r
            /\ link' = [link EXCEPT ![b] = outlet[r]]
            /\ outlet' = [outlet EXCEPT ![r] = b]
            /\ used' = [used EXCEPT ![r] = @ - 1]
            /\ free' = [free EXCEPT ![r] = @ + 1]
            /\ IF used[r] = 1
               THEN pools' = Unlink(i) /\ live' = live \ {r}
               ELSE UNCHANGED <<pools, live>>
            /\ held' = held \ {b}
            /\ UNCHANGED <<pinned, status>>
  BY ReleaseFindsPool
<1>2. /\ TypeOK /\ Running /\ status = "running" /\ Running'
      /\ b \in held /\ b # pinned
  BY <1>1 DEF Release, IInv, Running
<1>3. r \in Region /\ b \in BlocksOf(r) /\ r \in live
  BY <1>2 DEF Block, BlocksOf, IInv, ChainIsLive
<1>4. used[r] = Cardinality(held \cap BlocksOf(r)) /\ free[r] = N - used[r]
  BY <1>2, <1>3 DEF IInv, CountsAreExact
<1>5. Cardinality(held' \cap BlocksOf(r)) = used[r] - 1
  BY <1>1, <1>2, <1>3, <1>4, CountDown
<1>6. used[r] \in 0..N /\ used[r] - 1 \in 0..N /\ free[r] + 1 \in 0..N
  <2>1. Cardinality(held' \cap BlocksOf(r)) \in Nat
    BY <1>3, BlocksAreFinite, FS_CardinalityType
  <2> QED
    BY <1>2, <1>3, <1>4, <1>5, <2>1 DEF TypeOK
<1>7. used[r] = 1 => held' \cap BlocksOf(r) = {}
  BY <1>3, <1>5, BlocksAreFinite, FS_EmptySet
<1>8. /\ free'[r] = free[r] + 1 /\ used'[r] = used[r] - 1 /\ outlet'[r] = b
      /\ \A q \in Region \ {r} : free'[q] = free[q] /\ used'[q] = used[q] /\ outlet'[q] = outlet[q]
  BY <1>1, <1>2, <1>3 DEF TypeOK
<1>9. pinned \in held' /\ Len(pools) > 0 /\ pinned[1] = pools[1]
  BY <1>1, <1>2 DEF IInv, PinnedInFirstPool, TypeOK
<1>10. DOMAIN pools = 1..Len(pools) /\ Len(pools) \in Nat
  BY <1>2 DEF TypeOK
\* The pool that empties is never the first: that one has the pinned block.
<1>11. used[r] = 1 => i # 1
  <2> SUFFICES ASSUME used[r] = 1, i = 1 PROVE FALSE
    OBVIOUS
  <2>1. pinned \in BlocksOf(r)
    BY <1>1, <1>2, <1>9 DEF TypeOK, Block, BlocksOf
  <2> QED
    BY <1>7, <1>9, <2>1
<1>12. used[r] = 1 =>
         /\ DOMAIN pools' = 1..(Len(pools) - 1) /\ Len(pools') = Len(pools) - 1
         /\ \A k \in 1..(Len(pools) - 1) : pools'[k] = IF k < i THEN pools[k] ELSE pools[k+1]
         /\ pools' \in Seq(Region)
  <2> SUFFICES ASSUME used[r] = 1
               PROVE  /\ DOMAIN pools' = 1..(Len(pools) - 1) /\ Len(pools') = Len(pools) - 1
                      /\ \A k \in 1..(Len(pools) - 1) : pools'[k] = IF k < i THEN pools[k] ELSE pools[k+1]
                      /\ pools' \in Seq(Region)
    OBVIOUS
  <2>1. pools' = [k \in 1..(Len(pools) - 1) |-> IF k < i THEN pools[k] ELSE pools[k+1]]
    BY <1>1, <1>11 DEF Unlink
  <2>2. Len(pools) - 1 \in Nat
    BY <1>9, <1>10
  <2>3. \A k \in 1..(Len(pools) - 1) : pools[k] \in Region /\ pools[k+1] \in Region
    <3>1. \A k \in 1..Len(pools) : pools[k] \in Region
      BY <1>2 DEF TypeOK
    <3>2. \A k \in 1..(Len(pools) - 1) : k \in 1..Len(pools) /\ k+1 \in 1..Len(pools)
      BY <1>10
    <3> QED
      BY <3>1, <3>2
  <2> QED
    BY <2>1, <2>2, <2>3
<1> HIDE DEF r
<1>13. TypeOK'
  <2>1. free' \in [Region -> 0..N] /\ used' \in [Region -> 0..N]
    BY <1>1, <1>2, <1>3, <1>6 DEF TypeOK
  <2>2. outlet' \in [Region -> Word] /\ link' \in [Block -> Word]
    BY <1>1, <1>2, <1>3 DEF TypeOK, Word
  <2>3. pools' \in Seq(Region) /\ live' \in SUBSET Region
    BY <1>1, <1>2, <1>12 DEF TypeOK
  <2> QED
    BY <1>1, <1>2, <2>1, <2>2, <2>3 DEF TypeOK
<1>14. {pools'[k] : k \in DOMAIN pools'} = live'
  <2>1. {pools[k] : k \in DOMAIN pools} = live
    BY <1>2 DEF IInv, ChainIsLive
  <2>2. CASE used[r] # 1
    BY <1>1, <2>1, <2>2
  <2>3. CASE used[r] = 1
    <3>1. ASSUME NEW k \in DOMAIN pools' PROVE pools'[k] \in live \ {r}
      <4>1. k \in 1..(Len(pools) - 1) /\ k \in 1..Len(pools) /\ k+1 \in 1..Len(pools)
        BY <1>10, <1>12, <2>3, <3>1
      <4>2. CASE k < i
        BY <1>1, <1>2, <1>10, <1>12, <2>1, <2>3, <4>1, <4>2 DEF IInv, ChainIsInjective
      <4>3. CASE ~(k < i)
        <5>1. pools'[k] = pools[k+1] /\ k+1 # i
          BY <1>10, <1>12, <2>3, <4>1, <4>3
        <5> QED
          BY <1>1, <1>2, <1>10, <2>1, <4>1, <5>1 DEF IInv, ChainIsInjective
      <4> QED
        BY <4>2, <4>3
    <3>2. ASSUME NEW q \in live \ {r} PROVE \E k \in DOMAIN pools' : pools'[k] = q
      <4>1. PICK j \in DOMAIN pools : pools[j] = q
        BY <2>1, <3>2
      <4>2. j # i
        BY <1>1, <3>2, <4>1
      <4>3. CASE j < i
        <5>1. j \in 1..(Len(pools) - 1)
          BY <1>10, <4>1, <4>3
        <5> QED
          BY <1>12, <2>3, <4>1, <4>3, <5>1
      <4>4. CASE j > i
        <5>1. j-1 \in 1..(Len(pools) - 1) /\ ~(j-1 < i) /\ (j-1)+1 = j
          BY <1>10, <4>1, <4>4
        <5> QED
          BY <1>12, <2>3, <4>1, <5>1
      <4> QED
        BY <1>10, <4>1, <4>2, <4>3, <4>4
    <3> QED
      BY <1>1, <2>3, <3>1, <3>2
  <2> QED
    BY <2>2, <2>3
<1>15. ChainIsLive'
  <2>1. \A a \in held : a[1] \in live
    BY <1>2 DEF IInv, ChainIsLive
  <2>2. CASE used[r] # 1
    BY <1>1, <1>14, <2>1, <2>2 DEF ChainIsLive
  <2>3. CASE used[r] = 1
    <3>1. \A a \in held' : a[1] # r
      BY <1>1, <1>2, <1>7, <2>3 DEF TypeOK, Block, BlocksOf
    <3> QED
      BY <1>1, <1>14, <2>1, <2>3, <3>1 DEF ChainIsLive
  <2> QED
    BY <2>2, <2>3
<1>16. ChainIsInjective'
  <2>1. CASE used[r] # 1
    BY <1>1, <1>2, <2>1 DEF IInv, ChainIsInjective
  <2>2. CASE used[r] = 1
    <3> SUFFICES ASSUME NEW j \in DOMAIN pools', NEW k \in DOMAIN pools', pools'[j] = pools'[k]
                 PROVE  j = k
      BY DEF ChainIsInjective
    <3> DEFINE at(m) == IF m < i THEN m ELSE m+1
    <3>1. j \in 1..(Len(pools) - 1) /\ k \in 1..(Len(pools) - 1)
      BY <1>12, <2>2
    <3>2. at(j) \in DOMAIN pools /\ at(k) \in DOMAIN pools
      BY <1>10, <3>1
    <3>3. pools[at(j)] = pools[at(k)]
      BY <1>12, <2>2, <3>1
    <3>4. at(j) = at(k)
      BY <1>2, <3>2, <3>3 DEF IInv, ChainIsInjective
    <3> QED
      BY <1>10, <3>1, <3>4
  <2> QED
    BY <2>1, <2>2
<1>17. \A q \in Region \ {r} : held' \cap BlocksOf(q) = held \cap BlocksOf(q)
                               /\ BlocksOf(q) \ held' = BlocksOf(q) \ held
  BY <1>1, <1>3 DEF BlocksOf
<1>18. live' \subseteq live
  BY <1>1
<1>19. CountsAreExact'
  <2> SUFFICES ASSUME NEW q \in live'
               PROVE  used'[q] = Cardinality(held' \cap BlocksOf(q)) /\ free'[q] = N - used'[q]
    BY DEF CountsAreExact
  <2>1. q \in live /\ q \in Region
    BY <1>2, <1>18 DEF TypeOK
  <2>2. CASE q = r
    BY <1>4, <1>5, <1>6, <1>8, <2>2
  <2>3. CASE q # r
    BY <1>2, <1>8, <1>17, <2>1, <2>3 DEF IInv, CountsAreExact
  <2> QED
    BY <2>2, <2>3
<1>20. UnmappedIsUnused'
  <2> SUFFICES ASSUME NEW q \in Region \ live' PROVE used'[q] = 0
    BY DEF UnmappedIsUnused
  <2>1. CASE q = r
    <3>1. used[r] = 1
      BY <1>1, <1>3, <2>1
    <3> QED
      BY <1>8, <2>1, <3>1
  <2>2. CASE q # r
    BY <1>1, <1>2, <1>8, <2>2 DEF IInv, UnmappedIsUnused
  <2> QED
    BY <2>1, <2>2
<1>21. ListsAreSound'
  <2> SUFFICES ASSUME NEW q \in live'
               PROVE  \E d \in [1..free'[q] -> BlocksOf(q)] : IsFreeList(q, d)'
    BY DEF ListsAreSound
  <2>1. q \in live /\ q \in Region
    BY <1>2, <1>18 DEF TypeOK
  <2>2. PICK c \in [1..free[q] -> BlocksOf(q)] : IsFreeList(q, c)
    BY <1>2, <2>1 DEF IInv, ListsAreSound
  <2>3. CASE q = r
    BY <1>1, <1>2, <1>3, <1>8, <2>2, <2>3, ListPushed
  <2>4. CASE q # r
    <3>1. \A a \in BlocksOf(q) \ held : link'[a] = link[a]
      BY <1>1, <1>2, <2>1 DEF TypeOK, Block, BlocksOf
    <3>2. IsFreeList(q, c)'
      BY <1>2, <1>8, <1>17, <2>1, <2>2, <2>4, <3>1, ListKept
    <3> QED
      BY <1>8, <2>1, <2>2, <2>4, <3>2
  <2> QED
    BY <2>3, <2>4
<1>22. PinnedInFirstPool'
  <2>1. CASE used[r] # 1
    BY <1>1, <1>9, <2>1 DEF PinnedInFirstPool
  <2>2. CASE used[r] = 1
    <3>1. i \in 2..Len(pools) /\ 1 < i /\ 1 \in 1..(Len(pools) - 1)
      BY <1>10, <1>11, <2>2
    <3>2. pools'[1] = pools[1] /\ Len(pools') > 0
      BY <1>10, <1>12, <2>2, <3>1
    <3> QED
      BY <1>1, <1>9, <3>2 DEF PinnedInFirstPool
  <2> QED
    BY <2>1, <2>2
<1> QED
  BY <1>1, <1>2, <1>13, <1>15, <1>16, <1>19, <1>20, <1>21, <1>22
     DEF IInv, NeverUnmanaged, TeardownFreesAll

\* Every operation of the allocator, and every step that changes nothing,
\* keeps the invariant.
LEMMA StepKeeps == IInv /\ [Next]_vars => IInv'
<1> SUFFICES ASSUME IInv, [Next]_vars PROVE IInv'
  OBVIOUS
<1>1. CASE RequestFromPool
  BY <1>1, RequestFromPoolKeeps
<1>2. CASE RequestNewPool
  BY <1>2, RequestNewPoolKeeps
<1>3. CASE Teardown
  BY <1>3, TeardownKeeps
<1>4. ASSUME NEW b \in Block, Release(b) PROVE IInv'
  BY <1>4, ReleaseKeeps
<1>5. ASSUME NEW b \in Block, NEW w \in Word, Write(b, w) PROVE IInv'
  BY <1>5, WriteKeeps
<1>6. CASE UNCHANGED vars
  <2>1. UNCHANGED <<pools, live, link, outlet, free, used, held, pinned, status>>
    BY <1>6 DEF vars
  <2>2. TypeOK' /\ NeverUnmanaged' /\ TeardownFreesAll'
    BY <2>1 DEF IInv, TypeOK, NeverUnmanaged, TeardownFreesAll
  <2>3. ChainIsLive' /\ ChainIsInjective' /\ PinnedInFirstPool'
    BY <2>1 DEF IInv, ChainIsLive, ChainIsInjective, PinnedInFirstPool, Running
  <2>4. CountsAreExact' /\ UnmappedIsUnused'
    BY <2>1 DEF IInv, CountsAreExact, UnmappedIsUnused, Running
  <2>5. ListsAreSound'
    BY <2>1 DEF IInv, ListsAreSound, IsFreeList, Running
  <2> QED
    BY <2>2, <2>3, <2>4, <2>5 DEF IInv
<1> QED
  BY <1>1, <1>2, <1>3, <1>4, <1>5, <1>6 DEF Next, Request

\* The inductive invariant holds in every reachable state of aquarium.c.
THEOREM Inductive == Spec => []IInv
<1>1. Init => IInv
  BY InitEstablishes
<1>2. IInv /\ [Next]_vars => IInv'
  BY StepKeeps
<1> QED
  BY <1>1, <1>2, PTL DEF Spec

\* The first block of a sound free list is free: what aqua_request_next_block
\* returns is held by nobody.
LEMMA IInvImpliesOutletIsFree == IInv => OutletIsFree
<1> SUFFICES ASSUME IInv, Running, NEW r \in live, free[r] > 0
             PROVE  outlet[r] \in BlocksOf(r) \ held
  BY DEF OutletIsFree
<1>1. PICK c \in [1..free[r] -> BlocksOf(r)] : IsFreeList(r, c)
  BY DEF IInv, ListsAreSound
<1>2. free[r] \in Nat /\ 1 \in 1..free[r]
  BY NAssumption DEF IInv, TypeOK
<1> QED
  BY <1>1, <1>2 DEF IsFreeList

\* aqua_request_next_block never hands out a block that is already out, and
\* never follows a word that object data overwrote.
THEOREM OutletAlwaysFree == Spec => []OutletIsFree
<1>1. IInv => OutletIsFree
  BY IInvImpliesOutletIsFree
<1> QED
  BY <1>1, Inductive, PTL

\* aqua_release frees a region only when none of its blocks is out, and the
\* walk from large_pool visits the live pools and no other.
THEOREM ChainAlwaysLive == Spec => []ChainIsLive
<1>1. IInv => ChainIsLive
  BY DEF IInv
<1> QED
  BY <1>1, Inductive, PTL

\* The counters used and free are exact, so used = 0 means that a pool is empty.
THEOREM CountsAlwaysExact == Spec => []CountsAreExact
<1>1. IInv => CountsAreExact
  BY DEF IInv
<1> QED
  BY <1>1, Inductive, PTL

\* aqua_teardown returns every region to malloc.
THEOREM TeardownAlwaysFreesAll == Spec => []TeardownFreesAll
<1>1. IInv => TeardownFreesAll
  BY DEF IInv
<1> QED
  BY <1>1, Inductive, PTL

\* aqua_init gives a store with nothing out.
LEMMA InitRefines == Init => Store!Init
  BY DEF Init, Store!Init

\* A request is a Give from a mapped region, or a GiveFresh that maps one.
LEMMA RequestRefines == IInv /\ Request => Store!Next
<1> USE NAssumption
<1>1. ASSUME IInv, RequestFromPool PROVE Store!Next
  <2>1. PICK i \in DOMAIN pools :
          /\ FirstWithRoom(i)
          /\ used' = [used EXCEPT ![pools[i]] = @ + 1]
          /\ held' = held \cup {outlet[pools[i]]}
    BY <1>1 DEF RequestFromPool, Receives
  <2> DEFINE b == outlet[pools[i]]
  <2>2. Running /\ live' = live
    BY <1>1 DEF RequestFromPool, Running
  <2>3. pools[i] \in live /\ free[pools[i]] > 0
    BY <1>1, <2>1, <2>2 DEF IInv, ChainIsLive, FirstWithRoom
  <2>4. b \in BlocksOf(pools[i]) \ held
    BY <1>1, <2>2, <2>3, IInvImpliesOutletIsFree DEF OutletIsFree
  <2>5. b \in Block /\ b[1] = pools[i] /\ b \notin held
    BY <1>1, <2>3, <2>4 DEF BlocksOf, Block, IInv, TypeOK
  <2> HIDE DEF b
  <2>6. held' = held \cup {b} /\ used' = [used EXCEPT ![b[1]] = @ + 1]
    BY <2>1, <2>5 DEF b
  <2>7. Store!Give(b)
    BY <2>2, <2>3, <2>5, <2>6 DEF Store!Give
  <2> QED
    BY <2>5, <2>7 DEF Store!Next, Store!Block, Block
<1>2. ASSUME IInv, RequestNewPool PROVE Store!Next
  <2>1. PICK r \in Region \ live :
          /\ live' = live \cup {r}
          /\ used' = [used EXCEPT ![r] = 1]
          /\ held' = held \cup {<<r, 1>>}
    BY <1>2 DEF RequestNewPool, Receives
  <2> DEFINE b == <<r, 1>>
  <2>2. Running /\ \A k \in DOMAIN pools : free[pools[k]] = 0
    BY <1>2 DEF RequestNewPool, Running
  <2>3. \A q \in live : used[q] = N
    <3> SUFFICES ASSUME NEW q \in live PROVE used[q] = N
      OBVIOUS
    <3>1. free[q] = 0
      BY <1>2, <2>2 DEF IInv, ChainIsLive
    <3>2. free[q] = N - used[q] /\ used[q] \in 0..N
      BY <1>2, <2>2 DEF IInv, CountsAreExact, TypeOK
    <3> QED
      BY <3>1, <3>2
  <2>4. used[r] = 0 /\ used \in [Region -> 0..N]
    BY <1>2, <2>1, <2>2 DEF IInv, UnmappedIsUnused, TypeOK
  <2>5. used' = [used EXCEPT ![b[1]] = @ + 1]
    BY <2>1, <2>4
  <2>6. b \notin held
    BY <1>2, <2>1, <2>2 DEF IInv, ChainIsLive
  <2>7. Store!GiveFresh(b)
    BY <2>1, <2>3, <2>5, <2>6 DEF Store!GiveFresh
  <2> QED
    BY <2>1, <2>7 DEF Store!Next, Store!Block
<1> QED
  BY <1>1, <1>2 DEF Request

\* A release is a Take, and unmaps exactly when no block of the region is out.
LEMMA ReleaseRefines ==
  ASSUME IInv, NEW b \in Block, Release(b)
  PROVE  Store!Next
<1>1. /\ b \in held /\ Running /\ b[1] \in Region /\ b[1] \in live
      /\ TypeOK
  BY DEF Release, Running, IInv, ChainIsLive, Block
<1>2. /\ used' = [used EXCEPT ![b[1]] = @ - 1]
      /\ held' = held \ {b}
      /\ live' = IF used[b[1]] = 1 THEN live \ {b[1]} ELSE live
  BY ReleaseFindsPool
<1>3. used[b[1]] = Cardinality(held \cap BlocksOf(b[1]))
  BY <1>1 DEF IInv, CountsAreExact
<1>4. b \in BlocksOf(b[1]) /\ \A c \in held : c[1] = b[1] <=> c \in BlocksOf(b[1])
  BY <1>1 DEF TypeOK, Block, BlocksOf
<1>5. Cardinality(held' \cap BlocksOf(b[1])) = used[b[1]] - 1
  BY <1>1, <1>2, <1>3, <1>4, CountDown
<1>6. IsFiniteSet(held' \cap BlocksOf(b[1])) /\ used[b[1]] \in 0..N
  BY <1>1, BlocksAreFinite DEF TypeOK
<1>7. used[b[1]] = 1 <=> held' \cap BlocksOf(b[1]) = {}
  BY <1>5, <1>6, FS_EmptySet, NAssumption
<1>8. live' = IF \E c \in held \ {b} : c[1] = b[1] THEN live ELSE live \ {b[1]}
  BY <1>2, <1>4, <1>7
<1>9. Store!Take(b)
  BY <1>1, <1>2, <1>8 DEF Store!Take
<1> QED
  BY <1>9 DEF Store!Next, Store!Block, Block

\* aquarium.c implements BlockStore: each request gives out one block nobody
\* holds, from a mapped region while there is one with room, and regions come
\* and go with their blocks.
THEOREM RefinesStore == Spec => StoreSpec
<1>1. Init => Store!Init
  BY InitRefines
<1>2. IInv /\ [Next]_vars => [Store!Next]_(Store!vars)
  <2> SUFFICES ASSUME IInv, [Next]_vars PROVE [Store!Next]_(Store!vars)
    OBVIOUS
  <2>1. CASE Request
    BY <2>1, RequestRefines
  <2>2. CASE Teardown
    <3>1. UNCHANGED <<held, used>> /\ live' = {}
      BY <2>2 DEF Teardown, IInv, ChainIsLive, Running
    <3> QED
      BY <3>1 DEF Store!Next, Store!Close
  <2>3. ASSUME NEW b \in Block, Release(b) PROVE Store!Next
    BY <2>3, ReleaseRefines
  <2>4. ASSUME NEW b \in Block, NEW w \in Word, Write(b, w) PROVE UNCHANGED Store!vars
    BY <2>4 DEF Write, Store!vars
  <2>5. CASE UNCHANGED vars
    BY <2>5 DEF vars, Store!vars
  <2> QED
    BY <2>1, <2>2, <2>3, <2>4, <2>5 DEF Next
<1> QED
  BY <1>1, <1>2, Inductive, PTL DEF Spec, StoreSpec, Store!Spec

=============================================================================

-------------------------- MODULE ContainersProofs --------------------------
(***************************************************************************)
(* Theorems about the hash containers, for any keys, addresses and calls:  *)
(* the collector's pool (GcHashSet) is a set, a Table (HashTable) is a     *)
(* Dictionary with sound chains.                                           *)
(***************************************************************************)
EXTENDS GcHashSet, HashTable, SequenceLemmas

-----------------------------------------------------------------------------
(* The set.                                                                *)

Tables(h) == [buckets : [0..h-1 -> Seq(Address)], hash_size : {h}, count : Nat]

\* A value is in the bucket it hashes to, and only once.
Hashed(s) ==
  /\ s.hash_size \in Nat \ {0} /\ s \in Tables(s.hash_size)
  /\ \A i \in 0..s.hash_size-1 :
       IsInjective(s.buckets[i]) /\ \A x \in ToSet(s.buckets[i]) : hash(s, x) = i

\* What a lookup finds.
Held(s) == {x \in Address : gchs_contains(s, x)}

\* The values that are found are those that are counted.
SoundSet(s) == Hashed(s) /\ s.count = Cardinality(Held(s))

\* A value has one bucket.
LEMMA HasBucket ==
  ASSUME NEW s, Hashed(s), NEW x \in Address
  PROVE  hash(s, x) \in 0..s.hash_size-1
<1> DEFINE h == s.hash_size
<1>1. h \in Nat \ {0} /\ x \in Nat
  BY HashSetAssumption DEF Hashed
<1> HIDE DEF h
<1>2. x % h \in 0..h-1
  BY <1>1
<1> QED BY <1>2 DEF hash, h

\* The set whose bucket i, and the number of values, are changed.
WithBucket(s, i, b, c) == [s EXCEPT !.buckets[i] = b, !.count = c]

LEMMA Rebucketed ==
  ASSUME NEW s, Hashed(s), NEW i \in 0..s.hash_size-1, NEW b \in Seq(Address), NEW c \in Nat
  PROVE  LET r == WithBucket(s, i, b, c)
         IN  /\ r \in Tables(s.hash_size) /\ r.hash_size = s.hash_size /\ r.count = c
             /\ \A j \in 0..s.hash_size-1 : r.buckets[j] = IF j = i THEN b ELSE s.buckets[j]
<1> DEFINE r == WithBucket(s, i, b, c)
           h == s.hash_size
<1>1. /\ DOMAIN s = {"buckets", "hash_size", "count"} /\ h \in Nat \ {0}
      /\ s.buckets \in [0..h-1 -> Seq(Address)] /\ s \in Tables(h)
  BY DEF Hashed, Tables
<1>2. /\ r.hash_size = h /\ r.count = c /\ r.buckets = [s.buckets EXCEPT ![i] = b]
      /\ r = [buckets |-> r.buckets, hash_size |-> h, count |-> c]
  <2> DEFINE bs == [s.buckets EXCEPT ![i] = b]
             t == [[s EXCEPT !.buckets = bs] EXCEPT !.count = c]
  <2> HIDE DEF bs
  <2>1. /\ DOMAIN t = {"buckets", "hash_size", "count"} /\ t = [n \in DOMAIN t |-> t[n]]
        /\ t.hash_size = h /\ t.count = c /\ t.buckets = bs
    BY <1>1
  <2>2. t = r
    BY DEF bs, WithBucket
  <2> HIDE DEF t, r
  <2>3. t = [buckets |-> t.buckets, hash_size |-> t.hash_size, count |-> t.count]
    BY <2>1
  <2> QED BY <2>1, <2>2, <2>3 DEF bs
<1>3. /\ [s.buckets EXCEPT ![i] = b] \in [0..h-1 -> Seq(Address)]
      /\ \A j \in 0..h-1 : [s.buckets EXCEPT ![i] = b][j] = IF j = i THEN b ELSE s.buckets[j]
  BY <1>1
<1> HIDE DEF r, h
<1>4. r \in Tables(h)
  BY <1>2, <1>3 DEF Tables
<1> QED BY <1>2, <1>3, <1>4 DEF r, h

\* The list of a set is what it holds.
LEMMA Listed ==
  ASSUME NEW s, Hashed(s)
  PROVE  /\ gchs_to_list(s) \in Seq(Address) /\ IsInjective(gchs_to_list(s))
         /\ ToSet(gchs_to_list(s)) = Held(s)
         /\ IsFiniteSet(Held(s)) /\ Cardinality(Held(s)) = Len(gchs_to_list(s))
<1> DEFINE h == s.hash_size
           ss == [j \in 1..h |-> s.buckets[j - 1]]
           l == gchs_to_list(s)
<1>1. /\ h \in Nat \ {0} /\ s.buckets \in [0..h-1 -> Seq(Address)]
      /\ \A i \in 0..h-1 : IsInjective(s.buckets[i]) /\ \A x \in ToSet(s.buckets[i]) : hash(s, x) = i
  BY DEF Hashed, Tables
<1> HIDE DEF h
<1>2. \A j \in 1..h : j - 1 \in 0..h-1 /\ ss[j] = s.buckets[j - 1] /\ ss[j] \in Seq(Address)
  BY <1>1
<1>3. ss \in Seq(Seq(Address)) /\ Len(ss) = h
  BY <1>1, <1>2, IsASeq
<1>4. l = FlattenSeq(ss)
  BY DEF gchs_to_list, h
<1> HIDE DEF ss
<1>5. \A j \in 1..h : IsInjective(ss[j]) /\ \A x \in ToSet(ss[j]) : x \in Address /\ hash(s, x) = j - 1
  BY <1>1, <1>2, Members
<1>6. \A i, j \in 1..h : i # j => ToSet(ss[i]) \cap ToSet(ss[j]) = {}
  <2> SUFFICES ASSUME NEW i \in 1..h, NEW j \in 1..h, NEW x \in ToSet(ss[i]), x \in ToSet(ss[j]) PROVE i = j
    OBVIOUS
  <2>1. i - 1 = j - 1
    BY <1>5
  <2> QED BY <1>1, <2>1
<1>7. /\ l \in Seq(Address) /\ IsInjective(l)
      /\ \A x : x \in ToSet(l) <=> \E j \in 1..h : x \in ToSet(ss[j])
  <2> HIDE DEF l
  <2>1. Len(ss) # 0
    BY <1>1, <1>3
  <2> QED BY <1>3, <1>4, <1>5, <1>6, <2>1, Flattened
<1> HIDE DEF l
<1>8. ASSUME NEW x \in ToSet(l) PROVE x \in Held(s)
  <2>1. PICK j \in 1..h : x \in ToSet(ss[j])
    BY <1>7
  <2>2. x \in Address /\ hash(s, x) = j - 1 /\ ss[j] = s.buckets[j - 1]
    BY <1>2, <1>5, <2>1
  <2> QED BY <2>1, <2>2 DEF Held, gchs_contains
<1>9. ASSUME NEW x \in Held(s) PROVE x \in ToSet(l)
  <2>1. x \in Address /\ x \in ToSet(s.buckets[hash(s, x)]) /\ hash(s, x) \in 0..h-1
    BY HasBucket DEF Held, gchs_contains, h
  <2>2. hash(s, x) + 1 \in 1..h /\ (hash(s, x) + 1) - 1 = hash(s, x)
    BY <1>1, <2>1
  <2>3. ss[hash(s, x) + 1] = s.buckets[hash(s, x)]
    BY <1>2, <2>2
  <2> QED BY <1>7, <2>1, <2>2, <2>3
<1>10. ToSet(l) = Held(s)
  BY <1>8, <1>9
<1> QED BY <1>7, <1>10, Counted DEF l

LEMMA Created ==
  ASSUME NEW h \in Nat \ {0}
  PROVE  SoundSet(gchs_create(h)) /\ gchs_create(h).hash_size = h /\ Held(gchs_create(h)) = {}
<1> DEFINE s == gchs_create(h)
<1>1. /\ s \in Tables(h) /\ s.hash_size = h /\ s.count = 0
      /\ \A i \in 0..h-1 : s.buckets[i] = <<>>
  BY DEF gchs_create, Tables
<1>2. IsInjective(<<>>) /\ ToSet(<<>>) = {}
  BY DEF IsInjective, ToSet
<1> HIDE DEF s
<1>3. Hashed(s)
  BY <1>1, <1>2 DEF Hashed
<1>4. Held(s) = {}
  BY <1>1, <1>2, <1>3, HasBucket DEF Held, gchs_contains
<1> QED BY <1>1, <1>3, <1>4, FS_EmptySet DEF SoundSet, s

\* When a bucket is changed by one value, so is the set.
LEMMA Changed ==
  ASSUME NEW s, SoundSet(s), NEW obj \in Address, NEW b \in Seq(Address), NEW c \in Nat, IsInjective(b),
         \/ obj \notin Held(s) /\ ToSet(b) = ToSet(s.buckets[hash(s, obj)]) \cup {obj} /\ c = s.count + 1
         \/ obj \in Held(s) /\ ToSet(b) = ToSet(s.buckets[hash(s, obj)]) \ {obj} /\ c = s.count - 1
  PROVE  LET r == WithBucket(s, hash(s, obj), b, c)
         IN  /\ SoundSet(r) /\ r.hash_size = s.hash_size
             /\ obj \notin Held(s) => Held(r) = Held(s) \cup {obj}
             /\ obj \in Held(s) => Held(r) = Held(s) \ {obj}
<1> DEFINE i == hash(s, obj)
           r == WithBucket(s, i, b, c)
           h == s.hash_size
<1>1. Hashed(s) /\ i \in 0..h-1 /\ h \in Nat \ {0}
  BY HasBucket DEF SoundSet, Hashed
<1>2. /\ r \in Tables(h) /\ r.hash_size = h /\ r.count = c
      /\ \A j \in 0..h-1 : r.buckets[j] = IF j = i THEN b ELSE s.buckets[j]
  BY <1>1, Rebucketed
<1> HIDE DEF r
<1>3. \A x : hash(r, x) = hash(s, x)
  BY <1>2 DEF hash
<1>4. \A j \in 0..h-1 : IsInjective(s.buckets[j]) /\ \A x \in ToSet(s.buckets[j]) : hash(s, x) = j
  BY <1>1 DEF Hashed
<1>5. \A x \in ToSet(b) : hash(s, x) = i
  BY <1>1, <1>4
<1> HIDE DEF i
<1>6. Hashed(r)
  <2>1. \A j \in 0..h-1 : IsInjective(r.buckets[j]) /\ \A x \in ToSet(r.buckets[j]) : hash(r, x) = j
    <3> TAKE j \in 0..h-1
    <3>1. CASE j = i
      <4>1. r.buckets[j] = b
        BY <1>2, <3>1
      <4> QED BY <1>3, <1>5, <3>1, <4>1
    <3>2. CASE j # i
      <4>1. r.buckets[j] = s.buckets[j]
        BY <1>2, <3>2
      <4> QED BY <1>3, <1>4, <4>1
    <3> QED BY <3>1, <3>2
  <2> HIDE DEF h
  <2> QED BY <1>1, <1>2, <2>1 DEF Hashed
<1>7. \A x \in Address : x # obj => (x \in Held(r) <=> x \in Held(s))
  <2> SUFFICES ASSUME NEW x \in Address, x # obj PROVE gchs_contains(r, x) <=> gchs_contains(s, x)
    BY DEF Held
  <2>1. hash(s, x) \in 0..h-1
    BY <1>1, HasBucket
  <2>2. CASE hash(s, x) = i
    <3>1. r.buckets[hash(r, x)] = b
      BY <1>2, <1>3, <2>1, <2>2
    <3>2. x \in ToSet(b) <=> x \in ToSet(s.buckets[i])
      BY DEF i
    <3> QED BY <2>2, <3>1, <3>2 DEF gchs_contains
  <2>3. CASE hash(s, x) # i
    <3>1. r.buckets[hash(r, x)] = s.buckets[hash(s, x)]
      BY <1>2, <1>3, <2>1, <2>3
    <3> QED BY <3>1 DEF gchs_contains
  <2> QED BY <2>2, <2>3
<1>8. obj \in Held(r) <=> obj \in ToSet(b)
  <2>1. r.buckets[hash(r, obj)] = b
    BY <1>1, <1>2, <1>3 DEF i
  <2> QED BY <2>1 DEF Held, gchs_contains
<1>9. /\ obj \notin Held(s) => Held(r) = Held(s) \cup {obj}
      /\ obj \in Held(s) => Held(r) = Held(s) \ {obj}
  <2>1. Held(r) \subseteq Address /\ Held(s) \subseteq Address
    BY DEF Held
  <2> HIDE DEF i
  <2> QED BY <1>7, <1>8, <2>1
<1>10. Cardinality(Held(s)) = s.count /\ IsFiniteSet(Held(s))
  BY <1>1, Listed DEF SoundSet
<1>11. r.count = Cardinality(Held(r))
  <2>1. obj \notin Held(s) => c = s.count + 1
    OBVIOUS
  <2>2. obj \in Held(s) => c = s.count - 1
    OBVIOUS
  <2>3. obj \notin Held(s) => Cardinality(Held(s) \cup {obj}) = Cardinality(Held(s)) + 1
    BY <1>10, FS_AddElement, Zenon
  <2>4. obj \in Held(s) => Cardinality(Held(s) \ {obj}) = Cardinality(Held(s)) - 1
    BY <1>10, FS_RemoveElement, Zenon
  <2> HIDE DEF r
  <2> QED BY <1>2, <1>9, <1>10, <2>1, <2>2, <2>3, <2>4
<1> QED BY <1>2, <1>6, <1>9, <1>11 DEF SoundSet, r, i

\* Adding a value to its bucket.
LEMMA ChainedOne ==
  ASSUME NEW s, SoundSet(s), NEW obj \in Address
  PROVE  /\ SoundSet(Chained(s, obj)) /\ Chained(s, obj).hash_size = s.hash_size
         /\ Held(Chained(s, obj)) = Held(s) \cup {obj}
<1>1. CASE gchs_contains(s, obj)
  BY <1>1 DEF Chained, Held
<1>2. CASE ~gchs_contains(s, obj)
  <2> DEFINE i == hash(s, obj)
             b == Append(s.buckets[i], obj)
  <2>1. Hashed(s) /\ i \in 0..s.hash_size-1 /\ s.buckets[i] \in Seq(Address) /\ IsInjective(s.buckets[i]) /\ s.count \in Nat
    BY HasBucket DEF SoundSet, Hashed, Tables
  <2>2. obj \notin Held(s) /\ obj \notin ToSet(s.buckets[i])
    BY <1>2 DEF Held, gchs_contains
  <2>3. b \in Seq(Address) /\ ToSet(b) = ToSet(s.buckets[i]) \cup {obj} /\ IsInjective(b)
    <3> HIDE DEF i
    <3> QED BY <2>1, <2>2, OneMore
  <2>4. Chained(s, obj) = WithBucket(s, i, b, s.count + 1)
    BY <1>2 DEF Chained, WithBucket
  <2> HIDE DEF b
  <2>5. s.count + 1 \in Nat
    BY <2>1
  <2> QED BY <2>2, <2>3, <2>4, <2>5, Changed
<1> QED BY <1>1, <1>2

\* Removing it.
LEMMA RemovedOne ==
  ASSUME NEW s, SoundSet(s), NEW obj \in Address
  PROVE  SoundSet(gchs_remove(s, obj)) /\ Held(gchs_remove(s, obj)) = Held(s) \ {obj}
<1>1. CASE ~gchs_contains(s, obj)
  BY <1>1 DEF gchs_remove, Held
<1>2. CASE gchs_contains(s, obj)
  <2> DEFINE i == hash(s, obj)
             b == RemoveFirst(s.buckets[i], obj)
  <2>1. Hashed(s) /\ i \in 0..s.hash_size-1 /\ s.buckets[i] \in Seq(Address) /\ IsInjective(s.buckets[i]) /\ s.count \in Nat
    BY HasBucket DEF SoundSet, Hashed, Tables
  <2>2. obj \in Held(s) /\ obj \in ToSet(s.buckets[i])
    BY <1>2 DEF Held, gchs_contains
  <2>3. b \in Seq(Address) /\ ToSet(b) = ToSet(s.buckets[i]) \ {obj} /\ IsInjective(b)
    <3> HIDE DEF i
    <3> QED BY <2>1, <2>2, OneLess
  <2>4. gchs_remove(s, obj) = WithBucket(s, i, b, s.count - 1)
    BY <1>2 DEF gchs_remove, WithBucket
  <2> HIDE DEF b
  <2>5. s.count - 1 \in Nat
    <3>1. IsFiniteSet(Held(s)) /\ s.count = Cardinality(Held(s))
      BY <2>1, Listed DEF SoundSet
    <3>2. s.count # 0
      BY <2>2, <3>1, FS_EmptySet
    <3> QED BY <2>1, <3>2
  <2> QED BY <2>2, <2>3, <2>4, <2>5, Changed
<1> QED BY <1>1, <1>2

\* A grown set holds what it held.
LEMMA Grows ==
  ASSUME NEW s, SoundSet(s)
  PROVE  SoundSet(gchs_grow(s)) /\ Held(gchs_grow(s)) = Held(s)
<1> DEFINE data == gchs_to_list(s)
           c == s.count
           new == gchs_create(s.hash_size * 3)
           X == {r \in Tables(s.hash_size * 3) : SoundSet(r)}
           step == [p \in (1..c) \X X |-> Chained(p[2], data[p[1]])]
           Body(f) == [n \in 0..c |-> IF n = 0 THEN new ELSE Chained(f[n - 1], data[n])]
           moved == CHOOSE f : f = Body(f)
<1>1. /\ data \in Seq(Address) /\ ToSet(data) = Held(s) /\ Len(data) = c /\ c \in Nat
      /\ s.hash_size * 3 \in Nat \ {0}
  <2>1. Hashed(s) /\ s.hash_size \in Nat \ {0} /\ s.count \in Nat
    BY DEF SoundSet, Hashed, Tables
  <2>2. data \in Seq(Address) /\ ToSet(data) = Held(s) /\ Len(data) = c
    BY <2>1, Listed DEF SoundSet
  <2> QED BY <2>1, <2>2
<1>2. \A n \in 1..c : data[n] \in Address
  BY <1>1, ElementOfSeq
<1>3. SoundSet(new) /\ Held(new) = {} /\ new \in X
  <2>1. SoundSet(new) /\ Held(new) = {} /\ new.hash_size = s.hash_size * 3
    BY <1>1, Created
  <2> HIDE DEF new
  <2> QED BY <2>1 DEF SoundSet, Hashed
<1> HIDE DEF data, c, new
<1>4. ASSUME NEW n \in 1..c, NEW r \in X PROVE Chained(r, data[n]) \in X
  <2>1. SoundSet(r) /\ r.hash_size = s.hash_size * 3
    BY DEF Tables
  <2>2. SoundSet(Chained(r, data[n])) /\ Chained(r, data[n]).hash_size = s.hash_size * 3
    BY <1>2, <2>1, ChainedOne
  <2> QED BY <2>2 DEF SoundSet, Hashed
<1>5. \E f : f = Body(f)
  <2> HIDE DEF X
  <2>1. \A n \in 1..c : \A r \in X : step[<<n, r>>] = Chained(r, data[n])
    OBVIOUS
  <2> HIDE DEF step
  <2>2. Stays(c, X, step)
    BY <1>4, <2>1 DEF Stays
  <2>3. PICK g : Follows(g, c, X, new, step)
    BY <1>1, <1>3, <2>2, Recursion
  <2>4. g \in [0..c -> X] /\ g[0] = new /\ \A n \in 1..c : g[n] = step[<<n, g[n - 1]>>]
    BY <2>3 DEF Follows
  <2>5. \A n \in 0..c : g[n] = IF n = 0 THEN new ELSE Chained(g[n - 1], data[n])
    <3> TAKE n \in 0..c
    <3>1. CASE n = 0
      BY <2>4, <3>1
    <3>2. CASE n # 0
      <4>1. n \in 1..c /\ n - 1 \in 0..c
        BY <1>1, <3>2
      <4>2. g[n - 1] \in X /\ g[n] = step[<<n, g[n - 1]>>]
        BY <2>4, <4>1
      <4> QED BY <2>1, <3>2, <4>1, <4>2
    <3> QED BY <3>1, <3>2
  <2>6. g = [n \in 0..c |-> g[n]]
    BY <2>4
  <2>7. g = Body(g)
    BY <2>5, <2>6
  <2> QED BY <2>7
<1>6. moved = Body(moved)
  <2> HIDE DEF Body
  <2> QED BY <1>5
<1>7. gchs_grow(s) = moved[c]
  BY Zenon DEF gchs_grow, c, new, data
<1>8. \A n \in 0..c : moved[n] = IF n = 0 THEN new ELSE Chained(moved[n - 1], data[n])
  <2> HIDE DEF moved
  <2> QED BY <1>6
<1> HIDE DEF moved, Body
<1> DEFINE Good(n) == moved[n] \in X /\ \A x : x \in Held(moved[n]) <=> \E i \in 1..n : x = data[i]
           T == {n \in 0..c : Good(n)}
<1>9. 0 \in T
  <2>1. 0 \in 0..c /\ moved[0] = new
    BY <1>1, <1>8
  <2> QED BY <1>3, <2>1
<1>10. ASSUME NEW n \in 1..c, Good(n - 1) PROVE Good(n)
  <2>1. n \in 0..c /\ n # 0 /\ 1..n = (1..n - 1) \cup {n}
    BY <1>1
  <2>2. moved[n] = Chained(moved[n - 1], data[n])
    BY <1>8, <2>1
  <2>3. moved[n] \in X
    BY <1>4, <1>10, <2>2
  <2>4. SoundSet(moved[n - 1])
    BY <1>10
  <2>5. Held(moved[n]) = Held(moved[n - 1]) \cup {data[n]}
    BY <1>2, <2>2, <2>4, ChainedOne
  <2> HIDE DEF X
  <2> QED BY <1>10, <2>1, <2>3, <2>5
<1>11. 0..c \subseteq T
  <2> HIDE DEF Good
  <2>1. \A n \in 1..c : n - 1 \in T => n \in T
    BY <1>10
  <2> HIDE DEF T
  <2> QED BY <1>1, <1>9, <2>1, Induction
<1>12. Good(c)
  <2> HIDE DEF Good
  <2>1. c \in 0..c
    BY <1>1
  <2> QED BY <1>11, <2>1
<1>13. Held(moved[c]) = Held(s)
  <2>1. \A x : x \in Held(s) <=> \E i \in 1..c : x = data[i]
    BY <1>1, Members
  <2>2. \A x : x \in Held(moved[c]) <=> x \in Held(s)
    BY <1>12, <2>1
  <2> QED BY <2>2
<1> QED BY <1>7, <1>12, <1>13

LEMMA AddedOne ==
  ASSUME NEW s, SoundSet(s), NEW obj \in Address
  PROVE  SoundSet(gchs_add(s, obj)) /\ Held(gchs_add(s, obj)) = Held(s) \cup {obj}
BY Grows, ChainedOne DEF gchs_add

-----------------------------------------------------------------------------

\* The invariant: the pool is sound, and the last question had an answer.
PoolInv == SoundSet(set) /\ answer \in BOOLEAN

LEMMA PoolLists == PoolInv => Values = Held(set) /\ ListsEachOnce /\ SetTypeOK
<1> SUFFICES ASSUME PoolInv PROVE Values = Held(set) /\ ListsEachOnce /\ SetTypeOK
  OBVIOUS
<1>1. Hashed(set) /\ set.count = Cardinality(Held(set))
  BY DEF PoolInv, SoundSet
<1>2. SetTypeOK
  BY <1>1 DEF SetTypeOK, PoolInv, Hashed, Tables
<1> QED BY <1>1, <1>2, Listed DEF Values, ListsEachOnce

\* What a step does to what the pool holds.
Asks(obj) ==
  \/ AddObject(obj) /\ Held(set') = Held(set) \cup {obj}
  \/ RemoveObject(obj) /\ Held(set') = Held(set) \ {obj}
  \/ IsObject(obj) /\ answer' = (obj \in Held(set)) /\ Held(set') = Held(set)

LEMMA PoolStarts == SetInit => PoolInv /\ Held(set) = {}
BY Created, HashSetAssumption DEF SetInit, PoolInv

LEMMA PoolSteps ==
  ASSUME PoolInv, [SetNext]_setVars
  PROVE  PoolInv' /\ (UNCHANGED setVars \/ \E obj \in Address : Asks(obj))
<1>1. ASSUME NEW obj \in Address, AddObject(obj) PROVE PoolInv' /\ Asks(obj)
  BY <1>1, AddedOne DEF AddObject, PoolInv, Asks
<1>2. ASSUME NEW obj \in Address, RemoveObject(obj) PROVE PoolInv' /\ Asks(obj)
  BY <1>2, RemovedOne DEF RemoveObject, PoolInv, Asks
<1>3. ASSUME NEW obj \in Address, IsObject(obj) PROVE PoolInv' /\ Asks(obj)
  <2>1. gchs_contains(set, obj) <=> obj \in Held(set)
    BY DEF Held
  <2>2. gchs_contains(set, obj) \in BOOLEAN
    BY DEF gchs_contains
  <2> QED BY <1>3, <2>1, <2>2 DEF IsObject, PoolInv, Asks
<1>4. CASE UNCHANGED setVars
  BY <1>4 DEF setVars, PoolInv
<1> QED BY <1>1, <1>2, <1>3, <1>4 DEF SetNext

\* The pool has the types it is declared with.
THEOREM PoolTypes == SetSpec => []SetTypeOK
<1>1. PoolInv => SetTypeOK
  BY PoolLists
<1> QED BY <1>1, PoolStarts, PoolSteps, PTL DEF SetSpec

\* The collector's pool is a set (gc_hashset.c), for any addresses and any number of
\* buckets: it holds what was added and not removed since, however often it has
\* grown, and its list names each value once, as many as it counts.
THEOREM PoolIsASet == SetSpec => ImplementsSet
<1>1. SetInit => Values = {} /\ ListsEachOnce
  BY PoolStarts, PoolLists
<1> DEFINE Step ==
      \/ UNCHANGED setVars
      \/ \E obj \in Address :
           /\ \/ AddObject(obj) /\ Values' = Values \cup {obj}
              \/ RemoveObject(obj) /\ Values' = Values \ {obj}
              \/ IsObject(obj) /\ answer' = (obj \in Values) /\ Values' = Values
           /\ ListsEachOnce'
<1>2. PoolInv /\ [SetNext]_setVars => PoolInv' /\ [Step]_setVars
  <2> SUFFICES ASSUME PoolInv, [SetNext]_setVars PROVE PoolInv' /\ Step
    OBVIOUS
  <2>1. PoolInv' /\ (UNCHANGED setVars \/ \E obj \in Address : Asks(obj))
    BY PoolSteps
  <2>2. Values = Held(set)
    BY PoolLists
  <2>3. (Values = Held(set) /\ ListsEachOnce /\ SetTypeOK)'
    BY <2>1, PoolLists, PTL
  <2> QED BY <2>1, <2>2, <2>3 DEF Asks
<1> QED BY <1>1, <1>2, PoolStarts, PTL DEF SetSpec, ImplementsSet
-----------------------------------------------------------------------------
(* The table: a bucket and its chain.                                      *)

Room == Cardinality(Node)
Cell == Node \cup {NoNode}
Buckets == 0..Size-1

Heap == [bucket : [Buckets -> Cell],
         node : [Node -> [key : Key \cup {NoNode}, val : Value \cup {NoNode}, next : Cell]],
         live : SUBSET Node,
         count : Int]

\* The j-th node of a chain, and what is after its last.
CellAt(c, j) == IF j \in 1..Len(c) THEN c[j] ELSE NoNode

\* Bucket i points to the nodes of c, one after the other.
Links(h, i, c) ==
  /\ c \in Seq(Node) /\ IsInjective(c)
  /\ h.bucket[i] = CellAt(c, 1)
  /\ \A j \in 1..Len(c) : h.node[c[j]].next = CellAt(c, j + 1)

LEMMA RoomIsNat == Room \in Nat /\ IsFiniteSet(Node) /\ NoNode \notin Node
BY TableAssumption, FS_CardinalityType DEF Room

\* A chain has no more nodes than there are.
LEMMA ChainFits ==
  ASSUME NEW c \in Seq(Node), IsInjective(c)
  PROVE  Len(c) \in 0..Room
<1>1. ToSet(c) \in SUBSET Node /\ Cardinality(ToSet(c)) = Len(c) /\ Len(c) \in Nat
  BY Counted, Members, LenProperties
<1>2. Cardinality(ToSet(c)) <= Room
  BY <1>1, RoomIsNat, FS_Subset DEF Room
<1> QED BY <1>1, <1>2, RoomIsNat

\* The chain of a bucket is the nodes it points to.
LEMMA ChainIs ==
  ASSUME NEW h \in Heap, NEW i \in Buckets, NEW c, Links(h, i, c)
  PROVE  Chain(h, i) = c
<1> DEFINE step == [p \in (1..Room) \X Cell |-> After(h)[p[2]]]
           Body(f) == [n \in 0..Room |-> IF n = 0 THEN h.bucket[i] ELSE After(h)[f[n - 1]]]
           at == CHOOSE f : f = Body(f)
           l == Len(c)
<1>1. /\ c \in Seq(Node) /\ l \in 0..Room /\ Room \in Nat /\ l \in Nat
      /\ \A j \in 1..l : c[j] \in Node
      /\ h.bucket[i] \in Cell /\ NoNode \notin Node
  BY ChainFits, RoomIsNat, LenProperties DEF Links, Heap
<1>2. /\ \A n \in Cell : After(h)[n] \in Cell
      /\ After(h)[NoNode] = NoNode /\ \A n \in Node : After(h)[n] = h.node[n].next
  BY RoomIsNat DEF After, Heap, Cell
<1>3. \E f : f = Body(f)
  <2>1. \A n \in 1..Room : \A y \in Cell : step[<<n, y>>] = After(h)[y]
    OBVIOUS
  <2> HIDE DEF step
  <2>2. Stays(Room, Cell, step)
    BY <1>2, <2>1 DEF Stays
  <2>3. PICK g : Follows(g, Room, Cell, h.bucket[i], step)
    BY <1>1, <2>2, Recursion
  <2>4. g \in [0..Room -> Cell] /\ g[0] = h.bucket[i] /\ \A n \in 1..Room : g[n] = step[<<n, g[n - 1]>>]
    BY <2>3 DEF Follows
  <2>5. \A n \in 0..Room : g[n] = IF n = 0 THEN h.bucket[i] ELSE After(h)[g[n - 1]]
    <3> TAKE n \in 0..Room
    <3>1. n # 0 => n \in 1..Room /\ n - 1 \in 0..Room
      BY <1>1
    <3> QED BY <2>1, <2>4, <3>1
  <2>6. g = [n \in 0..Room |-> g[n]]
    BY <2>4
  <2>7. g = Body(g)
    BY <2>5, <2>6
  <2> QED BY <2>7
<1>4. at = Body(at)
  <2> HIDE DEF Body
  <2> QED BY <1>3
<1>5. Chain(h, i) = [n \in 1..Cardinality({m \in 0..Room : at[m] # NoNode}) |-> at[n - 1]]
  BY Zenon DEF Chain, Room
<1>6. \A n \in 0..Room : at[n] = IF n = 0 THEN h.bucket[i] ELSE After(h)[at[n - 1]]
  <2> HIDE DEF at
  <2> QED BY <1>4
<1> HIDE DEF at, Body, l
<1>7. 0..Room \subseteq {n \in 0..Room : at[n] = CellAt(c, n + 1)}
  <2> DEFINE T == {n \in 0..Room : at[n] = CellAt(c, n + 1)}
  <2>1. 0 \in T
    BY <1>1, <1>6 DEF Links
  <2>2. ASSUME NEW n \in 1..Room, at[n - 1] = CellAt(c, n) PROVE at[n] = CellAt(c, n + 1)
    <3>1. n \in 0..Room /\ n # 0 /\ at[n] = After(h)[at[n - 1]]
      BY <1>1, <1>6
    <3>2. CASE n \in 1..l
      <4>1. at[n - 1] = c[n] /\ c[n] \in Node
        BY <1>1, <2>2, <3>2 DEF CellAt, l
      <4>2. h.node[c[n]].next = CellAt(c, n + 1)
        BY <3>2 DEF Links, l
      <4> QED BY <1>2, <3>1, <4>1, <4>2
    <3>3. CASE n \notin 1..l
      <4>1. n + 1 \notin 1..l
        BY <1>1, <3>3
      <4> QED BY <1>2, <2>2, <3>1, <3>3, <4>1 DEF CellAt, l
    <3> QED BY <3>2, <3>3
  <2>3. \A n \in 1..Room : n - 1 \in T => n \in T
    <3> SUFFICES ASSUME NEW n \in 1..Room, n - 1 \in T PROVE n \in T
      OBVIOUS
    <3>1. (n - 1) + 1 = n /\ n \in 0..Room
      BY <1>1
    <3> QED BY <2>2, <3>1
  <2> HIDE DEF T
  <2>4. 0..Room \subseteq T
    BY <1>1, <2>1, <2>3, Induction
  <2> QED BY <2>4 DEF T
<1>8. {m \in 0..Room : at[m] # NoNode} = 0..l - 1
  <2>1. \A m \in 0..Room : at[m] # NoNode <=> m + 1 \in 1..l
    BY <1>1, <1>7 DEF CellAt, l
  <2>2. \A m \in 0..l - 1 : m \in 0..Room /\ m + 1 \in 1..l
    BY <1>1
  <2>3. \A m \in 0..Room : m + 1 \in 1..l => m \in 0..l - 1
    BY <1>1
  <2> QED BY <2>1, <2>2, <2>3
<1>9. Cardinality(0..l - 1) = l
  BY <1>1, FS_Interval
<1>10. \A n \in 1..l : at[n - 1] = c[n]
  <2> TAKE n \in 1..l
  <2>1. n - 1 \in 0..Room /\ (n - 1) + 1 = n
    BY <1>1
  <2> QED BY <1>7, <2>1 DEF CellAt, l
<1>11. c = [n \in 1..l |-> c[n]]
  BY <1>1, LenProperties DEF l
<1> QED BY <1>5, <1>8, <1>9, <1>10, <1>11
-----------------------------------------------------------------------------
(* A sound table.                                                          *)

\* n has a key and a value of bucket i.
Holds(h, i, n) == h.node[n].key \in Key /\ h.node[n].val \in Value /\ mod(h.node[n].key) = i

\* The chains are lists of nodes with the keys of their buckets, all of them live and
\* counted, and no two have one key.
SoundTable(h) ==
  /\ h \in Heap
  /\ \A i \in Buckets : Links(h, i, Chain(h, i)) /\ \A n \in ToSet(Chain(h, i)) : Holds(h, i, n)
  /\ \A n : n \in h.live <=> \E i \in Buckets : n \in ToSet(Chain(h, i))
  /\ \A m, n \in h.live : KeyClass(h.node[m].key) = KeyClass(h.node[n].key) => m = n
  /\ h.count = Cardinality(h.live)

\* From h to g nothing changes outside chain i.
SameElsewhere(h, g, i) ==
  \A j \in Buckets : j # i =>
    g.bucket[j] = h.bucket[j] /\ \A n \in ToSet(Chain(h, j)) : g.node[n] = h.node[n]

\* A key has one bucket, and one class of keys has one.
LEMMA KeyBucket ==
  ASSUME NEW k \in Key
  PROVE  mod(k) \in Buckets /\ \A l \in Key : KeyClass(k) = KeyClass(l) => mod(k) = mod(l)
<1>1. Hash(k) \in Nat
  BY TableAssumption
<1>2. Hash(k) % 8 \in 0..8-1
  BY <1>1
<1>3. \A l \in Key : KeyClass(k) = KeyClass(l) => Hash(k) % 8 = Hash(l) % 8
  BY TableAssumption, Zenon
<1> QED BY <1>2, <1>3 DEF mod, Buckets, Size

\* The list of all nodes is the live ones.
LEMMA AllAreLive ==
  ASSUME NEW h, SoundTable(h)
  PROVE  /\ AllNodes(h) \in Seq(Node) /\ IsInjective(AllNodes(h)) /\ ToSet(AllNodes(h)) = h.live
         /\ IsFiniteSet(h.live) /\ Cardinality(h.live) = Len(AllNodes(h))
<1> DEFINE ss == [j \in 1..8 |-> Chain(h, j - 1)]
           l == AllNodes(h)
<1>1. \A j \in 1..8 : j - 1 \in Buckets /\ ss[j] = Chain(h, j - 1)
  BY DEF Buckets, Size
<1>2. l = FlattenSeq(ss)
  BY DEF AllNodes, Size
<1>3. \A j \in 1..8 : Chain(h, j - 1) \in Seq(Node) /\ IsInjective(Chain(h, j - 1))
  BY <1>1 DEF SoundTable, Links
<1>4. ss \in Seq(Seq(Node)) /\ Len(ss) = 8
  BY <1>3, IsASeq
<1> HIDE DEF ss, l
<1>5. \A i, j \in 1..8 : i # j => ToSet(ss[i]) \cap ToSet(ss[j]) = {}
  <2> SUFFICES ASSUME NEW i \in 1..8, NEW j \in 1..8, NEW x \in ToSet(ss[i]), x \in ToSet(ss[j]) PROVE i = j
    OBVIOUS
  <2>1. Holds(h, i - 1, x) /\ Holds(h, j - 1, x)
    BY <1>1 DEF SoundTable
  <2>2. i - 1 = j - 1
    BY <2>1 DEF Holds
  <2> QED BY <2>2
<1>6. /\ l \in Seq(Node) /\ IsInjective(l)
      /\ \A x : x \in ToSet(l) <=> \E j \in 1..8 : x \in ToSet(ss[j])
  <2>1. Len(ss) # 0 /\ \A j \in 1..Len(ss) : IsInjective(ss[j])
    BY <1>1, <1>3, <1>4
  <2>2. \A i, j \in 1..Len(ss) : i # j => ToSet(ss[i]) \cap ToSet(ss[j]) = {}
    BY <1>4, <1>5
  <2>3. /\ FlattenSeq(ss) \in Seq(Node) /\ IsInjective(FlattenSeq(ss))
        /\ \A x : x \in ToSet(FlattenSeq(ss)) <=> \E i \in 1..Len(ss) : x \in ToSet(ss[i])
    BY <1>4, <2>1, <2>2, Flattened
  <2> QED BY <1>2, <1>4, <2>3
<1>7. ToSet(l) = h.live
  <2>1. \A i \in Buckets : i + 1 \in 1..8 /\ ss[i + 1] = Chain(h, i)
    <3> TAKE i \in Buckets
    <3>1. i + 1 \in 1..8 /\ (i + 1) - 1 = i
      BY DEF Buckets, Size
    <3> QED BY <1>1, <3>1
  <2>2. \A x : x \in h.live <=> \E i \in Buckets : x \in ToSet(Chain(h, i))
    BY DEF SoundTable
  <2>3. \A x : (\E j \in 1..8 : x \in ToSet(ss[j])) <=> \E i \in Buckets : x \in ToSet(Chain(h, i))
    BY <1>1, <2>1, Zenon
  <2>4. \A x : x \in ToSet(l) <=> x \in h.live
    BY <1>6, <2>2, <2>3, Zenon
  <2> QED BY <2>4
<1> QED BY <1>6, <1>7, Counted DEF l

\* From h to g chain i, and nothing else, becomes the nodes of c.
ChainBecomes(h, g, i, c) ==
  /\ Links(g, i, c) /\ SameElsewhere(h, g, i)
  /\ \A n \in ToSet(c) : Holds(g, i, n)
  /\ \A m, n \in ToSet(c) : KeyClass(g.node[m].key) = KeyClass(g.node[n].key) => m = n
  /\ \A n : n \in g.live <=> n \in ToSet(c) \/ (n \in h.live /\ n \notin ToSet(Chain(h, i)))
  /\ g.count = Cardinality(g.live)

\* A table stays sound when one of its chains becomes another.
LEMMA OneChain ==
  ASSUME NEW h, SoundTable(h), NEW g \in Heap, NEW i \in Buckets, NEW c, ChainBecomes(h, g, i, c)
  PROVE  SoundTable(g) /\ Chain(g, i) = c /\ \A j \in Buckets : j # i => Chain(g, j) = Chain(h, j)
<1>0. /\ Links(g, i, c) /\ SameElsewhere(h, g, i)
      /\ \A n \in ToSet(c) : Holds(g, i, n)
      /\ \A m, n \in ToSet(c) : KeyClass(g.node[m].key) = KeyClass(g.node[n].key) => m = n
      /\ \A n : n \in g.live <=> n \in ToSet(c) \/ (n \in h.live /\ n \notin ToSet(Chain(h, i)))
      /\ g.count = Cardinality(g.live)
  BY DEF ChainBecomes
<1>1. Chain(g, i) = c
  BY <1>0, ChainIs
<1>2. ASSUME NEW j \in Buckets, j # i
      PROVE  /\ Links(g, j, Chain(h, j)) /\ Chain(g, j) = Chain(h, j)
             /\ \A n \in ToSet(Chain(h, j)) : Holds(g, j, n) /\ g.node[n] = h.node[n]
  <2> DEFINE d == Chain(h, j)
  <2>1. Links(h, j, d) /\ \A n \in ToSet(d) : Holds(h, j, n)
    BY DEF SoundTable
  <2>2. g.bucket[j] = h.bucket[j] /\ \A n \in ToSet(d) : g.node[n] = h.node[n]
    BY <1>0, <1>2 DEF SameElsewhere
  <2> HIDE DEF d
  <2>3. \A m \in 1..Len(d) : d[m] \in ToSet(d)
    BY <2>1, Members DEF Links
  <2>4. Links(g, j, d)
    BY <2>1, <2>2, <2>3 DEF Links
  <2>5. \A n \in ToSet(d) : Holds(g, j, n)
    BY <2>1, <2>2 DEF Holds
  <2>6. Chain(g, j) = d
    BY <2>4, ChainIs
  <2> QED BY <2>2, <2>4, <2>5, <2>6 DEF d
<1>3. \A j \in Buckets : Links(g, j, Chain(g, j)) /\ \A n \in ToSet(Chain(g, j)) : Holds(g, j, n)
  <2> TAKE j \in Buckets
  <2>1. CASE j = i
    BY <1>0, <1>1, <2>1
  <2>2. CASE j # i
    BY <1>2, <2>2
  <2> QED BY <2>1, <2>2
<1>4. \A n : n \in h.live <=> \E j \in Buckets : n \in ToSet(Chain(h, j))
  BY DEF SoundTable
<1>5. \A j \in Buckets : \A n \in ToSet(Chain(h, j)) : Holds(h, j, n)
  BY DEF SoundTable
<1>6. ASSUME NEW n, n \in h.live, n \notin ToSet(Chain(h, i))
      PROVE  g.node[n] = h.node[n] /\ \E j \in Buckets : j # i /\ n \in ToSet(Chain(g, j))
  <2>1. PICK j \in Buckets : n \in ToSet(Chain(h, j))
    BY <1>4, <1>6
  <2> QED BY <1>2, <1>6, <2>1
<1>7. \A n : n \in g.live <=> \E j \in Buckets : n \in ToSet(Chain(g, j))
  <2> TAKE n
  <2>1. ASSUME n \in g.live PROVE \E j \in Buckets : n \in ToSet(Chain(g, j))
    BY <1>0, <1>1, <1>6, <2>1
  <2>2. ASSUME NEW j \in Buckets, n \in ToSet(Chain(g, j)) PROVE n \in g.live
    <3>1. CASE j = i
      BY <1>0, <1>1, <2>2, <3>1
    <3>2. CASE j # i
      <4>1. n \in ToSet(Chain(h, j)) /\ Holds(h, j, n)
        BY <1>2, <1>5, <2>2, <3>2
      <4>2. n \notin ToSet(Chain(h, i))
        BY <1>5, <3>2, <4>1 DEF Holds
      <4>3. n \in h.live
        BY <1>4, <4>1
      <4> QED BY <1>0, <4>2, <4>3
    <3> QED BY <3>1, <3>2
  <2> QED BY <2>1, <2>2
<1>8. ASSUME NEW m \in g.live, NEW n \in g.live, KeyClass(g.node[m].key) = KeyClass(g.node[n].key) PROVE m = n
  <2>1. PICK a \in Buckets : m \in ToSet(Chain(g, a))
    BY <1>7
  <2>2. PICK b \in Buckets : n \in ToSet(Chain(g, b))
    BY <1>7
  <2>3. Holds(g, a, m) /\ Holds(g, b, n)
    BY <1>3, <2>1, <2>2
  <2>4. a = b
    BY <1>8, <2>3, KeyBucket DEF Holds
  <2>5. CASE a = i
    BY <1>0, <1>1, <1>8, <2>1, <2>2, <2>4, <2>5
  <2>6. CASE a # i
    <3>1. m \in ToSet(Chain(h, a)) /\ n \in ToSet(Chain(h, a)) /\ g.node[m] = h.node[m] /\ g.node[n] = h.node[n]
      BY <1>2, <2>1, <2>2, <2>4, <2>6
    <3>2. m \in h.live /\ n \in h.live
      BY <1>4, <3>1
    <3> QED BY <1>8, <3>1, <3>2 DEF SoundTable
  <2> QED BY <2>5, <2>6
<1>9. SoundTable(g)
  BY <1>0, <1>3, <1>7, <1>8 DEF SoundTable
<1> QED BY <1>1, <1>2, <1>9

-----------------------------------------------------------------------------
(* What the methods do to it.                                              *)

\* A heap is what its fields are.
LEMMA HeapOf ==
  ASSUME NEW h \in Heap, NEW bucket \in [Buckets -> Cell],
         NEW node \in [Node -> [key : Key \cup {NoNode}, val : Value \cup {NoNode}, next : Cell]],
         NEW live \in SUBSET Node, NEW count \in Int
  PROVE  LET g == [h EXCEPT !.live = live, !.count = count, !.bucket = bucket, !.node = node]
         IN  g \in Heap /\ g.bucket = bucket /\ g.node = node /\ g.live = live /\ g.count = count
<1> DEFINE g == [h EXCEPT !.live = live, !.count = count, !.bucket = bucket, !.node = node]
<1>1. /\ DOMAIN g = {"bucket", "node", "live", "count"} /\ g = [f \in DOMAIN g |-> g[f]]
      /\ g.bucket = bucket /\ g.node = node /\ g.live = live /\ g.count = count
  <2>1. DOMAIN h = {"bucket", "node", "live", "count"}
    BY DEF Heap
  <2> QED BY <2>1
<1> HIDE DEF g
<1>2. g = [bucket |-> bucket, node |-> node, live |-> live, count |-> count]
  BY <1>1
<1>3. g \in Heap
  BY <1>2 DEF Heap
<1> QED BY <1>1, <1>3 DEF g

\* The fields of a table without n, the node after p in chain i.
LEMMA UnlinkIs ==
  ASSUME NEW h \in Heap, NEW i \in Buckets, NEW n \in Node, NEW p \in Cell
  PROVE  LET g == Unlink(h, i, p, n)
         IN  /\ g \in Heap /\ g.live = h.live \ {n} /\ g.count = h.count - 1
             /\ g.bucket = IF p = NoNode THEN [h.bucket EXCEPT ![i] = h.node[n].next] ELSE h.bucket
             /\ \A x \in Node : /\ g.node[x].key = h.node[x].key /\ g.node[x].val = h.node[x].val
                                /\ g.node[x].next = IF x = p THEN h.node[n].next ELSE h.node[x].next
<1> DEFINE g == Unlink(h, i, p, n)
           live == h.live \ {n}
           count == h.count - 1
           next == h.node[n].next
<1>1. /\ DOMAIN h = {"bucket", "node", "live", "count"} /\ h = [f \in DOMAIN h |-> h[f]]
      /\ h.bucket \in [Buckets -> Cell] /\ live \in SUBSET Node /\ count \in Int /\ next \in Cell
      /\ h.node \in [Node -> [key : Key \cup {NoNode}, val : Value \cup {NoNode}, next : Cell]]
      /\ NoNode \notin Node
  BY RoomIsNat DEF Heap
<1>2. CASE p = NoNode
  <2> DEFINE bucket == [h.bucket EXCEPT ![i] = next]
             r == [h EXCEPT !.live = live, !.count = count, !.bucket = bucket, !.node = h.node]
  <2>1. bucket \in [Buckets -> Cell]
    BY <1>1
  <2>2. g = [[h EXCEPT !.live = live, !.count = count] EXCEPT !.bucket[i] = next]
    BY <1>2 DEF Unlink
  <2>3. [[h EXCEPT !.live = live, !.count = count] EXCEPT !.bucket[i] = next] =
        [h EXCEPT !.live = live, !.count = count, !.bucket = bucket]
    <3> HIDE DEF live, count, next
    <3> QED BY <1>1
  <2>4. r = [h EXCEPT !.live = live, !.count = count, !.bucket = bucket]
    <3> HIDE DEF live, count, bucket
    <3> QED BY <1>1
  <2> HIDE DEF bucket, live, count, next
  <2>5. r \in Heap /\ r.bucket = bucket /\ r.node = h.node /\ r.live = live /\ r.count = count
    BY <1>1, <2>1, HeapOf
  <2> HIDE DEF r
  <2>6. g = r
    BY <2>2, <2>3, <2>4, Zenon
  <2>7. \A x \in Node : x # p
    BY <1>1, <1>2
  <2> QED BY <1>2, <2>5, <2>6, <2>7 DEF bucket, live, count, next
<1>3. CASE p # NoNode
  <2> DEFINE node == [h.node EXCEPT ![p].next = next]
             r == [h EXCEPT !.live = live, !.count = count, !.bucket = h.bucket, !.node = node]
  <2>1. node \in [Node -> [key : Key \cup {NoNode}, val : Value \cup {NoNode}, next : Cell]]
    <3> HIDE DEF next
    <3> QED BY <1>1
  <2>2. g = [[h EXCEPT !.live = live, !.count = count] EXCEPT !.node[p].next = next]
    BY <1>3 DEF Unlink
  <2>3. [[h EXCEPT !.live = live, !.count = count] EXCEPT !.node[p].next = next] =
        [h EXCEPT !.live = live, !.count = count, !.node = node]
    <3> HIDE DEF live, count, next
    <3> QED BY <1>1
  <2>4. r = [h EXCEPT !.live = live, !.count = count, !.node = node]
    <3> HIDE DEF live, count, node
    <3> QED BY <1>1
  <2>5. \A x \in Node : /\ node[x].key = h.node[x].key /\ node[x].val = h.node[x].val
                        /\ node[x].next = IF x = p THEN next ELSE h.node[x].next
    <3> HIDE DEF next
    <3> QED BY <1>1
  <2> HIDE DEF node, live, count, next
  <2>6. r \in Heap /\ r.bucket = h.bucket /\ r.node = node /\ r.live = live /\ r.count = count
    BY <1>1, <2>1, HeapOf
  <2> HIDE DEF r
  <2>7. g = r
    BY <2>2, <2>3, <2>4, Zenon
  <2> QED BY <1>3, <2>5, <2>6, <2>7 DEF live, count, next
<1> QED BY <1>2, <1>3

\* The node before the q-th of a chain.
Before(c, q) == IF q = 1 THEN NoNode ELSE c[q - 1]

\* A sound table without one node of one chain is sound.
LEMMA Unlinked ==
  ASSUME NEW h, SoundTable(h), NEW i \in Buckets, NEW q \in 1..Len(Chain(h, i))
  PROVE  LET c == Chain(h, i)
             g == Unlink(h, i, Before(c, q), c[q])
         IN  /\ SoundTable(g) /\ Chain(g, i) = RemoveAt(c, q)
             /\ \A j \in Buckets : j # i => Chain(g, j) = Chain(h, j)
             /\ g.live = h.live \ {c[q]}
             /\ \A x \in Node : g.node[x].key = h.node[x].key /\ g.node[x].val = h.node[x].val
             /\ g.node[c[q]].next = h.node[c[q]].next
<1> DEFINE c == Chain(h, i)
           n == c[q]
           p == Before(c, q)
           g == Unlink(h, i, p, n)
           d == RemoveAt(c, q)
           l == Len(c)
<1>1. /\ h \in Heap /\ Links(h, i, c) /\ \A x \in ToSet(c) : Holds(h, i, x) /\ x \in h.live
      /\ h.live \subseteq Node /\ h.count = Cardinality(h.live) /\ IsFiniteSet(h.live)
      /\ \A x, y \in h.live : KeyClass(h.node[x].key) = KeyClass(h.node[y].key) => x = y
  BY AllAreLive DEF SoundTable, Heap
<1>2. /\ c \in Seq(Node) /\ IsInjective(c) /\ l \in Nat /\ ToSet(c) = {c[j] : j \in 1..l}
      /\ \A j \in 1..l : c[j] \in Node
      /\ \A j, k \in 1..l : c[j] = c[k] => j = k
      /\ h.bucket[i] = CellAt(c, 1) /\ \A j \in 1..l : h.node[c[j]].next = CellAt(c, j + 1)
  BY <1>1, Members, LenProperties DEF Links
<1>3. q \in 1..l
  OBVIOUS
<1> HIDE DEF c, l
<1>4. /\ n \in Node /\ n \in h.live /\ n \in ToSet(c)
      /\ h.node[n].next = CellAt(c, q + 1)
  BY <1>1, <1>2, <1>3
<1>5. p \in Cell /\ (q = 1 => p = NoNode) /\ (q # 1 => q - 1 \in 1..l /\ p = c[q - 1] /\ p \in Node /\ p # n /\ p # NoNode)
  <2>1. q # 1 => q - 1 \in 1..l /\ q - 1 # q
    BY <1>2, <1>3
  <2> QED BY <1>2, <1>3, <2>1, RoomIsNat DEF Before, Cell
<1> HIDE DEF n, p
<1>7. /\ g \in Heap /\ g.live = h.live \ {n} /\ g.count = h.count - 1
      /\ g.bucket = IF p = NoNode THEN [h.bucket EXCEPT ![i] = h.node[n].next] ELSE h.bucket
      /\ \A x \in Node : /\ g.node[x].key = h.node[x].key /\ g.node[x].val = h.node[x].val
                         /\ g.node[x].next = IF x = p THEN h.node[n].next ELSE h.node[x].next
  BY <1>1, <1>4, <1>5, UnlinkIs
<1>8. /\ d \in Seq(Node) /\ Len(d) = l - 1 /\ IsInjective(d) /\ ToSet(d) = ToSet(c) \ {n}
      /\ \A j \in 1..l - 1 : d[j] = IF j < q THEN c[j] ELSE c[j + 1]
  <2>1. q \in 1..Len(c)
    BY <1>3 DEF l
  <2> QED BY <1>2, <2>1, RemovedAt, OneFewer DEF l, n
<1> HIDE DEF g, d
<1>9. \A j \in 1..l + 1 : CellAt(d, j) = IF j < q THEN CellAt(c, j) ELSE CellAt(c, j + 1)
  <2> TAKE j \in 1..l + 1
  <2>1. CASE j < q
    <3>1. j \in 1..l - 1 /\ j \in 1..l
      BY <1>2, <1>3, <2>1
    <3> QED BY <1>8, <2>1, <3>1 DEF CellAt, l
  <2>2. CASE ~(j < q)
    <3>1. j \in 1..l - 1 <=> j + 1 \in 1..l
      BY <1>2, <1>3, <2>2
    <3> QED BY <1>8, <2>2, <3>1 DEF CellAt, l
  <2> QED BY <2>1, <2>2
<1>10. h.bucket \in [Buckets -> Cell]
  BY <1>1 DEF Heap
<1>11. g.bucket[i] = CellAt(d, 1)
  <2>1. CASE q = 1
    <3>1. CellAt(d, 1) = CellAt(c, q + 1)
      BY <1>2, <1>9, <2>1
    <3> QED BY <1>4, <1>5, <1>7, <1>10, <2>1, <3>1
  <2>2. CASE q # 1
    <3>1. 1 < q /\ 1 \in 1..l + 1
      BY <1>2, <1>3, <2>2
    <3> QED BY <1>2, <1>5, <1>7, <1>9, <2>2, <3>1
  <2> QED BY <2>1, <2>2
<1>12. ASSUME NEW j \in 1..l - 1 PROVE g.node[d[j]].next = CellAt(d, j + 1)
  <2>1. j \in 1..l /\ j + 1 \in 1..l /\ j + 1 \in 1..l + 1
    BY <1>2
  <2>2. CASE j < q - 1
    <3>1. d[j] = c[j] /\ j + 1 < q /\ j < q /\ CellAt(d, j + 1) = CellAt(c, j + 1)
      BY <1>3, <1>8, <1>9, <2>1, <2>2
    <3>2. c[j] # p
      BY <1>2, <1>3, <1>5, <2>1, <2>2, RoomIsNat
    <3> QED BY <1>2, <1>7, <2>1, <3>1, <3>2
  <2>3. CASE j = q - 1
    <3>1. j < q /\ ~(j + 1 < q) /\ j + 1 = q /\ q # 1 /\ (j + 1) + 1 = q + 1
      BY <1>2, <1>3, <2>1, <2>3
    <3>2. d[j] = c[j] /\ c[j] = p /\ CellAt(d, j + 1) = CellAt(c, q + 1) /\ p \in Node
      BY <1>5, <1>8, <1>9, <2>1, <2>3, <3>1
    <3> QED BY <1>4, <1>7, <3>2
  <2>4. CASE j >= q
    <3>1. ~(j < q) /\ ~(j + 1 < q) /\ j + 1 # q - 1
      BY <1>2, <1>3, <2>1, <2>4
    <3>2. d[j] = c[j + 1] /\ CellAt(d, j + 1) = CellAt(c, (j + 1) + 1)
      BY <1>8, <1>9, <2>1, <3>1
    <3>3. c[j + 1] # p
      BY <1>2, <1>3, <1>5, <2>1, <3>1, RoomIsNat
    <3> QED BY <1>2, <1>7, <2>1, <3>2, <3>3
  <2> QED BY <1>2, <1>3, <2>1, <2>2, <2>3, <2>4
<1>13. Links(g, i, d)
  BY <1>8, <1>11, <1>12 DEF Links
<1>14. SameElsewhere(h, g, i)
  <2> SUFFICES ASSUME NEW j \in Buckets, j # i
               PROVE  g.bucket[j] = h.bucket[j] /\ \A x \in ToSet(Chain(h, j)) : g.node[x] = h.node[x]
    BY DEF SameElsewhere
  <2>1. g.bucket[j] = h.bucket[j]
    BY <1>7, <1>10
  <2>2. ASSUME NEW x \in ToSet(Chain(h, j)) PROVE g.node[x] = h.node[x]
    <3>1. x \in Node /\ Holds(h, j, x)
      BY Members DEF SoundTable, Links
    <3>2. x # p
      <4>1. x \notin ToSet(c)
        BY <1>1, <3>1 DEF Holds
      <4> QED BY <1>2, <1>5, <3>1, <4>1, RoomIsNat
    <3>3. g.node[x].key = h.node[x].key /\ g.node[x].val = h.node[x].val /\ g.node[x].next = h.node[x].next
      BY <1>7, <3>1, <3>2
    <3>4. /\ g.node[x] \in [key : Key \cup {NoNode}, val : Value \cup {NoNode}, next : Cell]
          /\ h.node[x] \in [key : Key \cup {NoNode}, val : Value \cup {NoNode}, next : Cell]
      BY <1>1, <1>7, <3>1 DEF Heap
    <3> QED BY <3>3, <3>4
  <2> QED BY <2>1, <2>2
<1>15. \A x \in ToSet(d) : Holds(g, i, x) /\ x \in h.live /\ x \in Node /\ g.node[x].key = h.node[x].key
  BY <1>1, <1>2, <1>7, <1>8 DEF Holds
<1>16. \A x, y \in ToSet(d) : KeyClass(g.node[x].key) = KeyClass(g.node[y].key) => x = y
  BY <1>1, <1>15
<1>17. \A x : x \in g.live <=> x \in ToSet(d) \/ (x \in h.live /\ x \notin ToSet(c))
  BY <1>1, <1>4, <1>7, <1>8
<1>18. g.count = Cardinality(g.live)
  <2>1. Cardinality(h.live \ {n}) = Cardinality(h.live) - 1
    BY <1>1, <1>4, FS_RemoveElement
  <2> QED BY <1>1, <1>7, <2>1
<1>19. SoundTable(g) /\ Chain(g, i) = d /\ \A j \in Buckets : j # i => Chain(g, j) = Chain(h, j)
  <2>1. ChainBecomes(h, g, i, d)
    BY <1>13, <1>14, <1>15, <1>16, <1>17, <1>18 DEF ChainBecomes, c
  <2> QED BY <1>7, <2>1, OneChain
<1>20. g.node[n].next = h.node[n].next
  BY <1>4, <1>5, <1>7, RoomIsNat
<1> QED BY <1>7, <1>19, <1>20 DEF c, d, g, n, p

\* What a search for a key finds: its place in its chain, 0 if no live node has it.
LEMMA Finds ==
  ASSUME NEW h, SoundTable(h), NEW k \in Key
  PROVE  LET c == Chain(h, mod(k))
             at == Find(h, k)
         IN  /\ at \in 0..Len(c) /\ Len(c) \in Nat
             /\ at # 0 => at \in 1..Len(c) /\ c[at] \in h.live /\ c[at] \in ToSet(c)
                          /\ KeyClass(h.node[c[at]].key) = KeyClass(k)
             /\ at = 0 <=> \A n \in h.live : KeyClass(h.node[n].key) # KeyClass(k)
<1> DEFINE i == mod(k)
           c == Chain(h, i)
           T == {j \in 1..Len(c) : KeyClass(h.node[c[j]].key) = KeyClass(k)}
           at == Find(h, k)
<1>1. i \in Buckets
  BY KeyBucket
<1>2. /\ c \in Seq(Node) /\ Len(c) \in Nat /\ ToSet(c) = {c[j] : j \in 1..Len(c)}
      /\ \A n \in ToSet(c) : Holds(h, i, n) /\ n \in h.live
  BY <1>1, Members, LenProperties DEF SoundTable, Links
<1>3. at = IF T # {} THEN Min(T) ELSE 0
  BY DEF Find, SelectInSeq
<1>4. ASSUME NEW n \in h.live, KeyClass(h.node[n].key) = KeyClass(k) PROVE n \in ToSet(c)
  <2>1. PICK j \in Buckets : n \in ToSet(Chain(h, j)) /\ Holds(h, j, n)
    BY DEF SoundTable
  <2>2. j = i
    BY <1>4, <2>1, KeyBucket DEF Holds
  <2> QED BY <2>1, <2>2
<1> HIDE DEF c, at, i
<1>5. CASE T = {}
  <2>1. at = 0 /\ \A n \in h.live : KeyClass(h.node[n].key) # KeyClass(k)
    BY <1>2, <1>3, <1>4, <1>5
  <2> QED BY <1>2, <2>1 DEF c, at, i
<1>6. CASE T # {}
  <2>1. T \in SUBSET Nat
    OBVIOUS
  <2>2. at \in T
    <3> HIDE DEF T
    <3> QED BY <1>3, <1>6, <2>1, MinOf
  <2>3. at \in 1..Len(c) /\ at # 0 /\ KeyClass(h.node[c[at]].key) = KeyClass(k) /\ c[at] \in ToSet(c) /\ c[at] \in h.live
    BY <1>2, <2>2
  <2> QED BY <1>2, <2>3 DEF c, at, i
<1> QED BY <1>5, <1>6

\* A value in the place of another.
LEMMA Overwritten ==
  ASSUME NEW h, SoundTable(h), NEW n \in h.live, NEW v \in Value
  PROVE  LET g == [h EXCEPT !.node[n].val = v]
         IN  /\ SoundTable(g) /\ g.live = h.live /\ \A j \in Buckets : Chain(g, j) = Chain(h, j)
             /\ \A x \in Node : /\ g.node[x].key = h.node[x].key
                                /\ g.node[x].val = IF x = n THEN v ELSE h.node[x].val
<1> DEFINE g == [h EXCEPT !.node[n].val = v]
           node == [h.node EXCEPT ![n].val = v]
           r == [h EXCEPT !.live = h.live, !.count = h.count, !.bucket = h.bucket, !.node = node]
<1>1. /\ DOMAIN h = {"bucket", "node", "live", "count"} /\ h = [f \in DOMAIN h |-> h[f]] /\ h \in Heap
      /\ h.bucket \in [Buckets -> Cell] /\ h.live \in SUBSET Node /\ h.count \in Int /\ n \in Node
      /\ h.node \in [Node -> [key : Key \cup {NoNode}, val : Value \cup {NoNode}, next : Cell]]
  BY DEF SoundTable, Heap
<1>2. /\ node \in [Node -> [key : Key \cup {NoNode}, val : Value \cup {NoNode}, next : Cell]]
      /\ \A x \in Node : /\ node[x].key = h.node[x].key /\ node[x].next = h.node[x].next
                         /\ node[x].val = IF x = n THEN v ELSE h.node[x].val
  BY <1>1
<1>3. g = [h EXCEPT !.node = node]
  BY <1>1
<1>4. r = [h EXCEPT !.node = node]
  <2> HIDE DEF node
  <2> QED BY <1>1
<1> HIDE DEF node
<1>5. r \in Heap /\ r.bucket = h.bucket /\ r.node = node /\ r.live = h.live /\ r.count = h.count
  BY <1>1, <1>2, HeapOf
<1> HIDE DEF r, g
<1>6. /\ g \in Heap /\ g.bucket = h.bucket /\ g.live = h.live /\ g.count = h.count
      /\ \A x \in Node : /\ g.node[x].key = h.node[x].key /\ g.node[x].next = h.node[x].next
                         /\ g.node[x].val = IF x = n THEN v ELSE h.node[x].val
  <2>1. g = r
    BY <1>3, <1>4, Zenon
  <2> QED BY <1>2, <1>5, <2>1
<1>7. ASSUME NEW j \in Buckets
      PROVE  Links(g, j, Chain(h, j)) /\ Chain(g, j) = Chain(h, j) /\ \A x \in ToSet(Chain(h, j)) : Holds(g, j, x)
  <2> DEFINE d == Chain(h, j)
  <2>1. Links(h, j, d) /\ (\A x \in ToSet(d) : Holds(h, j, x) /\ x \in Node)
    BY Members DEF SoundTable, Links
  <2> HIDE DEF d
  <2>2. \A m \in 1..Len(d) : d[m] \in Node
    BY <2>1, ElementOfSeq DEF Links
  <2>3. Links(g, j, d)
    BY <1>6, <2>1, <2>2 DEF Links
  <2>4. \A x \in ToSet(d) : Holds(g, j, x)
    BY <1>6, <2>1 DEF Holds
  <2> QED BY <1>6, <2>3, <2>4, ChainIs DEF d
<1>8. SoundTable(g)
  <2>1. \A x : x \in g.live <=> \E j \in Buckets : x \in ToSet(Chain(g, j))
    BY <1>6, <1>7 DEF SoundTable
  <2>2. \A x, y \in g.live : KeyClass(g.node[x].key) = KeyClass(g.node[y].key) => x = y
    BY <1>1, <1>6 DEF SoundTable
  <2>3. g.count = Cardinality(g.live)
    BY <1>6 DEF SoundTable
  <2> QED BY <1>6, <1>7, <2>1, <2>2, <2>3 DEF SoundTable
<1> QED BY <1>6, <1>7, <1>8 DEF g

\* A node at the end of a chain, for a key that no live node has.
Added(h, k, v, n) ==
  LET chain == Chain(h, mod(k))
  IN  IF chain = <<>> THEN [hst_make_node(h, k, v, n) EXCEPT !.bucket[mod(k)] = n]
      ELSE [hst_make_node(h, k, v, n) EXCEPT !.node[Last(chain)].next = n]

\* Its fields.
LEMMA AddedIs ==
  ASSUME NEW h \in Heap, NEW k \in Key, NEW v \in Value, NEW n \in Node, NEW last \in Cell,
         LET c == Chain(h, mod(k)) IN IF c = <<>> THEN last = NoNode ELSE last = Last(c) /\ last \in Node /\ last # n
  PROVE  LET g == Added(h, k, v, n)
         IN  /\ g \in Heap /\ g.live = h.live \cup {n} /\ g.count = h.count + 1
             /\ g.bucket = IF last = NoNode THEN [h.bucket EXCEPT ![mod(k)] = n] ELSE h.bucket
             /\ g.node[n] = [key |-> k, val |-> v, next |-> NoNode]
             /\ \A x \in Node : x # n =>
                  /\ x # last => g.node[x] = h.node[x]
                  /\ g.node[x].key = h.node[x].key /\ g.node[x].val = h.node[x].val
                  /\ g.node[x].next = IF x = last THEN n ELSE h.node[x].next
<1> DEFINE c == Chain(h, mod(k))
           i == mod(k)
           g == Added(h, k, v, n)
           Cells == [key : Key \cup {NoNode}, val : Value \cup {NoNode}, next : Cell]
           new == [key |-> k, val |-> v, next |-> NoNode]
           with == [h.node EXCEPT ![n] = new]
           live == h.live \cup {n}
           count == h.count + 1
<1>1. /\ DOMAIN h = {"bucket", "node", "live", "count"} /\ h = [f \in DOMAIN h |-> h[f]]
      /\ h.bucket \in [Buckets -> Cell] /\ live \in SUBSET Node /\ count \in Int
      /\ h.node \in [Node -> Cells]
      /\ NoNode \notin Node /\ i \in Buckets
  BY RoomIsNat, KeyBucket DEF Heap
<1>2. /\ with \in [Node -> Cells] /\ with[n] = new /\ \A x \in Node : x # n => with[x] = h.node[x]
  <2>1. new \in Cells
    BY DEF Cell
  <2> HIDE DEF Cells, new
  <2> QED BY <1>1, <2>1
<1>3. hst_make_node(h, k, v, n) = [h EXCEPT !.node = with, !.live = live, !.count = count]
  <2>1. hst_make_node(h, k, v, n) = [h EXCEPT !.node[n] = new, !.live = live, !.count = count]
    <3> HIDE DEF new
    <3>1. hst_make_node(h, k, v, n) = [h EXCEPT !.node[n] = [key |-> k, val |-> v, next |-> NoNode], !.live = @ \cup {n}, !.count = @ + 1]
      BY DEF hst_make_node
    <3> QED BY <1>1, <3>1 DEF new
  <2> HIDE DEF new, live, count
  <2> QED BY <1>1, <2>1
<1> DEFINE made == [h EXCEPT !.node = with, !.live = live, !.count = count]
<1>4. /\ DOMAIN made = {"bucket", "node", "live", "count"} /\ made = [f \in DOMAIN made |-> made[f]]
      /\ made.bucket = h.bucket /\ made.node = with /\ made.live = live /\ made.count = count
  <2> HIDE DEF with, live, count
  <2> QED BY <1>1
<1> HIDE DEF made, with, live, count
<1>5. CASE c = <<>>
  <2> DEFINE bucket == [h.bucket EXCEPT ![i] = n]
             r == [h EXCEPT !.live = live, !.count = count, !.bucket = bucket, !.node = with]
  <2>1. bucket \in [Buckets -> Cell]
    BY <1>1 DEF Cell
  <2>2. g = [made EXCEPT !.bucket[i] = n]
    BY <1>3, <1>5 DEF Added, made
  <2>3. [made EXCEPT !.bucket[i] = n] = [bucket |-> bucket, node |-> with, live |-> live, count |-> count]
    <3>1. [made EXCEPT !.bucket[i] = n] = [made EXCEPT !.bucket = bucket]
      BY <1>4
    <3> HIDE DEF bucket
    <3> QED BY <1>4, <3>1
  <2> HIDE DEF bucket
  <2>4. [bucket |-> bucket, node |-> with, live |-> live, count |-> count] \in Heap
    BY <1>1, <1>2, <2>1 DEF Heap
  <2> HIDE DEF g
  <2>5. g \in Heap /\ g.bucket = bucket /\ g.node = with /\ g.live = live /\ g.count = count
    BY <2>2, <2>3, <2>4
  <2>6. last = NoNode
    BY <1>5
  <2>7. \A x \in Node : x # last
    BY <1>1, <2>6
  <2> QED BY <1>2, <2>5, <2>6, <2>7 DEF bucket, live, count, g
<1>6. CASE c # <<>>
  <2>1. last = Last(c) /\ last \in Node /\ last # n /\ last # NoNode
    BY <1>1, <1>6
  <2> DEFINE node == [with EXCEPT ![last].next = n]
  <2>2. /\ node \in [Node -> Cells]
        /\ \A x \in Node : /\ x # last => node[x] = with[x]
                           /\ node[x].key = with[x].key /\ node[x].val = with[x].val
                           /\ node[x].next = IF x = last THEN n ELSE with[x].next
    <3>1. with[last] \in Cells
      BY <1>2, <2>1
    <3>2. n \in Cell
      BY DEF Cell
    <3>3. node = [with EXCEPT ![last] = [with[last] EXCEPT !.next = n]]
      OBVIOUS
    <3> DEFINE e == [with[last] EXCEPT !.next = n]
    <3>4. e \in Cells /\ e.key = with[last].key /\ e.val = with[last].val /\ e.next = n
      BY <3>1, <3>2
    <3>5. node = [with EXCEPT ![last] = e]
      BY <3>3
    <3> HIDE DEF e, node, Cells
    <3> QED BY <1>2, <2>1, <3>4, <3>5
  <2>3. g = [made EXCEPT !.node[last].next = n]
    BY <1>3, <1>6, <2>1 DEF Added, made
  <2>4. [made EXCEPT !.node[last].next = n] = [bucket |-> h.bucket, node |-> node, live |-> live, count |-> count]
    BY <1>1, <1>4
  <2> HIDE DEF node, Cells
  <2>5. [bucket |-> h.bucket, node |-> node, live |-> live, count |-> count] \in Heap
    BY <1>1, <2>2 DEF Heap, Cells
  <2> HIDE DEF g
  <2>6. g \in Heap /\ g.bucket = h.bucket /\ g.node = node /\ g.live = live /\ g.count = count
    BY <2>3, <2>4, <2>5
  <2>7. g.node[n] = new
    BY <1>2, <2>1, <2>2, <2>6
  <2>8. \A x \in Node : x # n => with[x] = h.node[x]
    BY <1>2
  <2> HIDE DEF new
  <2> QED BY <2>1, <2>2, <2>6, <2>7, <2>8 DEF live, count, g, new
<1> QED BY <1>5, <1>6

\* A sound table with a node for a new key is sound.
LEMMA AddedSound ==
  ASSUME NEW h, SoundTable(h), NEW k \in Key, NEW v \in Value, NEW n \in Node, n \notin h.live,
         \A x \in h.live : KeyClass(h.node[x].key) # KeyClass(k)
  PROVE  LET g == Added(h, k, v, n)
         IN  /\ SoundTable(g) /\ g.live = h.live \cup {n}
             /\ Chain(g, mod(k)) = Append(Chain(h, mod(k)), n)
             /\ \A j \in Buckets : j # mod(k) => Chain(g, j) = Chain(h, j)
             /\ g.node[n].key = k /\ g.node[n].val = v
             /\ \A x \in h.live : g.node[x].key = h.node[x].key /\ g.node[x].val = h.node[x].val
<1> DEFINE i == mod(k)
           c == Chain(h, i)
           g == Added(h, k, v, n)
           d == Append(c, n)
           l == Len(c)
           last == IF c = <<>> THEN NoNode ELSE Last(c)
<1>1. /\ h \in Heap /\ i \in Buckets /\ Links(h, i, c) /\ \A x \in ToSet(c) : Holds(h, i, x) /\ x \in h.live
      /\ h.live \subseteq Node /\ h.count = Cardinality(h.live) /\ IsFiniteSet(h.live)
      /\ \A x, y \in h.live : KeyClass(h.node[x].key) = KeyClass(h.node[y].key) => x = y
  BY AllAreLive, KeyBucket DEF SoundTable, Heap
<1>2. /\ c \in Seq(Node) /\ IsInjective(c) /\ l \in Nat /\ ToSet(c) = {c[j] : j \in 1..l}
      /\ \A j \in 1..l : c[j] \in Node
      /\ \A j, m \in 1..l : c[j] = c[m] => j = m
      /\ h.bucket[i] = CellAt(c, 1) /\ \A j \in 1..l : h.node[c[j]].next = CellAt(c, j + 1)
      /\ (c = <<>> <=> l = 0)
  <2>1. c = <<>> <=> l = 0
    BY <1>1, EmptySeq DEF Links
  <2> HIDE DEF c, i
  <2> QED BY <1>1, <2>1, Members, LenProperties DEF Links
<1>3. last = IF l = 0 THEN NoNode ELSE c[l]
  BY <1>2 DEF Last
<1> HIDE DEF c, l, i
<1>4. /\ l = 0 => last = NoNode
      /\ l # 0 => l \in 1..l /\ last = c[l] /\ last \in Node /\ last \in ToSet(c) /\ last # n /\ last # NoNode
  <2>1. l # 0 => l \in 1..l
    BY <1>2
  <2> QED BY <1>1, <1>2, <1>3, <2>1, RoomIsNat
<1>5. last \in Cell /\ IF c = <<>> THEN last = NoNode ELSE last = Last(c) /\ last \in Node /\ last # n
  BY <1>2, <1>4 DEF Cell
<1> HIDE DEF last
<1>6. /\ g \in Heap /\ g.live = h.live \cup {n} /\ g.count = h.count + 1
      /\ g.bucket = IF last = NoNode THEN [h.bucket EXCEPT ![i] = n] ELSE h.bucket
      /\ g.node[n] = [key |-> k, val |-> v, next |-> NoNode]
      /\ \A x \in Node : x # n =>
           /\ x # last => g.node[x] = h.node[x]
           /\ g.node[x].key = h.node[x].key /\ g.node[x].val = h.node[x].val
           /\ g.node[x].next = IF x = last THEN n ELSE h.node[x].next
  <2>1. LET d0 == Chain(h, mod(k)) IN IF d0 = <<>> THEN last = NoNode ELSE last = Last(d0) /\ last \in Node /\ last # n
    BY <1>5 DEF c, i
  <2> QED BY <1>1, <1>5, <2>1, AddedIs DEF i
<1>7. n \notin ToSet(c)
  BY <1>1
<1>8. /\ d \in Seq(Node) /\ Len(d) = l + 1 /\ \A j \in 1..l : d[j] = c[j]
      /\ d[l + 1] = n /\ IsInjective(d) /\ ToSet(d) = ToSet(c) \cup {n}
  BY <1>2, <1>7, AppendProperties, OneMore DEF l
<1> HIDE DEF g, d
<1>9. g.node[n].key = k /\ g.node[n].val = v /\ g.node[n].next = NoNode
  BY <1>6
<1>10. h.bucket \in [Buckets -> Cell]
  BY <1>1 DEF Heap
<1>11. g.bucket[i] = CellAt(d, 1)
  <2>1. CASE l = 0
    <3>1. d[1] = n /\ 1 \in 1..Len(d)
      BY <1>8, <2>1
    <3> QED BY <1>1, <1>4, <1>6, <1>10, <2>1, <3>1 DEF CellAt
  <2>2. CASE l # 0
    <3>1. 1 \in 1..l /\ 1 \in 1..Len(d)
      BY <1>2, <1>8, <2>2
    <3> QED BY <1>2, <1>4, <1>6, <1>8, <2>2, <3>1 DEF CellAt, l
  <2> QED BY <2>1, <2>2
<1>12. ASSUME NEW j \in 1..l + 1 PROVE g.node[d[j]].next = CellAt(d, j + 1)
  <2>1. CASE j = l + 1
    <3>1. j + 1 \notin 1..Len(d)
      BY <1>2, <1>8, <2>1
    <3> QED BY <1>8, <1>9, <2>1, <3>1 DEF CellAt
  <2>2. CASE j = l
    <3>1. j \in 1..l /\ l # 0 /\ j + 1 \in 1..Len(d)
      BY <1>2, <1>8, <2>2
    <3>2. g.node[last].next = n
      BY <1>4, <1>6, <3>1
    <3> QED BY <1>4, <1>8, <2>2, <3>1, <3>2 DEF CellAt
  <2>3. CASE j # l + 1 /\ j # l
    <3>1. j \in 1..l /\ j + 1 \in 1..l /\ j + 1 \in 1..Len(d) /\ l # 0
      BY <1>2, <1>8, <2>3
    <3>2. c[j] # last /\ c[j] # n /\ c[j] \in Node
      BY <1>2, <1>4, <1>7, <2>3, <3>1
    <3>3. g.node[c[j]].next = c[j + 1]
      BY <1>2, <1>6, <3>1, <3>2 DEF CellAt, l
    <3> QED BY <1>8, <3>1, <3>3 DEF CellAt
  <2> QED BY <2>1, <2>2, <2>3
<1>13. Links(g, i, d)
  BY <1>8, <1>11, <1>12 DEF Links
<1>14. SameElsewhere(h, g, i)
  <2> SUFFICES ASSUME NEW j \in Buckets, j # i
               PROVE  g.bucket[j] = h.bucket[j] /\ \A x \in ToSet(Chain(h, j)) : g.node[x] = h.node[x]
    BY DEF SameElsewhere
  <2>1. g.bucket[j] = h.bucket[j]
    BY <1>6, <1>10
  <2>2. ASSUME NEW x \in ToSet(Chain(h, j)) PROVE g.node[x] = h.node[x]
    <3>1. x \in Node /\ Holds(h, j, x) /\ x \in h.live
      BY Members DEF SoundTable, Links
    <3>2. x \notin ToSet(c)
      BY <1>1, <3>1 DEF Holds
    <3>3. x # n /\ x # last
      BY <1>2, <1>4, <3>1, <3>2, RoomIsNat
    <3> QED BY <1>6, <3>1, <3>3
  <2> QED BY <2>1, <2>2
<1>15. \A x \in h.live : g.node[x].key = h.node[x].key /\ g.node[x].val = h.node[x].val
  BY <1>1, <1>6
<1>16. \A x \in ToSet(d) : Holds(g, i, x)
  <2>1. Holds(g, i, n)
    BY <1>9 DEF Holds, i
  <2>2. \A x \in ToSet(c) : Holds(g, i, x)
    BY <1>1, <1>15 DEF Holds
  <2> QED BY <1>8, <2>1, <2>2
<1>17. \A x, y \in ToSet(d) : KeyClass(g.node[x].key) = KeyClass(g.node[y].key) => x = y
  <2>1. \A x \in ToSet(c) : x \in h.live /\ g.node[x].key = h.node[x].key /\ KeyClass(h.node[x].key) # KeyClass(k)
    BY <1>1, <1>15
  <2>2. \A x \in ToSet(c) : KeyClass(g.node[x].key) # KeyClass(g.node[n].key)
    BY <1>9, <2>1
  <2>3. \A x, y \in ToSet(c) : KeyClass(g.node[x].key) = KeyClass(g.node[y].key) => x = y
    BY <1>1, <2>1
  <2> QED BY <1>8, <2>2, <2>3
<1>18. \A x : x \in g.live <=> x \in ToSet(d) \/ (x \in h.live /\ x \notin ToSet(c))
  BY <1>1, <1>6, <1>8
<1>19. g.count = Cardinality(g.live)
  <2>1. Cardinality(h.live \cup {n}) = Cardinality(h.live) + 1
    BY <1>1, FS_AddElement
  <2> QED BY <1>1, <1>6, <2>1
<1>20. SoundTable(g) /\ Chain(g, i) = d /\ \A j \in Buckets : j # i => Chain(g, j) = Chain(h, j)
  <2>1. ChainBecomes(h, g, i, d)
    BY <1>13, <1>14, <1>16, <1>17, <1>18, <1>19 DEF ChainBecomes, c
  <2> QED BY <1>1, <1>6, <2>1, OneChain
<1> QED BY <1>6, <1>9, <1>15, <1>20 DEF c, d, g, i

\* Putting a key: it is overwritten, or gets a node if one is free.
LEMMA Puts ==
  ASSUME NEW h, SoundTable(h), NEW k \in Key, NEW v \in Value, Find(h, k) = 0 => h.live # Node
  PROVE  LET g == hst_put(h, k, v)
         IN  /\ SoundTable(g)
             /\ Find(h, k) # 0 => /\ g.live = h.live /\ NodeOf(h, k) \in h.live
                                  /\ KeyClass(h.node[NodeOf(h, k)].key) = KeyClass(k)
                                  /\ \A x \in h.live : g.node[x].val = IF x = NodeOf(h, k) THEN v ELSE h.node[x].val
             /\ Find(h, k) = 0 => /\ g.live = h.live \cup {Free(h)} /\ Free(h) \in Node \ h.live
                                  /\ KeyClass(g.node[Free(h)].key) = KeyClass(k) /\ g.node[Free(h)].val = v
                                  /\ \A x \in h.live : g.node[x].val = h.node[x].val
             /\ \A x \in h.live : g.node[x].key = h.node[x].key
<1> DEFINE g == hst_put(h, k, v)
<1>1. h.live \subseteq Node
  BY DEF SoundTable, Heap
<1>2. CASE Find(h, k) # 0
  <2> DEFINE n == NodeOf(h, k)
  <2>1. n \in h.live /\ KeyClass(h.node[n].key) = KeyClass(k)
    BY <1>2, Finds DEF NodeOf
  <2>2. g = [h EXCEPT !.node[n].val = v]
    BY <1>2 DEF hst_put
  <2> HIDE DEF n, g
  <2> QED BY <1>1, <1>2, <2>1, <2>2, Overwritten DEF n, g
<1>3. CASE Find(h, k) = 0
  <2> DEFINE n == Free(h)
  <2>1. n \in Node /\ n \notin h.live
    BY <1>1, <1>3 DEF Free
  <2>2. \A x \in h.live : KeyClass(h.node[x].key) # KeyClass(k)
    BY <1>3, Finds
  <2>3. g = Added(h, k, v, n)
    BY <1>3 DEF hst_put, Added
  <2> HIDE DEF n, g
  <2> QED BY <1>3, <2>1, <2>2, <2>3, AddedSound DEF n, g
<1> QED BY <1>2, <1>3

\* The classes of the keys that are not in the table.
ClassesOf(ks) == {KeyClass(k) : k \in ks}
Missing(h, ks) == {KeyClass(k) : k \in {l \in ks : Find(h, l) = 0}}

\* If there is a node for each key of ks, there is one for the first, and then for the rest.
LEMMA FitsOn ==
  ASSUME NEW h, SoundTable(h), NEW ks \in SUBSET Key, IsFiniteSet(ClassesOf(ks)), Fits(h, ks),
         NEW k \in ks, NEW v \in Value
  PROVE  /\ Find(h, k) = 0 => h.live # Node
         /\ SoundTable(hst_put(h, k, v)) /\ Fits(hst_put(h, k, v), ks)
<1> DEFINE g == hst_put(h, k, v)
           rest == Node \ h.live
           new == Missing(h, ks)
<1>1. Cardinality(new) <= Cardinality(rest)
  BY DEF Fits, Missing
<1>2. /\ IsFiniteSet(new) /\ IsFiniteSet(rest) /\ Cardinality(new) \in Nat /\ Cardinality(rest) \in Nat
  <2>1. new \in SUBSET ClassesOf(ks) /\ rest \in SUBSET Node
    BY DEF Missing, ClassesOf
  <2> HIDE DEF new, rest
  <2>2. IsFiniteSet(new) /\ IsFiniteSet(rest)
    BY <2>1, RoomIsNat, FS_Subset
  <2> QED BY <2>2, FS_CardinalityType
<1>3. h.live \subseteq Node
  BY DEF SoundTable, Heap
<1>4. ASSUME Find(h, k) = 0 PROVE KeyClass(k) \in new /\ h.live # Node
  <2>1. KeyClass(k) \in new
    BY <1>4 DEF Missing
  <2> HIDE DEF new
  <2>2. Cardinality(new) # 0
    BY <1>2, <2>1, FS_EmptySet
  <2>3. rest # {}
    <3> HIDE DEF rest
    <3> QED BY <1>1, <1>2, <2>2, FS_EmptySet
  <2> QED BY <2>1, <2>3
<1>5. /\ SoundTable(g)
      /\ Find(h, k) # 0 => /\ g.live = h.live /\ NodeOf(h, k) \in h.live
                           /\ KeyClass(h.node[NodeOf(h, k)].key) = KeyClass(k)
      /\ Find(h, k) = 0 => /\ g.live = h.live \cup {Free(h)} /\ Free(h) \in Node \ h.live
                           /\ KeyClass(g.node[Free(h)].key) = KeyClass(k)
      /\ \A x \in h.live : g.node[x].key = h.node[x].key
  BY <1>4, Puts
<1> HIDE DEF g
<1>6. \A l \in ks : /\ Find(h, l) = 0 <=> \A n \in h.live : KeyClass(h.node[n].key) # KeyClass(l)
                    /\ Find(g, l) = 0 <=> \A n \in g.live : KeyClass(g.node[n].key) # KeyClass(l)
  BY <1>5, Finds
<1>7. CASE Find(h, k) # 0
  <2>1. \A l \in ks : Find(g, l) = 0 <=> Find(h, l) = 0
    BY <1>5, <1>6, <1>7
  <2>2. Missing(g, ks) = new /\ Node \ g.live = rest
    BY <1>5, <1>7, <2>1 DEF Missing
  <2> QED BY <1>1, <1>5, <1>7, <2>2 DEF Fits, Missing, g
<1>8. CASE Find(h, k) = 0
  <2> DEFINE n == Free(h)
  <2>1. \A l \in ks : Find(g, l) = 0 <=> Find(h, l) = 0 /\ KeyClass(l) # KeyClass(k)
    BY <1>5, <1>6, <1>8
  <2>2. Missing(g, ks) = new \ {KeyClass(k)} /\ Node \ g.live = rest \ {n} /\ n \in rest
    BY <1>5, <1>8, <2>1 DEF Missing
  <2>3. KeyClass(k) \in new
    BY <1>4, <1>8
  <2> HIDE DEF new, rest, n
  <2>4. Cardinality(new \ {KeyClass(k)}) = Cardinality(new) - 1 /\ Cardinality(rest \ {n}) = Cardinality(rest) - 1
    BY <1>2, <2>2, <2>3, FS_RemoveElement
  <2>5. Cardinality(Missing(g, ks)) <= Cardinality(Node \ g.live)
    <3> DEFINE a == Cardinality(new)
               b == Cardinality(rest)
    <3>1. a \in Nat /\ b \in Nat /\ a <= b
      BY <1>1, <1>2
    <3>2. Cardinality(Missing(g, ks)) = a - 1 /\ Cardinality(Node \ g.live) = b - 1
      BY Zenon, <2>2, <2>4
    <3> HIDE DEF a, b
    <3>3. a - 1 <= b - 1
      BY <3>1
    <3> QED BY Zenon, <3>2, <3>3
  <2> QED BY <1>4, <1>5, <1>8, <2>5 DEF Fits, Missing, g
<1> QED BY <1>7, <1>8

\* Putting pair after pair: with[n] is the table after n of them.
PutsAll(with, h, pairs) ==
  /\ with[0] = h /\ hst_add_all_from(h, pairs) = with[Len(pairs)]
  /\ \A n \in 1..Len(pairs) :
       /\ SoundTable(with[n - 1]) /\ (Find(with[n - 1], pairs[n][1]) = 0 => with[n - 1].live # Node)
       /\ with[n] = hst_put(with[n - 1], pairs[n][1], pairs[n][2]) /\ SoundTable(with[n])

LEMMA AddsAll ==
  ASSUME NEW h, SoundTable(h), NEW pairs \in Seq(Key \X Value),
         Fits(h, {pairs[i][1] : i \in DOMAIN pairs})
  PROVE  SoundTable(hst_add_all_from(h, pairs)) /\ \E with : PutsAll(with, h, pairs)
<1> DEFINE l == Len(pairs)
           ks == {pairs[i][1] : i \in DOMAIN pairs}
           X == {t \in Heap : SoundTable(t) /\ Fits(t, ks)}
           Put(t, n) == hst_put(t, pairs[n][1], pairs[n][2])
           step == [p \in (1..l) \X X |-> Put(p[2], p[1])]
           Body(f) == [n \in 0..l |-> IF n = 0 THEN h ELSE Put(f[n - 1], n)]
           with == CHOOSE f : f = Body(f)
<1>1. l \in Nat /\ DOMAIN pairs = 1..l /\ \A n \in 1..l : pairs[n] \in Key \X Value
  BY LenProperties
<1>2. \A n \in 1..l : pairs[n][1] \in ks /\ pairs[n][1] \in Key /\ pairs[n][2] \in Value
  BY <1>1
<1>3. ks \in SUBSET Key /\ IsFiniteSet(ClassesOf(ks))
  <2>1. ks \in SUBSET Key
    BY <1>1, <1>2
  <2> DEFINE f == [n \in 1..l |-> KeyClass(pairs[n][1])]
             C == ClassesOf(ks)
  <2>2. C = {f[n] : n \in 1..l}
    BY <1>1 DEF ClassesOf
  <2> HIDE DEF C
  <2>3. f \in Surjection(1..l, C)
    BY <2>2 DEF Surjection
  <2>4. IsFiniteSet(1..l)
    BY <1>1, FS_Interval
  <2> HIDE DEF f
  <2>5. IsFiniteSet(C)
    BY <2>3, <2>4, FS_Surjection
  <2> QED BY <2>1, <2>5 DEF C
<1>4. h \in X
  BY DEF SoundTable
<1> HIDE DEF ks, l
<1>5. ASSUME NEW n \in 1..l, NEW t \in X PROVE Put(t, n) \in X
  <2>1. SoundTable(Put(t, n)) /\ Fits(Put(t, n), ks)
    BY <1>2, <1>3, FitsOn
  <2> QED BY <2>1 DEF SoundTable
<1>6. \E f : f = Body(f) /\ f \in [0..l -> X]
  <2> HIDE DEF X, Put
  <2>1. \A n \in 1..l : \A t \in X : step[<<n, t>>] = Put(t, n)
    OBVIOUS
  <2> HIDE DEF step
  <2>2. Stays(l, X, step)
    BY <1>5, <2>1 DEF Stays
  <2>3. PICK g : Follows(g, l, X, h, step)
    BY <1>1, <1>4, <2>2, Recursion
  <2>4. g \in [0..l -> X] /\ g[0] = h /\ \A n \in 1..l : g[n] = step[<<n, g[n - 1]>>]
    BY <2>3 DEF Follows
  <2>5. \A n \in 0..l : g[n] = IF n = 0 THEN h ELSE Put(g[n - 1], n)
    <3> TAKE n \in 0..l
    <3>1. n # 0 => n \in 1..l /\ n - 1 \in 0..l
      BY <1>1
    <3> QED BY <2>1, <2>4, <3>1
  <2>6. g = [n \in 0..l |-> g[n]]
    BY <2>4
  <2>7. g = Body(g)
    BY <2>5, <2>6
  <2> QED BY <2>4, <2>7
<1>7. with = Body(with)
  <2> HIDE DEF Body
  <2> QED BY <1>6
<1>8. hst_add_all_from(h, pairs) = with[l]
  BY Zenon DEF hst_add_all_from, l
<1>9. \A n \in 0..l : with[n] = IF n = 0 THEN h ELSE Put(with[n - 1], n)
  <2> HIDE DEF with, Put
  <2> QED BY <1>7
<1> HIDE DEF with, Body, X, Put
<1> DEFINE T == {n \in 0..l : with[n] \in X}
<1>10. 0 \in T /\ \A n \in 1..l : n - 1 \in T => n \in T
  <2>1. 0 \in T
    BY <1>1, <1>4, <1>9
  <2>2. ASSUME NEW n \in 1..l, n - 1 \in T PROVE n \in T
    <3>1. n \in 0..l /\ n # 0
      BY <1>1
    <3> QED BY <1>5, <1>9, <2>2, <3>1
  <2> QED BY <2>1, <2>2
<1>11. \A n \in 0..l : with[n] \in X
  <2> HIDE DEF T
  <2>1. 0..l \subseteq T
    BY <1>1, <1>10, Induction
  <2> QED BY <2>1 DEF T
<1>12. \A n \in 1..l : n \in 0..l /\ n # 0 /\ n - 1 \in 0..l
  BY <1>1
<1>13. ASSUME NEW n \in 1..l, NEW t \in X PROVE Find(t, pairs[n][1]) = 0 => t.live # Node
  <2>1. SoundTable(t) /\ Fits(t, ks)
    BY DEF X
  <2> QED BY <1>2, <1>3, <2>1, FitsOn
<1>14. PutsAll(with, h, pairs)
  <2>1. with[0] = h /\ hst_add_all_from(h, pairs) = with[Len(pairs)]
    BY <1>1, <1>8, <1>9 DEF l
  <2>2. ASSUME NEW n \in 1..Len(pairs)
        PROVE  /\ SoundTable(with[n - 1]) /\ (Find(with[n - 1], pairs[n][1]) = 0 => with[n - 1].live # Node)
               /\ with[n] = hst_put(with[n - 1], pairs[n][1], pairs[n][2]) /\ SoundTable(with[n])
    <3>1. n \in 1..l /\ n \in 0..l /\ n # 0 /\ n - 1 \in 0..l
      BY <1>12 DEF l
    <3>2. with[n] \in X /\ with[n - 1] \in X
      BY <1>11, <3>1
    <3>3. with[n] = hst_put(with[n - 1], pairs[n][1], pairs[n][2])
      BY <1>9, <3>1 DEF Put
    <3>4. SoundTable(with[n - 1]) /\ SoundTable(with[n])
      BY <3>2 DEF X
    <3> QED BY <1>13, <3>1, <3>2, <3>3, <3>4
  <2> QED BY <2>1, <2>2 DEF PutsAll
<1>15. SoundTable(with[l])
  <2>1. l \in 0..l
    BY <1>1
  <2> QED BY <1>11, <2>1 DEF X
<1> QED BY <1>8, <1>14, <1>15

\* Removing a key.
LEMMA RemovesKey ==
  ASSUME NEW h, SoundTable(h), NEW k \in Key
  PROVE  SoundTable(hst_remove_key(h, k))
<1> DEFINE c == Chain(h, mod(k))
           at == Find(h, k)
<1>1. mod(k) \in Buckets /\ at \in 0..Len(c) /\ Len(c) \in Nat
  BY KeyBucket, Finds
<1>2. CASE at = 0
  BY <1>2 DEF hst_remove_key
<1>3. CASE at # 0
  <2>1. at \in 1..Len(c)
    BY <1>1, <1>3
  <2>2. hst_remove_key(h, k) = Unlink(h, mod(k), Before(c, at), c[at])
    BY <1>3 DEF hst_remove_key, Before
  <2> QED BY <1>1, <2>1, <2>2, Unlinked
<1> QED BY <1>2, <1>3

\* A new table.
LEMMA Begun == SoundTable(hst_create)
<1> DEFINE g == hst_create
<1>1. g \in Heap /\ g.live = {} /\ g.count = 0 /\ \A i \in Buckets : g.bucket[i] = NoNode
  BY DEF hst_create, Heap, Buckets, Cell
<1> HIDE DEF g
<1>2. ASSUME NEW i \in Buckets PROVE Links(g, i, Chain(g, i)) /\ Chain(g, i) = <<>> /\ ToSet(Chain(g, i)) = {}
  <2> DEFINE c == <<>>
  <2>1. c \in Seq(Node) /\ IsInjective(c) /\ ToSet(c) = {} /\ Len(c) = 0
    BY DEF IsInjective, ToSet
  <2>2. Links(g, i, c)
    BY <1>1, <2>1 DEF Links, CellAt
  <2> HIDE DEF c
  <2>3. Chain(g, i) = c
    BY <1>1, <2>2, ChainIs
  <2> QED BY <2>1, <2>2, <2>3 DEF c
<1>3. g.count = Cardinality(g.live)
  BY <1>1, FS_EmptySet
<1> QED BY <1>1, <1>2, <1>3 DEF SoundTable, g
-----------------------------------------------------------------------------
(* Removing by value: a walk along each chain.                             *)

Walks == [h : Heap, p : Cell, n : Cell]

\* The walk over a chain, step by step.
IsWalk(at, h, i, v) ==
  /\ at \in [0..Room -> Walks] /\ at[0] = [h |-> h, p |-> NoNode, n |-> h.bucket[i]]
  /\ \A n \in 1..Room : at[n] = StepOver(at[n - 1], i, v)
  /\ Sweep(h, i, v) = at[Room].h

LEMMA SweepIs ==
  ASSUME NEW h \in Heap, NEW i \in Buckets, NEW v
  PROVE  \E at : IsWalk(at, h, i, v)
<1> DEFINE first == [h |-> h, p |-> NoNode, n |-> h.bucket[i]]
           step == [p \in (1..Room) \X Walks |-> StepOver(p[2], i, v)]
           Body(f) == [n \in 0..Room |-> IF n = 0 THEN first ELSE StepOver(f[n - 1], i, v)]
           at == CHOOSE f : f = Body(f)
<1>1. first \in Walks
  BY DEF Walks, Cell, Heap
<1>2. ASSUME NEW s \in Walks PROVE StepOver(s, i, v) \in Walks
  <2> DEFINE g == IF s.h.node[s.n].val = v THEN Unlink(s.h, i, s.p, s.n) ELSE s.h
  <2>1. s.h \in Heap /\ s.p \in Cell /\ s.n \in Cell
    BY DEF Walks
  <2>2. CASE s.n = NoNode
    BY <2>2 DEF StepOver
  <2>3. CASE s.n # NoNode
    <3>1. s.n \in Node
      BY <2>1, <2>3 DEF Cell
    <3>2. g \in Heap
      BY <2>1, <3>1, UnlinkIs
    <3>3. StepOver(s, i, v) = [h |-> g, p |-> s.n, n |-> g.node[s.n].next]
      BY <2>3 DEF StepOver
    <3> HIDE DEF g
    <3>4. g.node[s.n].next \in Cell
      BY <3>1, <3>2 DEF Heap
    <3> QED BY <2>1, <3>2, <3>3, <3>4 DEF Walks
  <2> QED BY <2>2, <2>3
<1>3. Room \in Nat
  BY RoomIsNat
<1> HIDE DEF first
<1>4. \E f : f = Body(f) /\ f \in [0..Room -> Walks]
  <2>1. \A n \in 1..Room : \A y \in Walks : step[<<n, y>>] = StepOver(y, i, v)
    OBVIOUS
  <2> HIDE DEF step
  <2>2. Stays(Room, Walks, step)
    BY <1>2, <2>1 DEF Stays
  <2>3. PICK g : Follows(g, Room, Walks, first, step)
    BY <1>1, <1>3, <2>2, Recursion
  <2>4. g \in [0..Room -> Walks] /\ g[0] = first /\ \A n \in 1..Room : g[n] = step[<<n, g[n - 1]>>]
    BY <2>3 DEF Follows
  <2>5. \A n \in 0..Room : g[n] = IF n = 0 THEN first ELSE StepOver(g[n - 1], i, v)
    <3> TAKE n \in 0..Room
    <3>1. n # 0 => n \in 1..Room /\ n - 1 \in 0..Room
      BY <1>3
    <3> QED BY <2>1, <2>4, <3>1
  <2>6. g = [n \in 0..Room |-> g[n]]
    BY <2>4
  <2>7. g = Body(g)
    BY <2>5, <2>6
  <2> QED BY <2>4, <2>7
<1>5. at = Body(at)
  <2> HIDE DEF Body
  <2> QED BY <1>4
<1>6. Sweep(h, i, v) = at[Room].h
  BY Zenon DEF Sweep, Room, first
<1> HIDE DEF at
<1>7. \A n \in 0..Room : at[n] = IF n = 0 THEN first ELSE StepOver(at[n - 1], i, v)
  BY <1>5
<1>8. at = [n \in 0..Room |-> at[n]]
  BY <1>5
<1> HIDE DEF Body
<1> DEFINE T == {n \in 0..Room : at[n] \in Walks}
<1>9. at \in [0..Room -> Walks]
  <2>1. 0 \in T /\ \A n \in 1..Room : n - 1 \in T => n \in T
    <3>1. 0 \in T
      BY <1>1, <1>3, <1>7
    <3>2. ASSUME NEW n \in 1..Room, n - 1 \in T PROVE n \in T
      <4>1. n \in 0..Room /\ n # 0
        BY <1>3
      <4> QED BY <1>2, <1>7, <3>2, <4>1
    <3> QED BY <3>1, <3>2
  <2> HIDE DEF T
  <2>2. 0..Room \subseteq T
    BY <1>3, <2>1, Induction
  <2> QED BY <1>8, <2>2 DEF T
<1>10. at[0] = first /\ \A n \in 1..Room : at[n] = StepOver(at[n - 1], i, v)
  <2>1. 0 \in 0..Room /\ \A n \in 1..Room : n \in 0..Room /\ n # 0
    BY <1>3
  <2> QED BY <1>7, <2>1
<1>11. IsWalk(at, h, i, v)
  BY <1>6, <1>9, <1>10 DEF first, IsWalk
<1> QED BY <1>11

\* The nodes among the first j of c that hold v.
With(h, c, j, v) == {c[m] : m \in {m \in 1..Len(c) : m <= j /\ h.node[c[m]].val = v}}

\* After j steps over chain c: n is the next node, p the one before, and those met with v are
\* freed.  What is ahead, and what is in other chains, is as it was.
Walked(h, i, c, v, s, j) ==
  /\ s.n = CellAt(c, j + 1) /\ (j <= Len(c) => s.p = CellAt(c, j))
  /\ s.h.live = h.live \ With(h, c, j, v) /\ s.h.count = Cardinality(s.h.live)
  /\ \A x \in Node : s.h.node[x].key = h.node[x].key /\ s.h.node[x].val = h.node[x].val
  /\ \A m \in 1..Len(c) : m > j => s.h.node[c[m]] = h.node[c[m]]
  /\ \A x \in Node : x \notin ToSet(c) => s.h.node[x] = h.node[x]
  /\ \A k \in Buckets : k # i => s.h.bucket[k] = h.bucket[k]

\* A chain of live nodes in a heap that counts them.
Walkable(h, i, c) ==
  h \in Heap /\ Links(h, i, c) /\ ToSet(c) \subseteq h.live /\ h.count = Cardinality(h.live)

\* What With gains with a step.
LEMMA WithNext ==
  ASSUME NEW h, NEW c \in Seq(Node), IsInjective(c), NEW j \in 1..Len(c), NEW v
  PROVE  /\ \A x : x \in With(h, c, j, v) <=> x \in With(h, c, j - 1, v) \/ (x = c[j] /\ h.node[c[j]].val = v)
         /\ c[j] \notin With(h, c, j - 1, v)
<1>1. Len(c) \in Nat /\ \A m, n \in 1..Len(c) : c[m] = c[n] => m = n
  BY Members, LenProperties
<1>2. \A m \in 1..Len(c) : m <= j <=> m <= j - 1 \/ m = j
  BY <1>1
<1>3. ~(j <= j - 1)
  BY <1>1
<1>4. c[j] \notin With(h, c, j - 1, v)
  BY <1>1, <1>3 DEF With
<1> DEFINE A == {m \in 1..Len(c) : m <= j /\ h.node[c[m]].val = v}
           B == {m \in 1..Len(c) : m <= j - 1 /\ h.node[c[m]].val = v}
<1>5. A = IF h.node[c[j]].val = v THEN B \cup {j} ELSE B
  BY <1>2
<1>6. With(h, c, j, v) = {c[m] : m \in A} /\ With(h, c, j - 1, v) = {c[m] : m \in B}
  BY DEF With
<1> HIDE DEF A, B
<1> QED BY <1>4, <1>5, <1>6

\* One step of the walk.
LEMMA WalksOn ==
  ASSUME NEW h, NEW i \in Buckets, NEW c, Walkable(h, i, c), NEW v,
         NEW j \in Nat \ {0}, NEW s \in Walks, Walked(h, i, c, v, s, j - 1)
  PROVE  Walked(h, i, c, v, StepOver(s, i, v), j)
<1> DEFINE l == Len(c)
           t == StepOver(s, i, v)
<1>1. /\ h \in Heap /\ c \in Seq(Node) /\ IsInjective(c) /\ l \in Nat /\ ToSet(c) = {c[m] : m \in 1..l}
      /\ \A m \in 1..l : c[m] \in Node /\ c[m] \in h.live
      /\ \A m, n \in 1..l : c[m] = c[n] => m = n
      /\ \A m \in 1..l : h.node[c[m]].next = CellAt(c, m + 1)
      /\ h.live \in SUBSET Node /\ NoNode \notin Node
  BY Members, LenProperties, RoomIsNat DEF Walkable, Links, Heap
<1>2. s.h \in Heap /\ s.p \in Cell /\ s.n \in Cell /\ (j - 1) + 1 = j
  BY DEF Walks
<1>3. /\ s.n = CellAt(c, j) /\ (j - 1 <= l => s.p = CellAt(c, j - 1))
      /\ s.h.live = h.live \ With(h, c, j - 1, v) /\ s.h.count = Cardinality(s.h.live)
      /\ \A x \in Node : s.h.node[x].key = h.node[x].key /\ s.h.node[x].val = h.node[x].val
      /\ \A m \in 1..l : m > j - 1 => s.h.node[c[m]] = h.node[c[m]]
      /\ \A x \in Node : x \notin ToSet(c) => s.h.node[x] = h.node[x]
      /\ \A k \in Buckets : k # i => s.h.bucket[k] = h.bucket[k]
  BY <1>2 DEF Walked
<1>4. CASE j \notin 1..l
  <2>1. s.n = NoNode /\ t = s
    BY <1>3, <1>4 DEF CellAt, StepOver
  <2>2. j + 1 \notin 1..l /\ ~(j <= l)
    BY <1>1, <1>4
  <2>3. With(h, c, j, v) = With(h, c, j - 1, v)
    <3>1. \A m \in 1..l : m <= j <=> m <= j - 1
      BY <1>1, <2>2
    <3> QED BY <3>1 DEF With
  <2>4. \A m \in 1..l : ~(m > j)
    BY <1>1, <2>2
  <2> QED BY <1>3, <2>1, <2>2, <2>3, <2>4 DEF Walked, CellAt
<1>5. CASE j \in 1..l
  <2> DEFINE n == c[j]
             g == IF h.node[n].val = v THEN Unlink(s.h, i, s.p, n) ELSE s.h
  <2>1. n \in Node /\ n # NoNode /\ s.n = n /\ n \notin With(h, c, j - 1, v) /\ n \in s.h.live
    <3>1. n \notin With(h, c, j - 1, v)
      BY <1>1, <1>5, WithNext, Zenon
    <3> QED BY <1>1, <1>3, <1>5, <3>1 DEF CellAt
  <2>2. With(h, c, j, v) = IF h.node[n].val = v THEN With(h, c, j - 1, v) \cup {n} ELSE With(h, c, j - 1, v)
    <3>1. \A x : x \in With(h, c, j, v) <=> x \in With(h, c, j - 1, v) \/ (x = n /\ h.node[n].val = v)
      BY <1>1, <1>5, WithNext, Zenon
    <3> QED BY <3>1
  <2>3. s.h.node[n].val = h.node[n].val /\ s.h.node[n] = h.node[n]
    <3>1. j > j - 1
      OBVIOUS
    <3> QED BY <1>3, <1>5, <2>1, <3>1
  <2>4. t = [h |-> g, p |-> n, n |-> g.node[n].next]
    BY <2>1, <2>3 DEF StepOver
  <2>5. s.p = CellAt(c, j - 1) /\ j - 1 <= l /\ j <= l
    BY <1>1, <1>3, <1>5
  <2>6. ASSUME NEW m \in 1..l, m > j - 1 PROVE c[m] # s.p
    <3>1. CASE j - 1 \in 1..l
      <4>1. s.p = c[j - 1] /\ m # j - 1
        BY <2>5, <2>6, <3>1 DEF CellAt
      <4> QED BY <1>1, <3>1, <4>1
    <3>2. CASE j - 1 \notin 1..l
      BY <1>1, <2>5, <3>2 DEF CellAt
    <3> QED BY <3>1, <3>2
  <2>7. \A x \in Node : x \notin ToSet(c) => x # s.p
    BY <1>1, <2>5 DEF CellAt
  <2>8. CASE h.node[n].val = v
    <3>1. g = Unlink(s.h, i, s.p, n)
      BY <2>8
    <3> HIDE DEF g, n
    <3>2. /\ g \in Heap /\ g.live = s.h.live \ {n} /\ g.count = s.h.count - 1
          /\ g.bucket = IF s.p = NoNode THEN [s.h.bucket EXCEPT ![i] = s.h.node[n].next] ELSE s.h.bucket
          /\ \A x \in Node : /\ g.node[x].key = s.h.node[x].key /\ g.node[x].val = s.h.node[x].val
                             /\ g.node[x].next = IF x = s.p THEN s.h.node[n].next ELSE s.h.node[x].next
      BY <1>2, <2>1, <3>1, UnlinkIs
    <3>3. \A x \in Node : x # s.p => g.node[x] = s.h.node[x]
      <4> TAKE x \in Node
      <4>1. /\ g.node[x] \in [key : Key \cup {NoNode}, val : Value \cup {NoNode}, next : Cell]
            /\ s.h.node[x] \in [key : Key \cup {NoNode}, val : Value \cup {NoNode}, next : Cell]
        BY <1>2, <3>2 DEF Heap
      <4> QED BY <3>2, <4>1
    <3>4. \A m \in 1..l : m > j - 1 => g.node[c[m]] = h.node[c[m]]
      BY <1>1, <1>3, <2>6, <3>3
    <3>5. \A x \in Node : x \notin ToSet(c) => g.node[x] = h.node[x]
      BY <1>3, <2>7, <3>3
    <3>6. g.live = h.live \ With(h, c, j, v)
      BY <1>3, <2>2, <2>8, <3>2
    <3>7. g.count = Cardinality(g.live)
      <4>1. s.h.live \in SUBSET Node
        BY <1>2 DEF Heap
      <4>2. IsFiniteSet(s.h.live)
        BY <4>1, RoomIsNat, FS_Subset
      <4>3. Cardinality(s.h.live \ {n}) = Cardinality(s.h.live) - 1
        BY <2>1, <4>2, FS_RemoveElement
      <4> QED BY <1>3, <3>2, <4>3, Zenon
    <3>8. \A k \in Buckets : k # i => g.bucket[k] = h.bucket[k]
      <4>1. s.h.bucket \in [Buckets -> Cell]
        BY <1>2 DEF Heap
      <4> QED BY <1>3, <3>2, <4>1
    <3>9. g.node[n].next = CellAt(c, j + 1)
      <4>1. j > j - 1
        OBVIOUS
      <4> QED BY <1>1, <1>5, <3>4, <4>1 DEF n
    <3>10. t.h = g /\ t.p = n /\ t.n = CellAt(c, j + 1) /\ n = CellAt(c, j)
      BY <1>5, <2>4, <3>9 DEF CellAt, n
    <3>11. \A m \in 1..l : m > j => m > j - 1
      BY <1>1
    <3>12. \A x \in Node : g.node[x].key = h.node[x].key /\ g.node[x].val = h.node[x].val
      BY <1>3, <3>2
    <3> HIDE DEF t
    <3>13. Walked(h, i, c, v, t, j)
      BY <3>4, <3>5, <3>6, <3>7, <3>8, <3>10, <3>11, <3>12 DEF Walked
    <3> QED BY <3>13 DEF t
  <2>9. CASE h.node[n].val # v
    <3>1. g = s.h
      BY <2>9
    <3> HIDE DEF g
    <3>2. s.h.node[n].next = CellAt(c, j + 1)
      BY <1>1, <1>5, <2>3
    <3>3. t.h = s.h /\ t.p = n /\ t.n = CellAt(c, j + 1) /\ n = CellAt(c, j)
      BY <1>5, <2>4, <3>1, <3>2 DEF CellAt
    <3>4. \A m \in 1..l : m > j => m > j - 1
      BY <1>1
    <3> HIDE DEF t
    <3>5. Walked(h, i, c, v, t, j)
      BY <1>3, <2>2, <2>9, <3>3, <3>4 DEF Walked
    <3> QED BY <3>5 DEF t
  <2> QED BY <2>8, <2>9
<1> QED BY <1>4, <1>5

\* Two neighbours in c hold v.
Pairs(h, c, v) == \E j \in 1..Len(c)-1 : h.node[c[j]].val = v /\ h.node[c[j + 1]].val = v

\* After j steps the table is sound: chain i ends in what is ahead of c, and the node
\* before it, if it did not hold v, is still there.
Straight(h, i, c, v, s, j) ==
  /\ SoundTable(s.h)
  /\ j <= Len(c) => \E q \in Nat : LET d == Chain(s.h, i) IN
       /\ Len(d) = q + (Len(c) - j) /\ (j = 0 => q = 0)
       /\ \A m \in 1..Len(c)-j : d[q + m] = c[j + m]
       /\ j # 0 /\ h.node[c[j]].val # v => q # 0 /\ d[q] = c[j]

\* No two neighbours hold v, so that the node before the one that is freed is in the chain.
LEMMA StraightOn ==
  ASSUME NEW h, NEW i \in Buckets, NEW c, Walkable(h, i, c), NEW v, ~Pairs(h, c, v),
         NEW j \in Nat \ {0}, NEW s \in Walks, Walked(h, i, c, v, s, j - 1), Straight(h, i, c, v, s, j - 1)
  PROVE  Straight(h, i, c, v, StepOver(s, i, v), j)
<1> DEFINE l == Len(c)
           t == StepOver(s, i, v)
<1>1. /\ c \in Seq(Node) /\ l \in Nat /\ (\A m \in 1..l : c[m] \in Node) /\ NoNode \notin Node
      /\ (j - 1) + 1 = j /\ s.n = CellAt(c, j) /\ (j - 1 <= l => s.p = CellAt(c, j - 1))
      /\ \A x \in Node : s.h.node[x].key = h.node[x].key /\ s.h.node[x].val = h.node[x].val
  BY LenProperties, ElementOfSeq, RoomIsNat DEF Walkable, Links, Walked
<1>2. SoundTable(s.h)
  BY DEF Straight
<1>3. CASE j \notin 1..l
  <2>1. t = s
    BY <1>1, <1>3 DEF CellAt, StepOver
  <2>2. ~(j <= l)
    BY <1>1, <1>3
  <2> QED BY <1>2, <2>1, <2>2 DEF Straight
<1>4. CASE j \in 1..l
  <2> DEFINE n == c[j]
             d == Chain(s.h, i)
             g == IF h.node[n].val = v THEN Unlink(s.h, i, s.p, n) ELSE s.h
  <2>1. n \in Node /\ n # NoNode /\ s.n = n /\ s.p = CellAt(c, j - 1) /\ s.h.node[n].val = h.node[n].val
    BY <1>1, <1>4 DEF CellAt
  <2>2. t.h = g
    BY <2>1 DEF StepOver
  <2>3. PICK q \in Nat : /\ Len(d) = q + (l - (j - 1)) /\ (j - 1 = 0 => q = 0)
                         /\ \A m \in 1..l-(j - 1) : d[q + m] = c[(j - 1) + m]
                         /\ j - 1 # 0 /\ h.node[c[j - 1]].val # v => q # 0 /\ d[q] = c[j - 1]
    <3>1. j - 1 <= l
      BY <1>1, <1>4
    <3> QED BY <3>1, Zenon DEF Straight
  <2>4. d \in Seq(Node) /\ Links(s.h, i, d)
    BY <1>2 DEF SoundTable, Links
  <2>5. q + 1 \in 1..Len(d) /\ d[q + 1] = n
    <3>1. 1 \in 1..l-(j - 1)
      BY <1>1, <1>4
    <3>2. d[q + 1] = c[(j - 1) + 1]
      BY <2>3, <3>1
    <3>3. q + 1 \in 1..Len(d)
      BY <1>1, <1>4, <2>3
    <3> QED BY <1>1, <3>2, <3>3
  <2>6. ASSUME NEW m \in 1..l-j PROVE d[(q + 1) + m] = c[j + m] /\ j + m \in 1..l
    <3>1. 1 + m \in 1..l-(j - 1) /\ q + (1 + m) = (q + 1) + m /\ (j - 1) + (1 + m) = j + m /\ j + m \in 1..l
      BY <1>1, <1>4
    <3>2. d[q + (1 + m)] = c[(j - 1) + (1 + m)]
      BY <2>3, <3>1
    <3> QED BY <3>1, <3>2
  <2>7. CASE h.node[n].val = v
    <3>1. s.p = Before(d, q + 1)
      <4>1. CASE j = 1
        <5>1. j - 1 \notin 1..l /\ q + 1 = 1
          BY <2>3, <4>1
        <5> QED BY <2>1, <5>1 DEF CellAt, Before
      <4>2. CASE j # 1
        <5>1. j - 1 \in 1..l - 1 /\ j - 1 \in 1..l /\ j - 1 # 0
          BY <1>1, <1>4, <4>2
        <5>2. h.node[c[j - 1]].val # v
          BY <1>1, <2>7, <5>1 DEF Pairs
        <5>3. q # 0 /\ d[q] = c[j - 1]
          BY <2>3, <5>1, <5>2
        <5>4. q + 1 # 1 /\ (q + 1) - 1 = q
          BY <5>3
        <5> QED BY <2>1, <5>1, <5>3, <5>4 DEF CellAt, Before
      <4> QED BY <4>1, <4>2
    <3>2. g = Unlink(s.h, i, Before(d, q + 1), d[q + 1])
      BY <2>5, <2>7, <3>1
    <3> DEFINE e == RemoveAt(d, q + 1)
    <3> HIDE DEF g, n
    <3>3. SoundTable(g) /\ Chain(g, i) = e
      BY <1>2, <2>5, <3>2, Unlinked
    <3>4. e \in Seq(Node) /\ Len(e) = Len(d) - 1 /\ \A m \in 1..Len(d)-1 : e[m] = IF m < q + 1 THEN d[m] ELSE d[m + 1]
      BY <2>4, <2>5, RemovedAt
    <3> HIDE DEF e, d
    <3>5. Len(e) = q + (l - j)
      BY <1>1, <1>4, <2>3, <3>4
    <3>6. ASSUME NEW m \in 1..l-j PROVE e[q + m] = c[j + m]
      <4>1. q + m \in 1..Len(d)-1 /\ ~(q + m < q + 1) /\ (q + m) + 1 = (q + 1) + m
        BY <1>1, <1>4, <2>3
      <4> QED BY <2>6, <3>4, <4>1
    <3>7. h.node[c[j]].val = v /\ j # 0
      BY <1>4, <2>7 DEF n
    <3> HIDE DEF t
    <3>8. Straight(h, i, c, v, t, j)
      BY <2>2, <3>3, <3>5, <3>6, <3>7 DEF Straight
    <3> QED BY <3>8 DEF t
  <2>8. CASE h.node[n].val # v
    <3>1. t.h = s.h
      BY <2>2, <2>8
    <3>2. Len(d) = (q + 1) + (l - j) /\ j # 0 /\ q + 1 \in Nat /\ q + 1 # 0
      BY <1>1, <1>4, <2>3
    <3> HIDE DEF t, d
    <3>3. Straight(h, i, c, v, t, j)
      BY <1>2, <2>5, <2>6, <3>1, <3>2 DEF Straight, d
    <3> QED BY <3>3 DEF t
  <2> QED BY <2>7, <2>8
<1> QED BY <1>3, <1>4

\* A walk over one chain.  What holds v is freed, in the order of the chain; if no two
\* neighbours hold it, the table stays sound.
LEMMA Swept ==
  ASSUME NEW h, NEW i \in Buckets, NEW c, Walkable(h, i, c), NEW v
  PROVE  LET g == Sweep(h, i, v)
         IN  /\ g \in Heap /\ g.live = h.live \ With(h, c, Len(c), v) /\ g.count = Cardinality(g.live)
             /\ \A x \in Node : g.node[x].key = h.node[x].key /\ g.node[x].val = h.node[x].val
             /\ \A x \in Node : x \notin ToSet(c) => g.node[x] = h.node[x]
             /\ \A k \in Buckets : k # i => g.bucket[k] = h.bucket[k]
             /\ SoundTable(h) /\ ~Pairs(h, c, v) => SoundTable(g)
<1> DEFINE l == Len(c)
<1>1. l \in 0..Room /\ Room \in Nat /\ c \in Seq(Node) /\ h \in Heap /\ l \in Nat
  BY ChainFits, RoomIsNat DEF Walkable, Links
<1>0. PICK at : IsWalk(at, h, i, v)
  BY <1>1, SweepIs
<1>2. /\ at \in [0..Room -> Walks] /\ at[0] = [h |-> h, p |-> NoNode, n |-> h.bucket[i]]
      /\ \A n \in 1..Room : at[n] = StepOver(at[n - 1], i, v)
      /\ Sweep(h, i, v) = at[Room].h
  BY <1>0 DEF IsWalk
<1> DEFINE T == {n \in 0..Room : /\ Walked(h, i, c, v, at[n], n)
                                 /\ SoundTable(h) /\ ~Pairs(h, c, v) => Straight(h, i, c, v, at[n], n)}
<1>3. Walked(h, i, c, v, at[0], 0)
  <2> DEFINE s == at[0]
  <2>1. s.h = h /\ s.p = NoNode /\ s.n = CellAt(c, 0 + 1)
    BY <1>2 DEF Walkable, Links
  <2>2. With(h, c, 0, v) = {} /\ CellAt(c, 0) = NoNode
    BY <1>1 DEF With, CellAt
  <2> HIDE DEF s
  <2>3. Walked(h, i, c, v, s, 0)
    BY <2>1, <2>2 DEF Walked, Walkable
  <2> QED BY <2>3 DEF s
<1>4. ASSUME SoundTable(h) PROVE Straight(h, i, c, v, at[0], 0)
  <2> DEFINE s == at[0]
  <2>1. s.h = h
    BY <1>2
  <2>2. Chain(h, i) = c
    BY <1>1, ChainIs DEF Walkable
  <2> HIDE DEF s
  <2>3. Len(c) = 0 + (Len(c) - 0) /\ \A m \in 1..Len(c)-0 : c[0 + m] = c[0 + m]
    BY <1>1
  <2>4. Straight(h, i, c, v, s, 0)
    BY <1>4, <2>1, <2>2, <2>3 DEF Straight
  <2> QED BY <2>4 DEF s
<1>5. ASSUME NEW n \in 1..Room, n - 1 \in T PROVE n \in T
  <2>1. n \in 0..Room /\ n \in Nat \ {0} /\ n - 1 \in 0..Room /\ at[n - 1] \in Walks /\ at[n] = StepOver(at[n - 1], i, v)
    BY <1>1, <1>2
  <2>2. Walked(h, i, c, v, at[n - 1], n - 1)
    BY <1>5
  <2>3. Walked(h, i, c, v, at[n], n)
    BY <2>1, <2>2, WalksOn
  <2>4. ASSUME SoundTable(h), ~Pairs(h, c, v) PROVE Straight(h, i, c, v, at[n], n)
    <3>1. Straight(h, i, c, v, at[n - 1], n - 1)
      BY <1>5, <2>4
    <3> QED BY <2>1, <2>2, <2>4, <3>1, StraightOn
  <2> QED BY <2>1, <2>3, <2>4
<1>6. Room \in T
  <2>1. 0 \in T
    BY <1>1, <1>3, <1>4
  <2> HIDE DEF T
  <2>2. 0..Room \subseteq T
    BY <1>1, <1>5, <2>1, Induction
  <2> QED BY <1>1, <2>2
<1> DEFINE g == at[Room].h
<1>7. /\ g.live = h.live \ With(h, c, Room, v) /\ g.count = Cardinality(g.live)
      /\ \A x \in Node : g.node[x].key = h.node[x].key /\ g.node[x].val = h.node[x].val
      /\ \A x \in Node : x \notin ToSet(c) => g.node[x] = h.node[x]
      /\ \A k \in Buckets : k # i => g.bucket[k] = h.bucket[k]
  BY <1>6 DEF Walked
<1>8. SoundTable(h) /\ ~Pairs(h, c, v) => SoundTable(g)
  BY <1>6 DEF Straight
<1>9. g \in Heap
  <2>1. at[Room] \in Walks
    BY <1>1, <1>2
  <2> QED BY <2>1 DEF Walks
<1>10. With(h, c, Room, v) = With(h, c, Len(c), v)
  <2>1. \A m \in 1..Len(c) : m <= Room /\ m <= Len(c)
    BY <1>1
  <2> QED BY <2>1 DEF With
<1> HIDE DEF g
<1>11. Sweep(h, i, v) = g
  BY <1>2 DEF g
<1> QED BY <1>7, <1>8, <1>9, <1>10, <1>11

\* Removing from the buckets up to n what holds v leaves the chains of the others; what is
\* freed is counted.  The table stays sound if no two neighbours hold v.
Cleared(h, v, g, n) ==
  /\ g \in Heap /\ g.count = Cardinality(g.live)
  /\ \A x : x \in g.live <=> x \in h.live /\ ~\E i \in Buckets : i < n /\ x \in ToSet(Chain(h, i)) /\ h.node[x].val = v
  /\ \A x \in Node : g.node[x].key = h.node[x].key /\ g.node[x].val = h.node[x].val
  /\ \A i \in Buckets : i >= n => Links(g, i, Chain(h, i))
  /\ ~Neighbours(h, v) => SoundTable(g)

LEMMA ClearsOn ==
  ASSUME NEW h, SoundTable(h), NEW v, NEW n \in 1..Size, NEW g, Cleared(h, v, g, n - 1)
  PROVE  Cleared(h, v, Sweep(g, n - 1, v), n)
<1> DEFINE i == n - 1
           c == Chain(h, i)
           f == Sweep(g, i, v)
<1>1. i \in Buckets /\ n \in Nat /\ \A j \in Buckets : /\ (j < n <=> j < i \/ j = i) /\ (j >= n => j # i /\ j >= i)
                                         /\ ~(i < i) /\ i >= i
  BY DEF Buckets, Size
<1> HIDE DEF i
<1>2. /\ g \in Heap /\ g.count = Cardinality(g.live)
      /\ \A x : x \in g.live <=> x \in h.live /\ ~\E j \in Buckets : j < i /\ x \in ToSet(Chain(h, j)) /\ h.node[x].val = v
      /\ \A x \in Node : g.node[x].key = h.node[x].key /\ g.node[x].val = h.node[x].val
      /\ \A j \in Buckets : j >= i => Links(g, j, Chain(h, j))
      /\ ~Neighbours(h, v) => SoundTable(g)
  BY DEF Cleared, i
<1>3. \A j, k \in Buckets : \A x : x \in ToSet(Chain(h, j)) /\ x \in ToSet(Chain(h, k)) => j = k
  <2> TAKE j, k \in Buckets
  <2> TAKE x
  <2>1. x \in ToSet(Chain(h, j)) => Holds(h, j, x)
    BY DEF SoundTable
  <2>2. x \in ToSet(Chain(h, k)) => Holds(h, k, x)
    BY DEF SoundTable
  <2> QED BY <2>1, <2>2 DEF Holds
<1>4. Walkable(g, i, c)
  <2>1. \A x \in ToSet(c) : x \in h.live
    BY <1>1 DEF SoundTable
  <2>2. ToSet(c) \subseteq g.live
    BY <1>1, <1>2, <1>3, <2>1
  <2> QED BY <1>1, <1>2, <2>2 DEF Walkable
<1>5. /\ c \in Seq(Node) /\ Len(c) \in Nat /\ ToSet(c) = {c[m] : m \in 1..Len(c)} /\ \A m \in 1..Len(c) : c[m] \in Node
  BY <1>1, Members, LenProperties DEF SoundTable, Links
<1>6. ~Neighbours(h, v) => ~Pairs(g, c, v)
  <2> SUFFICES ASSUME Pairs(g, c, v) PROVE Neighbours(h, v)
    OBVIOUS
  <2>1. PICK j \in 1..Len(c)-1 : g.node[c[j]].val = v /\ g.node[c[j + 1]].val = v
    BY DEF Pairs
  <2>2. j \in 1..Len(c) /\ j + 1 \in 1..Len(c)
    BY <1>5
  <2>3. h.node[c[j]].val = v /\ h.node[c[j + 1]].val = v
    BY <1>2, <1>5, <2>1, <2>2
  <2> QED BY <1>1, <2>3 DEF Neighbours, Buckets
<1> HIDE DEF c
<1>7. /\ f \in Heap /\ f.live = g.live \ With(g, c, Len(c), v) /\ f.count = Cardinality(f.live)
      /\ \A x \in Node : f.node[x].key = g.node[x].key /\ f.node[x].val = g.node[x].val
      /\ \A x \in Node : x \notin ToSet(c) => f.node[x] = g.node[x]
      /\ \A k \in Buckets : k # i => f.bucket[k] = g.bucket[k]
      /\ SoundTable(g) /\ ~Pairs(g, c, v) => SoundTable(f)
  BY Zenon, <1>1, <1>4, Swept
<1> HIDE DEF f
<1>8. \A x : x \in With(g, c, Len(c), v) <=> x \in ToSet(c) /\ h.node[x].val = v
  <2>1. \A m \in 1..Len(c) : m <= Len(c) /\ g.node[c[m]].val = h.node[c[m]].val
    BY <1>2, <1>5
  <2> QED BY <1>5, <2>1 DEF With
<1>9. \A x : x \in f.live <=> x \in h.live /\ ~\E j \in Buckets : j < n /\ x \in ToSet(Chain(h, j)) /\ h.node[x].val = v
  <2> TAKE x
  <2>1. (\E j \in Buckets : j < n /\ x \in ToSet(Chain(h, j)) /\ h.node[x].val = v)
        <=> \/ \E j \in Buckets : j < i /\ x \in ToSet(Chain(h, j)) /\ h.node[x].val = v
            \/ x \in ToSet(c) /\ h.node[x].val = v
    BY <1>1 DEF c
  <2> QED BY <1>2, <1>7, <1>8, <2>1
<1>10. ASSUME NEW j \in Buckets, j >= n PROVE Links(f, j, Chain(h, j))
  <2> DEFINE d == Chain(h, j)
  <2>1. Links(g, j, d) /\ j # i
    BY <1>1, <1>2, <1>10
  <2>2. \A x \in ToSet(d) : x \notin ToSet(c)
    BY <1>1, <1>3, <2>1 DEF c
  <2> HIDE DEF d
  <2>3. \A m \in 1..Len(d) : d[m] \in ToSet(d) /\ d[m] \in Node
    BY <2>1, Members, ElementOfSeq DEF Links
  <2>4. f.bucket[j] = g.bucket[j] /\ \A m \in 1..Len(d) : f.node[d[m]] = g.node[d[m]]
    BY <1>7, <2>1, <2>2, <2>3
  <2>5. Links(f, j, d)
    BY <2>1, <2>4 DEF Links
  <2> QED BY <2>5 DEF d
<1>11. Cleared(h, v, f, n)
  BY <1>2, <1>6, <1>7, <1>9, <1>10 DEF Cleared
<1> QED BY <1>11 DEF f, i

\* Removing by value.
LEMMA RemovesVal ==
  ASSUME NEW h, SoundTable(h), NEW v
  PROVE  Cleared(h, v, hst_remove_val(h, v), Size)
<1> DEFINE step == [p \in (1..Size) \X Heap |-> Sweep(p[2], p[1] - 1, v)]
           Body(f) == [n \in 0..Size |-> IF n = 0 THEN h ELSE Sweep(f[n - 1], n - 1, v)]
           swept == CHOOSE f : f = Body(f)
<1>1. Size \in Nat /\ h \in Heap /\ \A n \in 1..Size : n \in 0..Size /\ n # 0 /\ n - 1 \in 0..Size /\ n - 1 \in Buckets
  BY DEF Size, SoundTable, Buckets
<1>2. ASSUME NEW n \in 1..Size, NEW g \in Heap PROVE Sweep(g, n - 1, v) \in Heap
  <2>0. PICK at : IsWalk(at, g, n - 1, v)
    BY <1>1, SweepIs
  <2>1. at \in [0..Room -> Walks] /\ Sweep(g, n - 1, v) = at[Room].h
    BY <2>0 DEF IsWalk
  <2>2. at[Room] \in Walks
    BY <2>1, RoomIsNat
  <2> QED BY <2>1, <2>2 DEF Walks
<1>3. \E f : f = Body(f)
  <2>1. \A n \in 1..Size : \A y \in Heap : step[<<n, y>>] = Sweep(y, n - 1, v)
    OBVIOUS
  <2> HIDE DEF step
  <2>2. Stays(Size, Heap, step)
    BY <1>2, <2>1 DEF Stays
  <2>3. PICK g : Follows(g, Size, Heap, h, step)
    BY <1>1, <2>2, Recursion
  <2>4. g \in [0..Size -> Heap] /\ g[0] = h /\ \A n \in 1..Size : g[n] = step[<<n, g[n - 1]>>]
    BY <2>3 DEF Follows
  <2>5. \A n \in 0..Size : g[n] = IF n = 0 THEN h ELSE Sweep(g[n - 1], n - 1, v)
    <3> TAKE n \in 0..Size
    <3>1. n # 0 => n \in 1..Size /\ n - 1 \in 0..Size
      BY <1>1
    <3> QED BY <2>1, <2>4, <3>1
  <2>6. g = [n \in 0..Size |-> g[n]]
    BY <2>4
  <2>7. g = Body(g)
    BY <2>5, <2>6
  <2> QED BY <2>7
<1>4. swept = Body(swept)
  <2> HIDE DEF Body
  <2> QED BY <1>3
<1>5. hst_remove_val(h, v) = swept[Size]
  BY Zenon DEF hst_remove_val
<1>6. \A n \in 0..Size : swept[n] = IF n = 0 THEN h ELSE Sweep(swept[n - 1], n - 1, v)
  <2> HIDE DEF swept
  <2> QED BY <1>4
<1> HIDE DEF swept, Body
<1> DEFINE T == {n \in 0..Size : Cleared(h, v, swept[n], n)}
<1>7. 0 \in T
  <2>1. swept[0] = h /\ 0 \in 0..Size
    BY <1>1, <1>6
  <2>2. \A i \in Buckets : ~(i < 0)
    BY DEF Buckets
  <2>3. h.count = Cardinality(h.live) /\ \A i \in Buckets : Links(h, i, Chain(h, i))
    BY DEF SoundTable
  <2>4. Cleared(h, v, h, 0)
    BY <1>1, <2>2, <2>3 DEF Cleared
  <2> QED BY <2>1, <2>4
<1>8. ASSUME NEW n \in 1..Size, n - 1 \in T PROVE n \in T
  <2>1. Cleared(h, v, swept[n - 1], n - 1)
    BY <1>8
  <2>2. Cleared(h, v, Sweep(swept[n - 1], n - 1, v), n)
    BY <2>1, ClearsOn
  <2> QED BY <1>1, <1>6, <2>2
<1>9. Size \in T
  <2> HIDE DEF T
  <2>1. 0..Size \subseteq T
    BY <1>1, <1>7, <1>8, Induction
  <2> QED BY <1>1, <2>1
<1> QED BY <1>5, <1>9
-----------------------------------------------------------------------------
(* The invariant of a table.                                               *)

TableInv ==
  /\ ht \in Heap /\ ht.count = Cardinality(ht.live) /\ member = ht.count /\ adjacent \in BOOLEAN
  /\ ~adjacent => SoundTable(ht)

\* What the run checks follows.
LEMMA TableIs == TableInv => ChainsSound /\ TableTypeOK
<1> SUFFICES ASSUME TableInv PROVE ChainsSound /\ TableTypeOK
  OBVIOUS
<1>1. ht \in Heap /\ ht.count = Cardinality(ht.live) /\ member = ht.count /\ adjacent \in BOOLEAN
  BY DEF TableInv
<1>2. TableTypeOK
  <2>1. /\ ht.bucket \in [Buckets -> Cell] /\ ht.live \in SUBSET Node
        /\ ht.node \in [Node -> [key : Key \cup {NoNode}, val : Value \cup {NoNode}, next : Cell]]
    BY <1>1 DEF Heap
  <2>2. IsFiniteSet(ht.live) /\ Cardinality(ht.live) <= Room /\ Cardinality(ht.live) \in Nat /\ Room \in Nat
    BY <2>1, RoomIsNat, FS_Subset, FS_CardinalityType DEF Room
  <2>3. ht.count \in 0..Room /\ member \in 0..Room
    BY <1>1, <2>2
  <2> QED BY <1>1, <2>1, <2>3 DEF TableTypeOK, Buckets, Cell, Room
<1>3. ASSUME ~adjacent PROVE ChainsSound
  <2>1. SoundTable(ht)
    BY <1>3 DEF TableInv
  <2> DEFINE all == AllNodes(ht)
  <2>2. ToSet(all) = ht.live /\ Cardinality(ht.live) = Len(all)
    BY <2>1, AllAreLive
  <2>3. ASSUME NEW i \in Buckets, NEW j \in DOMAIN Chain(ht, i) PROVE mod(ht.node[Chain(ht, i)[j]].key) = i
    <3> DEFINE c == Chain(ht, i)
    <3>1. c \in Seq(Node) /\ \A n \in ToSet(c) : Holds(ht, i, n)
      BY <2>1 DEF SoundTable, Links
    <3>2. c[j] \in ToSet(c)
      BY DEF ToSet
    <3> QED BY <3>1, <3>2 DEF Holds
  <2>4. \A m, n \in ht.live : KeyClass(ht.node[m].key) = KeyClass(ht.node[n].key) => m = n
    BY <2>1 DEF SoundTable
  <2> HIDE DEF all
  <2>5. /\ ToSet(all) = ht.live
        /\ Len(all) = Cardinality(ht.live) /\ ht.count = Len(all) /\ member = Len(all)
    BY <1>1, <2>2
  <2> QED BY <2>3, <2>4, <2>5 DEF ChainsSound, Buckets, all
<1>4. adjacent => ChainsSound
  BY DEF ChainsSound
<1> QED BY <1>1, <1>2, <1>3, <1>4

\* One pair fits if there is a cell for it.
LEMMA PutsOne ==
  ASSUME NEW h, SoundTable(h), NEW k \in Key, NEW v \in Value, Fits(h, {k})
  PROVE  SoundTable(hst_put(h, k, v)) /\ (Find(h, k) = 0 => h.live # Node)
<1> DEFINE ks == {k}
<1>1. ks \in SUBSET Key /\ k \in ks /\ ClassesOf(ks) = {KeyClass(k)}
  BY DEF ClassesOf
<1>2. IsFiniteSet(ClassesOf(ks)) /\ Fits(h, ks)
  BY <1>1, FS_Singleton
<1> HIDE DEF ks
<1> QED BY <1>1, <1>2, FitsOn

LEMMA Starts == TableInit => TableInv
<1> SUFFICES ASSUME TableInit PROVE TableInv
  OBVIOUS
<1>1. PICK pairs \in Other \cup {<<>>} : /\ Fits(hst_create, {pairs[i][1] : i \in DOMAIN pairs})
                                         /\ ht = hst_add_all_from(hst_create, pairs)
                                         /\ member = ht.count /\ adjacent = FALSE
  BY DEF TableInit
<1>2. pairs \in Seq(Key \X Value)
  <2>1. <<>> \in Seq(Key \X Value)
    OBVIOUS
  <2> QED BY <2>1, TableAssumption
<1>3. SoundTable(ht)
  BY <1>1, <1>2, Begun, AddsAll
<1> QED BY <1>1, <1>3 DEF TableInv, SoundTable

\* Every method keeps it.
LEMMA MethodsKeep == TableInv /\ [TableNext]_tableVars => TableInv'
<1> SUFFICES ASSUME TableInv, [TableNext]_tableVars PROVE TableInv'
  OBVIOUS
<1>1. (~adjacent => SoundTable(ht)) /\ adjacent \in BOOLEAN
  BY DEF TableInv
<1> DEFINE Kept == SoundTable(ht') /\ member' = ht'.count /\ adjacent' \in BOOLEAN
<1>2. Kept => TableInv'
  BY DEF TableInv, SoundTable
<1>3. UNCHANGED <<ht, member, adjacent>> => TableInv'
  BY DEF TableInv
<1>4. ASSUME NEW k \in Key, NEW v \in Value, stltab_put(k, v) PROVE Kept
  <2>1. ~adjacent /\ adjacent' = adjacent /\ Fits(ht, {k}) /\ ht' = hst_put(ht, k, v) /\ member' = ht'.count
    BY <1>4 DEF stltab_put, Method
  <2>2. SoundTable(hst_put(ht, k, v))
    BY <1>1, <2>1, PutsOne
  <2> QED BY <1>1, <2>1, <2>2
<1>5. ASSUME NEW pairs \in Other, stltab_add_all(pairs) PROVE Kept
  <2>1. /\ ~adjacent /\ adjacent' = adjacent /\ Fits(ht, {pairs[i][1] : i \in DOMAIN pairs})
        /\ ht' = hst_add_all_from(ht, pairs) /\ member' = ht'.count
    BY <1>5 DEF stltab_add_all, Method
  <2>2. pairs \in Seq(Key \X Value)
    BY TableAssumption
  <2>3. SoundTable(hst_add_all_from(ht, pairs))
    BY <1>1, <2>1, <2>2, AddsAll
  <2> QED BY <1>1, <2>1, <2>3
<1>6. ASSUME NEW k \in Key, stltab_remove(k) PROVE Kept
  <2>1. ~adjacent /\ adjacent' = adjacent /\ ht' = hst_remove_key(ht, k) /\ member' = ht'.count
    BY <1>6 DEF stltab_remove, Method
  <2>2. SoundTable(hst_remove_key(ht, k))
    BY <1>1, <2>1, RemovesKey
  <2> QED BY <1>1, <2>1, <2>2
<1>7. ASSUME NEW v \in Value, stltab_remove_value(v) PROVE TableInv'
  <2>1. ~adjacent /\ ht' = hst_remove_val(ht, v) /\ member' = ht'.count /\ adjacent' = Neighbours(ht, v)
    BY <1>7 DEF stltab_remove_value, Method
  <2>2. Cleared(ht, v, ht', Size)
    BY <1>1, <2>1, RemovesVal
  <2>3. Neighbours(ht, v) \in BOOLEAN
    BY DEF Neighbours
  <2> QED BY <2>1, <2>2, <2>3 DEF TableInv, Cleared
<1>8. ASSUME NEW op, NEW arg, NEW result, Reads(op, arg, result) PROVE UNCHANGED <<ht, member, adjacent>>
  BY <1>8 DEF Reads
<1>9. CASE UNCHANGED tableVars
  BY <1>3, <1>9 DEF tableVars
<1>10. CASE TableNext
  <2> HIDE DEF Kept
  <2> QED BY <1>2, <1>3, <1>4, <1>5, <1>6, <1>7, <1>8, <1>10
          DEF TableNext, stltab_get, stltab_has_key, stltab_has_value, stltab_keys, stltab_values
<1> QED BY <1>9, <1>10

\* A node is in the chain its key hashes to, once, as long as it is live; the counts are right.
THEOREM TableChains == TableSpec => []ChainsSound
<1>1. TableSpec => []TableInv
  BY Starts, MethodsKeep, PTL DEF TableSpec
<1> QED BY <1>1, TableIs, PTL

\* Pointers lead to nodes, and the counts to what there is room for, whatever is removed.
THEOREM TableTypes == TableSpec => []TableTypeOK
<1>1. TableSpec => []TableInv
  BY Starts, MethodsKeep, PTL DEF TableSpec
<1> QED BY <1>1, TableIs, PTL
-----------------------------------------------------------------------------
(* The map a table stands for.                                             *)

\* The class of the key of a node.
Cls(h, n) == KeyClass(h.node[n].key)

\* m has the value of each live node under its class, and nothing else.
IsMapOf(m, h) ==
  /\ m = [c \in DOMAIN m |-> m[c]]
  /\ \A c : c \in DOMAIN m <=> \E n \in h.live : Cls(h, n) = c
  /\ \A n \in h.live : m[Cls(h, n)] = h.node[n].val

\* There is one such map.
LEMMA OneMap ==
  ASSUME NEW h, NEW m, NEW f, IsMapOf(m, h), IsMapOf(f, h)
  PROVE  m = f
<1>1. DOMAIN m = DOMAIN f
  BY DEF IsMapOf
<1>2. \A c \in DOMAIN m : m[c] = f[c]
  BY DEF IsMapOf
<1>3. m = [c \in DOMAIN m |-> m[c]] /\ f = [c \in DOMAIN f |-> f[c]]
  BY DEF IsMapOf
<1> QED BY <1>1, <1>2, <1>3

\* A live node has a key and a value.
LEMMA LiveHold ==
  ASSUME NEW h, SoundTable(h), NEW n \in h.live
  PROVE  h.node[n].key \in Key /\ h.node[n].val \in Value /\ h.node[n].val # NoNode
<1>1. PICK i \in Buckets : n \in ToSet(Chain(h, i))
  BY DEF SoundTable
<1>2. Holds(h, i, n)
  BY <1>1 DEF SoundTable
<1> QED BY <1>2, TableAssumption DEF Holds

\* What a lookup gives.
LEMMA Gets ==
  ASSUME NEW h, SoundTable(h), NEW k \in Key
  PROVE  /\ Find(h, k) = 0 => hst_get(h, k) = NoNode /\ \A n \in h.live : Cls(h, n) # KeyClass(k)
         /\ Find(h, k) # 0 => /\ NodeOf(h, k) \in h.live /\ Cls(h, NodeOf(h, k)) = KeyClass(k)
                              /\ hst_get(h, k) = h.node[NodeOf(h, k)].val
         /\ \A n \in h.live : /\ h.node[n].key \in Key /\ h.node[n].val \in Value /\ h.node[n].val # NoNode
                              /\ Cls(h, n) = KeyClass(k) => Find(h, k) # 0 /\ NodeOf(h, k) = n
<1>1. ASSUME Find(h, k) = 0 PROVE hst_get(h, k) = NoNode /\ \A n \in h.live : Cls(h, n) # KeyClass(k)
  BY <1>1, Finds DEF hst_get, Cls
<1>2. ASSUME Find(h, k) # 0
      PROVE  /\ NodeOf(h, k) \in h.live /\ Cls(h, NodeOf(h, k)) = KeyClass(k)
             /\ hst_get(h, k) = h.node[NodeOf(h, k)].val
  <2>1. NodeOf(h, k) \in h.live /\ Cls(h, NodeOf(h, k)) = KeyClass(k)
    BY <1>2, Finds DEF NodeOf, Cls
  <2> QED BY <1>2, <2>1 DEF hst_get
<1>3. ASSUME NEW n \in h.live PROVE h.node[n].key \in Key /\ h.node[n].val \in Value /\ h.node[n].val # NoNode
  BY LiveHold
<1>4. ASSUME NEW n \in h.live, Cls(h, n) = KeyClass(k) PROVE Find(h, k) # 0 /\ NodeOf(h, k) = n
  <2>1. Find(h, k) # 0
    BY <1>4, Finds DEF Cls
  <2>2. NodeOf(h, k) \in h.live /\ Cls(h, NodeOf(h, k)) = KeyClass(k)
    BY <2>1, Finds DEF NodeOf, Cls
  <2> QED BY <1>4, <2>1, <2>2 DEF SoundTable, Cls
<1> QED BY <1>1, <1>2, <1>3, <1>4

\* The map of a table is what lookups find.
LEMMA MapOfTable ==
  ASSUME NEW h, SoundTable(h)
  PROVE  IsMapOf([c \in Classes(h) |-> hst_get(h, CHOOSE k \in Key : KeyClass(k) = c)], h)
<1> DEFINE m == [c \in Classes(h) |-> hst_get(h, CHOOSE k \in Key : KeyClass(k) = c)]
<1>1. \A c : c \in Classes(h) <=> \E n \in h.live : Cls(h, n) = c
  <2>1. ToSet(AllNodes(h)) = h.live
    BY AllAreLive
  <2> QED BY <2>1 DEF Classes, Cls
<1>2. ASSUME NEW n \in h.live PROVE m[Cls(h, n)] = h.node[n].val
  <2> DEFINE c == Cls(h, n)
             k == CHOOSE l \in Key : KeyClass(l) = c
  <2>1. h.node[n].key \in Key
    BY LiveHold
  <2>2. k \in Key /\ KeyClass(k) = c
    BY <2>1 DEF Cls
  <2>3. m[c] = hst_get(h, k)
    BY <1>1
  <2> HIDE DEF k, m
  <2>4. hst_get(h, k) = h.node[n].val
    BY <2>2, Gets
  <2> QED BY <2>3, <2>4
<1>3. DOMAIN m = Classes(h) /\ m = [c \in DOMAIN m |-> m[c]]
  OBVIOUS
<1> HIDE DEF m
<1>4. IsMapOf(m, h)
  BY <1>1, <1>2, <1>3 DEF IsMapOf
<1> QED BY <1>4 DEF m

\* Putting a key.
LEMMA PutIsWith ==
  ASSUME NEW h, SoundTable(h), NEW k \in Key, NEW v \in Value, Find(h, k) = 0 => h.live # Node,
         NEW m, IsMapOf(m, h)
  PROVE  IsMapOf(D!With(m, k, v), hst_put(h, k, v))
<1> DEFINE g == hst_put(h, k, v)
           f == D!With(m, k, v)
           n == IF Find(h, k) = 0 THEN Free(h) ELSE NodeOf(h, k)
<1>1. /\ DOMAIN f = DOMAIN m \cup {KeyClass(k)} /\ f = [c \in DOMAIN f |-> f[c]] /\ f[KeyClass(k)] = v
      /\ \A c \in DOMAIN m : c # KeyClass(k) => f[c] = m[c]
  BY DEF D!With
<1>2. /\ Find(h, k) # 0 => /\ g.live = h.live /\ NodeOf(h, k) \in h.live
                           /\ KeyClass(h.node[NodeOf(h, k)].key) = KeyClass(k)
                           /\ \A x \in h.live : g.node[x].val = IF x = NodeOf(h, k) THEN v ELSE h.node[x].val
      /\ Find(h, k) = 0 => /\ g.live = h.live \cup {Free(h)} /\ Free(h) \in Node \ h.live
                           /\ KeyClass(g.node[Free(h)].key) = KeyClass(k) /\ g.node[Free(h)].val = v
                           /\ \A x \in h.live : g.node[x].val = h.node[x].val
      /\ \A x \in h.live : g.node[x].key = h.node[x].key
  BY Puts
<1> HIDE DEF g, f
<1>3. /\ g.live = h.live \cup {n} /\ Cls(g, n) = KeyClass(k) /\ g.node[n].val = v
      /\ \A x \in h.live : x # n => Cls(g, x) = Cls(h, x) /\ g.node[x].val = h.node[x].val /\ Cls(h, x) # KeyClass(k)
  <2>1. CASE Find(h, k) = 0
    BY <1>2, <2>1, Gets DEF Cls
  <2>2. CASE Find(h, k) # 0
    <3>1. \A x \in h.live : Cls(h, x) = KeyClass(k) => x = n
      BY <2>2, Gets
    <3> QED BY <1>2, <2>2, <3>1 DEF Cls
  <2> QED BY <2>1, <2>2
<1>4. n \in h.live => Cls(h, n) = KeyClass(k)
  BY <1>2 DEF Cls
<1> HIDE DEF n
<1>5. /\ \A c : c \in DOMAIN m <=> \E x \in h.live : Cls(h, x) = c
      /\ \A x \in h.live : m[Cls(h, x)] = h.node[x].val
  BY DEF IsMapOf
<1>6. \A c : c \in DOMAIN f <=> \E x \in g.live : Cls(g, x) = c
  BY <1>1, <1>3, <1>4, <1>5
<1>7. \A x \in g.live : f[Cls(g, x)] = g.node[x].val
  BY <1>1, <1>3, <1>5
<1>8. IsMapOf(f, g)
  BY <1>1, <1>6, <1>7 DEF IsMapOf
<1> QED BY <1>8 DEF f, g

\* Taking nodes away.
LEMMA LessIsWithout ==
  ASSUME NEW h, NEW g, NEW gone, g.live = h.live \ gone, SoundTable(h),
         \A x \in g.live : g.node[x].key = h.node[x].key /\ g.node[x].val = h.node[x].val,
         NEW m, IsMapOf(m, h), NEW ks, \A n \in h.live : n \in gone <=> Cls(h, n) \in ks
  PROVE  IsMapOf(D!Without(m, ks), g)
<1> DEFINE f == D!Without(m, ks)
<1>1. DOMAIN f = DOMAIN m \ ks /\ f = [c \in DOMAIN f |-> f[c]] /\ \A c \in DOMAIN m \ ks : f[c] = m[c]
  BY DEF D!Without
<1> HIDE DEF f
<1>2. /\ \A c : c \in DOMAIN m <=> \E x \in h.live : Cls(h, x) = c
      /\ \A x \in h.live : m[Cls(h, x)] = h.node[x].val
  BY DEF IsMapOf
<1>3. \A x \in g.live : Cls(g, x) = Cls(h, x) /\ x \in h.live /\ x \notin gone
  BY DEF Cls
<1>4. \A c : c \in DOMAIN f <=> \E x \in g.live : Cls(g, x) = c
  BY <1>1, <1>2, <1>3
<1>5. \A x \in g.live : f[Cls(g, x)] = g.node[x].val
  BY <1>1, <1>2, <1>3
<1>6. IsMapOf(f, g)
  BY <1>1, <1>4, <1>5 DEF IsMapOf
<1> QED BY <1>6 DEF f

\* The maps from classes of keys to values.
Maps == UNION {[S -> Value] : S \in SUBSET {KeyClass(k) : k \in Key}}

LEMMA MapIsMap ==
  ASSUME NEW h, SoundTable(h), NEW m, IsMapOf(m, h)
  PROVE  m \in Maps
<1>1. \A n \in h.live : h.node[n].key \in Key /\ h.node[n].val \in Value
  BY LiveHold
<1>2. DOMAIN m \in SUBSET {KeyClass(k) : k \in Key}
  BY <1>1 DEF IsMapOf, Cls
<1>3. m \in [DOMAIN m -> Value]
  BY <1>1 DEF IsMapOf, Cls
<1> QED BY <1>2, <1>3 DEF Maps

\* Extending a map pair by pair.
ExtendsBy(from, m, pairs) ==
  /\ from[0] = m /\ D!Extended(m, pairs) = from[Len(pairs)]
  /\ \A n \in 1..Len(pairs) : from[n] = D!With(from[n - 1], pairs[n][1], pairs[n][2])

LEMMA Extends ==
  ASSUME NEW m \in Maps, NEW pairs \in Seq(Key \X Value)
  PROVE  \E from : ExtendsBy(from, m, pairs)
<1> DEFINE l == Len(pairs)
           One(f, n) == D!With(f, pairs[n][1], pairs[n][2])
           step == [p \in (1..l) \X Maps |-> One(p[2], p[1])]
           Body(f) == [n \in 0..l |-> IF n = 0 THEN m ELSE One(f[n - 1], n)]
           from == CHOOSE f : f = Body(f)
<1>1. l \in Nat /\ \A n \in 1..l : pairs[n] \in Key \X Value
  BY LenProperties, ElementOfSeq
<1> HIDE DEF l
<1>2. ASSUME NEW f \in Maps, NEW n \in 1..l PROVE One(f, n) \in Maps
  <2> DEFINE c == KeyClass(pairs[n][1])
             v == pairs[n][2]
  <2>1. pairs[n][1] \in Key /\ v \in Value
    BY <1>1
  <2>2. c \in {KeyClass(k) : k \in Key}
    BY <2>1
  <2>3. PICK S \in SUBSET {KeyClass(k) : k \in Key} : f \in [S -> Value]
    BY DEF Maps
  <2>4. One(f, n) = [d \in DOMAIN f \cup {c} |-> IF d = c THEN v ELSE f[d]]
    BY DEF D!With
  <2> HIDE DEF c, v, One
  <2>5. One(f, n) \in [S \cup {c} -> Value] /\ S \cup {c} \in SUBSET {KeyClass(k) : k \in Key}
    BY <2>1, <2>2, <2>3, <2>4
  <2> QED BY <2>5 DEF Maps
<1>3. \E f : f = Body(f)
  <2> HIDE DEF One
  <2>1. \A n \in 1..l : \A f \in Maps : step[<<n, f>>] = One(f, n)
    OBVIOUS
  <2> HIDE DEF step
  <2>2. Stays(l, Maps, step)
    BY <1>2, <2>1 DEF Stays
  <2>3. PICK g : Follows(g, l, Maps, m, step)
    BY <1>1, <2>2, Recursion
  <2>4. g \in [0..l -> Maps] /\ g[0] = m /\ \A n \in 1..l : g[n] = step[<<n, g[n - 1]>>]
    BY <2>3 DEF Follows
  <2>5. \A n \in 0..l : g[n] = IF n = 0 THEN m ELSE One(g[n - 1], n)
    <3> TAKE n \in 0..l
    <3>1. n # 0 => n \in 1..l /\ n - 1 \in 0..l
      BY <1>1
    <3> QED BY <2>1, <2>4, <3>1
  <2>6. g = [n \in 0..l |-> g[n]]
    BY <2>4
  <2>7. g = Body(g)
    BY <2>5, <2>6
  <2> QED BY <2>7
<1>4. from = Body(from)
  <2> HIDE DEF Body
  <2> QED BY <1>3
<1>5. D!Extended(m, pairs) = from[l]
  BY Zenon DEF D!Extended, l
<1>6. \A n \in 0..l : from[n] = IF n = 0 THEN m ELSE One(from[n - 1], n)
  <2> HIDE DEF from, One
  <2> QED BY <1>4
<1> HIDE DEF from, Body
<1>7. from[0] = m /\ \A n \in 1..l : from[n] = One(from[n - 1], n)
  <2> HIDE DEF One
  <2>1. 0 \in 0..l /\ \A n \in 1..l : n \in 0..l /\ n # 0
    BY <1>1
  <2> QED BY <1>6, <2>1
<1>8. ExtendsBy(from, m, pairs)
  BY <1>5, <1>7 DEF ExtendsBy, l
<1> QED BY <1>8

\* Adding all of another table extends the map with its pairs.
LEMMA AddAllExtends ==
  ASSUME NEW h, SoundTable(h), NEW pairs \in Seq(Key \X Value),
         Fits(h, {pairs[i][1] : i \in DOMAIN pairs}), NEW m, IsMapOf(m, h)
  PROVE  IsMapOf(D!Extended(m, pairs), hst_add_all_from(h, pairs))
<1>1. PICK with : PutsAll(with, h, pairs)
  BY AddsAll
<1>2. m \in Maps
  BY MapIsMap
<1>3. PICK from : ExtendsBy(from, m, pairs)
  BY <1>2, Extends
<1> DEFINE l == Len(pairs)
           T == {n \in 0..l : IsMapOf(from[n], with[n])}
<1>4. l \in Nat /\ \A n \in 1..l : pairs[n] \in Key \X Value
  BY LenProperties, ElementOfSeq
<1>5. 0 \in T
  BY <1>1, <1>3, <1>4 DEF PutsAll, ExtendsBy
<1>6. ASSUME NEW n \in 1..l, n - 1 \in T PROVE n \in T
  <2> DEFINE k == pairs[n][1]
             v == pairs[n][2]
  <2>1. /\ SoundTable(with[n - 1]) /\ (Find(with[n - 1], k) = 0 => with[n - 1].live # Node)
        /\ with[n] = hst_put(with[n - 1], k, v) /\ from[n] = D!With(from[n - 1], k, v)
    BY <1>1, <1>3 DEF PutsAll, ExtendsBy
  <2>2. k \in Key /\ v \in Value
    BY <1>4
  <2>3. IsMapOf(from[n - 1], with[n - 1])
    BY <1>6
  <2> HIDE DEF k, v
  <2>4. IsMapOf(D!With(from[n - 1], k, v), hst_put(with[n - 1], k, v))
    BY <2>1, <2>2, <2>3, PutIsWith
  <2>5. n \in 0..l
    BY <1>4
  <2> QED BY <2>1, <2>4, <2>5
<1>7. l \in T
  <2> HIDE DEF T
  <2>1. 0..l \subseteq T
    BY <1>4, <1>5, <1>6, Induction
  <2> QED BY <1>4, <2>1
<1> QED BY <1>1, <1>3, <1>7 DEF PutsAll, ExtendsBy

\* Taking a key away.
LEMMA RemoveKeyIsWithout ==
  ASSUME NEW h, SoundTable(h), NEW k \in Key, NEW m, IsMapOf(m, h)
  PROVE  IsMapOf(D!Without(m, {KeyClass(k)}), hst_remove_key(h, k))
<1> DEFINE c == Chain(h, mod(k))
           at == Find(h, k)
           g == hst_remove_key(h, k)
           ks == {KeyClass(k)}
           gone == {n \in h.live : Cls(h, n) = KeyClass(k)}
<1>1. mod(k) \in Buckets /\ at \in 0..Len(c) /\ Len(c) \in Nat /\ h.live \subseteq Node
  BY KeyBucket, Finds DEF SoundTable, Heap
<1>2. /\ g.live = h.live \ gone
      /\ \A x \in g.live : g.node[x].key = h.node[x].key /\ g.node[x].val = h.node[x].val
  <2>1. CASE at = 0
    <3>1. gone = {} /\ g = h
      BY <2>1, Gets DEF hst_remove_key
    <3> HIDE DEF gone, g
    <3> QED BY <3>1
  <2>2. CASE at # 0
    <3>1. at \in 1..Len(c)
      BY <1>1, <2>2
    <3>2. g = Unlink(h, mod(k), Before(c, at), c[at])
      BY <2>2 DEF hst_remove_key, Before
    <3>3. g.live = h.live \ {c[at]} /\ \A x \in Node : g.node[x].key = h.node[x].key /\ g.node[x].val = h.node[x].val
      <4> HIDE DEF at, g
      <4> QED BY <1>1, <3>1, <3>2, Unlinked
    <3>4. \A n \in h.live : Cls(h, n) = KeyClass(k) <=> n = c[at]
      <4>1. c[at] = NodeOf(h, k)
        BY DEF NodeOf
      <4> QED BY <2>2, <4>1, Gets
    <3>5. c[at] \in h.live
      BY <2>2, Finds
    <3> HIDE DEF g, c, at
    <3>6. gone = {c[at]}
      BY <3>4, <3>5
    <3> QED BY <1>1, <3>3, <3>6
  <2> QED BY <2>1, <2>2
<1>3. \A n \in h.live : n \in gone <=> Cls(h, n) \in ks
  OBVIOUS
<1> HIDE DEF gone, g, ks
<1>4. IsMapOf(D!Without(m, ks), g)
  BY <1>2, <1>3, LessIsWithout
<1> QED BY <1>4 DEF g, ks

\* Removing by value, where that works.
LEMMA RemoveValIsWithout ==
  ASSUME NEW h, SoundTable(h), NEW v, NEW m, IsMapOf(m, h)
  PROVE  IsMapOf(D!Without(m, {c \in DOMAIN m : m[c] = v}), hst_remove_val(h, v))
<1> DEFINE g == hst_remove_val(h, v)
           ks == {c \in DOMAIN m : m[c] = v}
           gone == {n \in h.live : h.node[n].val = v}
<1>1. Cleared(h, v, g, Size)
  BY RemovesVal
<1> HIDE DEF g
<1>2. /\ \A x : x \in g.live <=> x \in h.live /\ ~\E i \in Buckets : i < Size /\ x \in ToSet(Chain(h, i)) /\ h.node[x].val = v
      /\ \A x \in Node : g.node[x].key = h.node[x].key /\ g.node[x].val = h.node[x].val
  BY <1>1 DEF Cleared
<1>3. \A x \in h.live : x \in Node /\ \E i \in Buckets : i < Size /\ x \in ToSet(Chain(h, i))
  BY DEF SoundTable, Heap, Buckets, Size
<1>4. /\ g.live = h.live \ gone
      /\ \A x \in g.live : g.node[x].key = h.node[x].key /\ g.node[x].val = h.node[x].val
  BY <1>2, <1>3
<1>5. \A n \in h.live : n \in gone <=> Cls(h, n) \in ks
  BY DEF IsMapOf
<1> HIDE DEF gone, ks
<1>6. IsMapOf(D!Without(m, ks), g)
  BY <1>4, <1>5, LessIsWithout
<1> QED BY <1>6 DEF g, ks

\* A set has as many elements as a list that names each once.
LEMMA SameSize ==
  ASSUME NEW A, IsFiniteSet(A), NEW B, NEW f, f = [x \in A |-> f[x]], B = {f[x] : x \in A},
         \A x, y \in A : f[x] = f[y] => x = y
  PROVE  Cardinality(B) = Cardinality(A)
<1>1. f \in [A -> B]
  OBVIOUS
<1>2. f \in Injection(A, B)
  BY <1>1 DEF Injection, IsInjective
<1>3. f \in Surjection(A, B)
  BY <1>1 DEF Surjection
<1>4. f \in Bijection(A, B)
  BY <1>2, <1>3 DEF Bijection
<1> QED BY <1>4, FS_Bijection DEF ExistsBijection

\* What keys and values list.
KeysOf(h) == [i \in DOMAIN AllNodes(h) |-> h.node[AllNodes(h)[i]].key]
ValuesOf(h) == [i \in DOMAIN AllNodes(h) |-> h.node[AllNodes(h)[i]].val]

LEMMA Listings ==
  ASSUME NEW h, SoundTable(h), NEW m, IsMapOf(m, h)
  PROVE  /\ Len(KeysOf(h)) = Cardinality(DOMAIN m)
         /\ {KeyClass(k) : k \in ToSet(KeysOf(h))} = DOMAIN m
         /\ \A v : Cardinality({c \in DOMAIN m : m[c] = v}) = Cardinality({i \in DOMAIN ValuesOf(h) : ValuesOf(h)[i] = v})
<1> DEFINE l == AllNodes(h)
           ks == KeysOf(h)
           vs == ValuesOf(h)
           f == [i \in 1..Len(l) |-> Cls(h, l[i])]
<1>1. /\ l \in Seq(Node) /\ Len(l) \in Nat /\ DOMAIN l = 1..Len(l) /\ h.live = {l[i] : i \in 1..Len(l)}
      /\ \A i, j \in 1..Len(l) : l[i] = l[j] => i = j
  BY AllAreLive, Members, LenProperties
<1>2. \A i \in 1..Len(l) : h.node[l[i]].key \in Key
  BY <1>1, LiveHold
<1>3. ks = [i \in 1..Len(l) |-> h.node[l[i]].key] /\ vs = [i \in 1..Len(l) |-> h.node[l[i]].val]
  BY <1>1 DEF KeysOf, ValuesOf
<1>4. ks \in Seq(Key) /\ Len(ks) = Len(l)
  <2> HIDE DEF l, ks
  <2> QED BY <1>1, <1>2, <1>3, IsASeq
<1>5. ToSet(ks) = {ks[i] : i \in 1..Len(l)}
  BY <1>4, Members
<1> HIDE DEF l, ks, vs
<1>6. /\ \A c : c \in DOMAIN m <=> \E n \in h.live : Cls(h, n) = c
      /\ \A n \in h.live : m[Cls(h, n)] = h.node[n].val
  BY DEF IsMapOf
<1>7. \A i \in 1..Len(l) : f[i] = Cls(h, l[i]) /\ f[i] \in DOMAIN m /\ m[f[i]] = vs[i] /\ f[i] = KeyClass(ks[i]) /\ l[i] \in h.live
  BY <1>1, <1>3, <1>6 DEF Cls
<1>8. \A c \in DOMAIN m : \E i \in 1..Len(l) : f[i] = c
  BY <1>1, <1>6
<1>9. ASSUME NEW i \in 1..Len(l), NEW j \in 1..Len(l), f[i] = f[j] PROVE i = j
  <2>1. l[i] \in h.live /\ l[j] \in h.live /\ Cls(h, l[i]) = Cls(h, l[j])
    BY <1>7, <1>9
  <2>2. l[i] = l[j]
    BY <2>1 DEF SoundTable, Cls
  <2> QED BY <1>1, <2>2
<1>10. f = [i \in 1..Len(l) |-> f[i]] /\ IsFiniteSet(1..Len(l)) /\ Cardinality(1..Len(l)) = Len(l)
  BY <1>1, FS_Interval
<1> HIDE DEF f
<1>11. Len(ks) = Cardinality(DOMAIN m)
  <2>1. DOMAIN m = {f[i] : i \in 1..Len(l)}
    BY <1>7, <1>8
  <2>2. Cardinality(DOMAIN m) = Cardinality(1..Len(l))
    BY <1>9, <1>10, <2>1, SameSize
  <2> QED BY <1>4, <1>10, <2>2
<1>12. {KeyClass(k) : k \in ToSet(ks)} = DOMAIN m
  <2>1. \A c : c \in {KeyClass(k) : k \in ToSet(ks)} <=> \E i \in 1..Len(l) : KeyClass(ks[i]) = c
    BY <1>5
  <2>2. \A c : c \in DOMAIN m <=> \E i \in 1..Len(l) : KeyClass(ks[i]) = c
    BY <1>7, <1>8
  <2> QED BY <2>1, <2>2
<1>13. ASSUME NEW v PROVE Cardinality({c \in DOMAIN m : m[c] = v}) = Cardinality({i \in DOMAIN vs : vs[i] = v})
  <2> DEFINE A == {i \in DOMAIN vs : vs[i] = v}
             B == {c \in DOMAIN m : m[c] = v}
             g == [i \in A |-> f[i]]
  <2>1. DOMAIN vs = 1..Len(l)
    BY <1>3
  <2>2. A \in SUBSET (1..Len(l))
    BY <2>1
  <2>3. IsFiniteSet(A)
    <3> HIDE DEF A
    <3> QED BY <1>10, <2>2, FS_Subset
  <2>4. B = {g[i] : i \in A}
    <3>1. \A c \in B : \E i \in A : f[i] = c
      BY <1>7, <1>8, <2>1
    <3>2. \A i \in A : f[i] \in B
      BY <1>7, <2>1
    <3> HIDE DEF A, B
    <3> QED BY <3>1, <3>2
  <2>5. \A x, y \in A : g[x] = g[y] => x = y
    BY <1>9, <2>2
  <2>6. g = [i \in A |-> g[i]]
    OBVIOUS
  <2> HIDE DEF A, B, g
  <2>7. Cardinality(B) = Cardinality(A)
    BY <2>3, <2>4, <2>5, <2>6, SameSize
  <2> QED BY <2>7 DEF A, B
<1> QED BY <1>11, <1>12, <1>13 DEF ks, vs
-----------------------------------------------------------------------------
(* The table implements the dictionary, method by method.                  *)

LEMMA AsMapIs == SoundTable(ht) => IsMapOf(AsMap, ht)
BY MapOfTable DEF AsMap

\* How the dictionary answers to a key.
LEMMA Answer ==
  ASSUME SoundTable(ht), NEW k \in Key
  PROVE  /\ OrNil(hst_get(ht, k)) = D!At(k)
         /\ hst_contains_key(ht, k) <=> KeyClass(k) \in DOMAIN AsMap
<1> DEFINE m == AsMap
<1>1. /\ \A c : c \in DOMAIN m <=> \E n \in ht.live : Cls(ht, n) = c
      /\ \A n \in ht.live : m[Cls(ht, n)] = ht.node[n].val
  BY AsMapIs DEF IsMapOf
<1> HIDE DEF m
<1>2. D!At(k) = IF KeyClass(k) \in DOMAIN m THEN m[KeyClass(k)] ELSE Nil
  BY DEF D!At, m
<1>3. CASE Find(ht, k) = 0
  <2>1. hst_get(ht, k) = NoNode /\ KeyClass(k) \notin DOMAIN m
    BY <1>1, <1>3, Gets
  <2> QED BY <1>2, <2>1 DEF OrNil, hst_contains_key, m
<1>4. CASE Find(ht, k) # 0
  <2> DEFINE n == NodeOf(ht, k)
  <2>1. n \in ht.live /\ Cls(ht, n) = KeyClass(k) /\ hst_get(ht, k) = ht.node[n].val
    BY <1>4, Gets
  <2>2. ht.node[n].val # NoNode
    BY <2>1, LiveHold
  <2>3. KeyClass(k) \in DOMAIN m /\ m[KeyClass(k)] = hst_get(ht, k) /\ hst_get(ht, k) # NoNode
    BY <1>1, <2>1, <2>2
  <2> QED BY <1>2, <2>3 DEF OrNil, hst_contains_key, m
<1> QED BY <1>3, <1>4

\* Is a value in the table?
LEMMA HasValue ==
  ASSUME SoundTable(ht), NEW v
  PROVE  hst_contains_value(ht, v) <=> D!Valued(v) # {}
<1>1. ToSet(AllNodes(ht)) = ht.live
  BY AllAreLive
<1>2. IsMapOf(AsMap, ht)
  BY AsMapIs
<1>3. D!Valued(v) = {c \in DOMAIN AsMap : AsMap[c] = v}
  BY DEF D!Valued
<1> QED BY <1>1, <1>2, <1>3 DEF hst_contains_value, IsMapOf

\* The dictionary takes a step when the call does to the map what Does says.
Called(op, arg, result) == did'.op = op /\ did'.arg = arg /\ did'.result = result

LEMMA CallsAre ==
  ASSUME NEW op, NEW arg, NEW result, Method(op, arg, result)
  PROVE  Called(op, arg, result) /\ ~adjacent
BY DEF Method, Called

\* The dictionary counts and lists as the table does.
LEMMA SameWords ==
  /\ \A S : D!Cardinality(S) = Cardinality(S)
  /\ \A s : D!ToSet(s) = ToSet(s)
<1>1. \A S : D!Cardinality(S) = Cardinality(S)
  BY Zenon DEF D!Cardinality, Cardinality
<1>2. \A s : D!ToSet(s) = ToSet(s)
  BY Zenon DEF D!ToSet, ToSet
<1> QED BY <1>1, <1>2

LEMMA DictionaryStarts == TableInit => D!Init
<1> SUFFICES ASSUME TableInit PROVE D!Init
  OBVIOUS
<1>0. PICK pairs \in Other \cup {<<>>} :
        /\ Fits(hst_create, {pairs[i][1] : i \in DOMAIN pairs})
        /\ ht = hst_add_all_from(hst_create, pairs)
        /\ member = ht.count
        /\ did = [op |-> "new", arg |-> pairs, result |-> Nil, nr |-> 0]
        /\ adjacent = FALSE
  BY Zenon DEF TableInit
<1>1. /\ Fits(hst_create, {pairs[i][1] : i \in DOMAIN pairs})
      /\ ht = hst_add_all_from(hst_create, pairs) /\ did.arg = pairs
  BY <1>0
<1>2. pairs \in Seq(Key \X Value)
  <2>1. <<>> \in Seq(Key \X Value)
    OBVIOUS
  <2> QED BY <2>1, TableAssumption
<1>3. IsMapOf(<<>>, hst_create)
  <2> DEFINE m == <<>>
  <2>1. DOMAIN m = {} /\ m = [c \in DOMAIN m |-> m[c]] /\ hst_create.live = {}
    BY DEF hst_create
  <2> HIDE DEF m
  <2>2. IsMapOf(m, hst_create)
    BY <2>1 DEF IsMapOf
  <2> QED BY <2>2 DEF m
<1>4. IsMapOf(D!Extended(<<>>, pairs), ht) /\ SoundTable(ht)
  BY <1>1, <1>2, <1>3, Begun, AddsAll, AddAllExtends
<1>5. AsMap = D!Extended(<<>>, did.arg)
  BY <1>1, <1>4, AsMapIs, OneMap
<1> QED BY <1>5 DEF D!Init

LEMMA DictionarySteps == TableInv /\ TableNext /\ TableInv' => D!Next \/ adjacent'
<1> SUFFICES ASSUME TableInv, TableNext, TableInv', ~adjacent' PROVE D!Next
  BY Zenon
<1>1. (~adjacent => SoundTable(ht)) /\ SoundTable(ht')
  BY DEF TableInv
<1>2. ~adjacent => IsMapOf(AsMap, ht)
  BY <1>1, AsMapIs
<1>3. IsMapOf(AsMap', ht')
  BY <1>1, MapOfTable DEF AsMap
<1>4. ASSUME NEW m, IsMapOf(m, ht') PROVE AsMap' = m
  BY <1>3, <1>4, OneMap
<1>5. ht' = ht => AsMap' = AsMap
  BY DEF AsMap
<1>6. ASSUME NEW k \in Key, NEW v \in Value, stltab_put(k, v) PROVE D!Next
  <2>1. Method("put", <<k, v>>, Nil) /\ Fits(ht, {k}) /\ ht' = hst_put(ht, k, v)
    BY <1>6 DEF stltab_put
  <2>2. Called("put", <<k, v>>, Nil) /\ ~adjacent
    BY <2>1, CallsAre
  <2>3. Find(ht, k) = 0 => ht.live # Node
    BY <1>1, <2>1, <2>2, PutsOne
  <2>4. AsMap' = D!With(AsMap, k, v)
    BY <1>1, <1>2, <1>4, <2>1, <2>2, <2>3, PutIsWith
  <2> QED BY <2>2, <2>4 DEF Called, D!Next, D!Does
<1>7. ASSUME NEW pairs \in Other, stltab_add_all(pairs) PROVE D!Next
  <2>1. /\ Method("addAll", pairs, Nil) /\ Fits(ht, {pairs[i][1] : i \in DOMAIN pairs})
        /\ ht' = hst_add_all_from(ht, pairs)
    BY <1>7 DEF stltab_add_all
  <2>2. Called("addAll", pairs, Nil) /\ ~adjacent
    BY <2>1, CallsAre
  <2>3. pairs \in Seq(Key \X Value)
    BY TableAssumption
  <2>4. AsMap' = D!Extended(AsMap, pairs)
    BY <1>1, <1>2, <1>4, <2>1, <2>2, <2>3, AddAllExtends
  <2> QED BY <2>2, <2>4 DEF Called, D!Next, D!Does
<1>8. ASSUME NEW k \in Key, stltab_remove(k) PROVE D!Next
  <2>1. Method("remove", k, OrNil(hst_get(ht, k))) /\ ht' = hst_remove_key(ht, k)
    BY <1>8 DEF stltab_remove
  <2>2. Called("remove", k, OrNil(hst_get(ht, k))) /\ ~adjacent
    BY <2>1, CallsAre
  <2>3. OrNil(hst_get(ht, k)) = D!At(k)
    BY <1>1, <2>2, Answer
  <2>4. AsMap' = D!Without(AsMap, {KeyClass(k)})
    BY <1>1, <1>2, <1>4, <2>1, <2>2, RemoveKeyIsWithout
  <2> QED BY <2>2, <2>3, <2>4 DEF Called, D!Next, D!Does
<1>9. ASSUME NEW v \in Value, stltab_remove_value(v) PROVE D!Next
  <2>1. Method("removeValue", v, Nil) /\ ht' = hst_remove_val(ht, v)
    BY <1>9 DEF stltab_remove_value
  <2>2. Called("removeValue", v, Nil) /\ ~adjacent
    BY <2>1, CallsAre
  <2>3. D!Valued(v) = {c \in DOMAIN AsMap : AsMap[c] = v}
    BY DEF D!Valued
  <2>4. AsMap' = D!Without(AsMap, D!Valued(v))
    BY <1>1, <1>2, <1>4, <2>1, <2>2, <2>3, RemoveValIsWithout
  <2> QED BY <2>2, <2>4 DEF Called, D!Next, D!Does
<1>10. ASSUME NEW k \in Key, stltab_get(k) PROVE D!Next
  <2>1. Method("get", k, OrNil(hst_get(ht, k))) /\ ht' = ht
    BY <1>10 DEF stltab_get, Reads
  <2>2. Called("get", k, OrNil(hst_get(ht, k))) /\ ~adjacent
    BY <2>1, CallsAre
  <2>3. OrNil(hst_get(ht, k)) = D!At(k)
    BY <1>1, <2>2, Answer
  <2> QED BY <1>5, <2>1, <2>2, <2>3 DEF Called, D!Next, D!Does
<1>11. ASSUME NEW k \in Key, stltab_has_key(k) PROVE D!Next
  <2>1. Method("hasKey", k, hst_contains_key(ht, k)) /\ ht' = ht
    BY <1>11 DEF stltab_has_key, Reads
  <2>2. Called("hasKey", k, hst_contains_key(ht, k)) /\ ~adjacent
    BY <2>1, CallsAre
  <2>3. hst_contains_key(ht, k) <=> KeyClass(k) \in DOMAIN AsMap
    BY <1>1, <2>2, Answer
  <2> QED BY <1>5, <2>1, <2>2, <2>3 DEF Called, D!Next, D!Does
<1>12. ASSUME NEW v \in Value, stltab_has_value(v) PROVE D!Next
  <2>1. Method("hasValue", v, hst_contains_value(ht, v)) /\ ht' = ht
    BY <1>12 DEF stltab_has_value, Reads
  <2>2. Called("hasValue", v, hst_contains_value(ht, v)) /\ ~adjacent
    BY <2>1, CallsAre
  <2>3. hst_contains_value(ht, v) <=> D!Valued(v) # {}
    BY <1>1, <2>2, HasValue
  <2> QED BY <1>5, <2>1, <2>2, <2>3 DEF Called, D!Next, D!Does
<1>13. ASSUME stltab_keys PROVE D!Next
  <2>1. Method("keys", <<>>, KeysOf(ht)) /\ ht' = ht
    BY <1>13 DEF stltab_keys, Reads, KeysOf
  <2>2. Called("keys", <<>>, KeysOf(ht)) /\ ~adjacent
    BY <2>1, CallsAre
  <2>3. Len(KeysOf(ht)) = Cardinality(DOMAIN AsMap) /\ {KeyClass(k) : k \in ToSet(KeysOf(ht))} = DOMAIN AsMap
    BY <1>1, <1>2, <2>2, Listings
  <2> QED BY <1>5, <2>1, <2>2, <2>3, SameWords DEF Called, D!Next, D!Does
<1>14. ASSUME stltab_values PROVE D!Next
  <2>1. Method("values", <<>>, ValuesOf(ht)) /\ ht' = ht
    BY <1>14 DEF stltab_values, Reads, ValuesOf
  <2>2. Called("values", <<>>, ValuesOf(ht)) /\ ~adjacent
    BY <2>1, CallsAre
  <2>3. \A v : Cardinality({c \in DOMAIN AsMap : AsMap[c] = v}) = Cardinality({i \in DOMAIN ValuesOf(ht) : ValuesOf(ht)[i] = v})
    BY <1>1, <1>2, <2>2, Listings
  <2>4. \A v : Cardinality(D!Valued(v)) = Cardinality({i \in DOMAIN ValuesOf(ht) : ValuesOf(ht)[i] = v})
    BY <2>3 DEF D!Valued
  <2> QED BY <1>5, <2>1, <2>2, <2>4, SameWords DEF Called, D!Next, D!Does
<1> QED BY <1>6, <1>7, <1>8, <1>9, <1>10, <1>11, <1>12, <1>13, <1>14 DEF TableNext

\* Whatever a method does to a table or returns, a map from keys to values would do, until
\* neighbours are removed by value.
THEOREM TableIsADictionary == TableSpec => ImplementsDictionary
<1> DEFINE Step == (UNCHANGED ht /\ did'.nr = did.nr) \/ D!Next \/ adjacent'
<1>1. TableInv /\ [TableNext]_tableVars => TableInv' /\ [Step]_tableVars
  <2> SUFFICES ASSUME TableInv, [TableNext]_tableVars PROVE TableInv' /\ [Step]_tableVars
    OBVIOUS
  <2>1. TableInv'
    BY MethodsKeep
  <2>2. CASE UNCHANGED tableVars
    BY <2>1, <2>2
  <2>3. CASE TableNext
    <3>1. D!Next \/ adjacent'
      BY <2>1, <2>3, DictionarySteps
    <3> QED BY <2>1, <3>1
  <2> QED BY <2>2, <2>3
<1> QED BY <1>1, Starts, DictionaryStarts, PTL DEF TableSpec, ImplementsDictionary
=============================================================================

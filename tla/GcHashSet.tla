------------------------------ MODULE GcHashSet ------------------------------
(***************************************************************************)
(* gc_hashset.c: the collector's pool of objects, a hash set of addresses  *)
(* that grows by rebuilding itself.  A bucket is the sequence of the       *)
(* values of its chain.                                                    *)
(***************************************************************************)
EXTENDS Naturals, SequencesExt

CONSTANTS Address,   \* the addresses of objects, numbers
          HashSize   \* the number of buckets at first (8 for the pool)

ASSUME HashSetAssumption == Address \subseteq Nat /\ HashSize \in Nat \ {0}

VARIABLES set,       \* [buckets, hash_size, count]
          answer     \* what the last question was answered
setVars == <<set, answer>>

gchs_create(hash_size) == [buckets |-> [i \in 0..hash_size-1 |-> <<>>], hash_size |-> hash_size, count |-> 0]
hash(s, obj) == obj % s.hash_size

gchs_to_list(s) == FlattenSeq([j \in 1..s.hash_size |-> s.buckets[j - 1]])
gchs_contains(s, obj) == obj \in ToSet(s.buckets[hash(s, obj)])

\* obj comes last in its bucket unless it is there.
Chained(s, obj) ==
  IF gchs_contains(s, obj) THEN s
  ELSE [s EXCEPT !.buckets[hash(s, obj)] = Append(@, obj), !.count = @ + 1]

\* A mutant: the buckets keep their values when their number grows.
gchs_grow_in_place(s) ==
  [s EXCEPT !.hash_size = @ * 3,
            !.buckets = [i \in 0..(3 * s.hash_size)-1 |-> IF i < s.hash_size THEN s.buckets[i] ELSE <<>>]]

\* All values move to a set of three times as many buckets.
gchs_grow(s) ==
  LET data == gchs_to_list(s)
      moved[n \in 0..s.count] ==
        IF n = 0 THEN gchs_create(s.hash_size * 3) ELSE Chained(moved[n - 1], data[n])
  IN  moved[s.count]

gchs_add(s, obj) == Chained(IF 3 * s.count > 2 * s.hash_size THEN gchs_grow(s) ELSE s, obj)

gchs_remove(s, obj) ==
  IF ~gchs_contains(s, obj) THEN s
  ELSE [s EXCEPT !.buckets[hash(s, obj)] = RemoveFirst(@, obj), !.count = @ - 1]

-----------------------------------------------------------------------------

SetInit == set = gchs_create(HashSize) /\ answer = FALSE

\* gc_add_object, and the sweep of gc_collect
AddObject(obj) == set' = gchs_add(set, obj) /\ UNCHANGED answer
RemoveObject(obj) == set' = gchs_remove(set, obj) /\ UNCHANGED answer
IsObject(obj) == answer' = gchs_contains(set, obj) /\ UNCHANGED set

SetNext == \E obj \in Address : AddObject(obj) \/ RemoveObject(obj) \/ IsObject(obj)
SetSpec == SetInit /\ [][SetNext]_setVars

-----------------------------------------------------------------------------

SetTypeOK == /\ set.hash_size \in Nat \ {0} /\ set.count \in Nat
             /\ set.buckets \in [0..set.hash_size-1 -> Seq(Address)]
             /\ answer \in BOOLEAN

\* What is in the pool, as the sweep lists it: every value once, and as many
\* as are counted, which is the room that the list of the sweep is given.
Values == ToSet(gchs_to_list(set))
ListsEachOnce == IsInjective(gchs_to_list(set)) /\ set.count = Len(gchs_to_list(set))

\* The pool is a set, whatever is added and removed, and however it grows: a
\* value is found if and only if it was added and not removed since, and the
\* sweep lists each value once (a value that is lost is never freed, one that is
\* listed twice is freed twice).
ImplementsSet ==
  /\ Values = {} /\ ListsEachOnce
  /\ [][\/ UNCHANGED setVars
         \/ \E obj \in Address :
              /\ \/ AddObject(obj) /\ Values' = Values \cup {obj}
                 \/ RemoveObject(obj) /\ Values' = Values \ {obj}
                 \/ IsObject(obj) /\ answer' = (obj \in Values) /\ Values' = Values
              /\ ListsEachOnce']_setVars
=============================================================================

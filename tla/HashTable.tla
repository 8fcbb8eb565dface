----------------------------- MODULE HashTable -----------------------------
(***************************************************************************)
(* hashtable.c and the methods of Table (stl_table.c).  A table has eight  *)
(* buckets, never more: hst_resize is compiled out.  A bucket points to a  *)
(* chain of nodes; nodes are modelled as the cells they are, so that one   *)
(* that has been freed can still be pointed to, and read: what a node says *)
(* of its value and its successor outlives free() until malloc hands the   *)
(* cell out again.                                                         *)
(***************************************************************************)
EXTENDS Naturals, FiniteSets, SequencesExt

CONSTANTS
  Node,       \* the cells for nodes: a bound on the size of a table
  NoNode,
  Key, Value, Nil,
  Hash(_),    \* stltab_autohash of a key
  KeyClass(_),   \* keys of one class are equal (stltab_autoequ)
  Other,      \* what addAll copies: tables as sequences of pairs, in the order of their chains
  MaxMethods  \* bound on the number of calls

ASSUME TableAssumption ==
  /\ IsFiniteSet(Node) /\ NoNode \notin Node \cup Value /\ MaxMethods \in Nat
  /\ Other \subseteq Seq(Key \X Value) /\ \A k \in Key : Hash(k) \in Nat
  /\ \A k, l \in Key : KeyClass(k) = KeyClass(l) => Hash(k) % 8 = Hash(l) % 8

VARIABLES
  ht,        \* [bucket, node, live, count]: the hashtable and the heap of its nodes
  member,    \* the member count of the Table object
  did,       \* the last method: [op, arg, result, nr]
  adjacent   \* has removeValue met two neighbours that hold the value?
tableVars == <<ht, member, did, adjacent>>

Size == 8
mod(k) == Hash(k) % Size

hst_create == [bucket |-> [i \in 0..Size-1 |-> NoNode],
               node |-> [n \in Node |-> [key |-> NoNode, val |-> NoNode, next |-> NoNode]],
               live |-> {}, count |-> 0]

\* The nodes of bucket i, as the pointers lead: at[n] is the cell n steps on.
After(h) == [n \in Node \cup {NoNode} |-> IF n = NoNode THEN NoNode ELSE h.node[n].next]
Chain(h, i) ==
  LET at[n \in 0..Cardinality(Node)] == IF n = 0 THEN h.bucket[i] ELSE After(h)[at[n - 1]]
  IN  [n \in 1..Cardinality({m \in 0..Cardinality(Node) : at[m] # NoNode}) |-> at[n - 1]]
AllNodes(h) == FlattenSeq([j \in 1..Size |-> Chain(h, j - 1)])

\* A mutant: keys with one hash are taken for equal.
Find_by_hash(h, k) == SelectInSeq(Chain(h, mod(k)), LAMBDA n : Hash(h.node[n].key) = Hash(k))

\* The first node of the chain with a key equal to k.
Find(h, k) == SelectInSeq(Chain(h, mod(k)), LAMBDA n : KeyClass(h.node[n].key) = KeyClass(k))
NodeOf(h, k) == Chain(h, mod(k))[Find(h, k)]

\* The node that hst_make_node gets; which free cell malloc returns makes no difference
\* as long as no freed node is pointed to.
hst_make_node(h, k, v, n) ==
  [h EXCEPT !.node[n] = [key |-> k, val |-> v, next |-> NoNode], !.live = @ \cup {n}, !.count = @ + 1]
Free(h) == CHOOSE n \in Node : n \notin h.live

hst_put(h, k, v) ==
  LET chain == Chain(h, mod(k))
      n == Free(h)
  IN  IF Find(h, k) # 0 THEN [h EXCEPT !.node[NodeOf(h, k)].val = v]
      ELSE IF chain = <<>> THEN [hst_make_node(h, k, v, n) EXCEPT !.bucket[mod(k)] = n]
      ELSE [hst_make_node(h, k, v, n) EXCEPT !.node[Last(chain)].next = n]

\* There is a cell for each key that is not in the table yet.
Fits(h, ks) == Cardinality({KeyClass(k) : k \in {l \in ks : Find(h, l) = 0}}) <= Cardinality(Node \ h.live)

hst_get(h, k) == IF Find(h, k) = 0 THEN NoNode ELSE h.node[NodeOf(h, k)].val
hst_contains_key(h, k) == hst_get(h, k) # NoNode
hst_contains_value(h, v) == \E n \in ToSet(AllNodes(h)) : h.node[n].val = v
hst_add_all_from(h, pairs) ==
  LET with[n \in 0..Len(pairs)] == IF n = 0 THEN h ELSE hst_put(with[n - 1], pairs[n][1], pairs[n][2])
  IN  with[Len(pairs)]

\* A mutant: the bucket is set whether n is its first node or not.
Unlink_first(h, i, p, n) ==
  [h EXCEPT !.live = @ \ {n}, !.count = @ - 1, !.bucket[i] = h.node[n].next]

\* n, whose predecessor is p, leaves chain i and is freed.
Unlink(h, i, p, n) ==
  LET freed == [h EXCEPT !.live = @ \ {n}, !.count = @ - 1]
  IN  IF p # NoNode THEN [freed EXCEPT !.node[p].next = h.node[n].next]
      ELSE [freed EXCEPT !.bucket[i] = h.node[n].next]

hst_remove_key(h, k) ==
  LET at == Find(h, k)
      chain == Chain(h, mod(k))
  IN  IF at = 0 THEN h ELSE Unlink(h, mod(k), IF at = 1 THEN NoNode ELSE chain[at - 1], chain[at])

\* The loop over one chain: p is the node before n even if it has just been freed.
StepOver(s, i, v) ==
  IF s.n = NoNode THEN s
  ELSE LET h == IF s.h.node[s.n].val = v THEN Unlink(s.h, i, s.p, s.n) ELSE s.h
       IN  [h |-> h, p |-> s.n, n |-> h.node[s.n].next]
Sweep(h, i, v) ==
  LET at[n \in 0..Cardinality(Node)] ==
        IF n = 0 THEN [h |-> h, p |-> NoNode, n |-> h.bucket[i]] ELSE StepOver(at[n - 1], i, v)
  IN  at[Cardinality(Node)].h
hst_remove_val(h, v) ==
  LET swept[n \in 0..Size] == IF n = 0 THEN h ELSE Sweep(swept[n - 1], n - 1, v)
  IN  swept[Size]

Neighbours(h, v) == \E i \in 0..Size-1 : LET c == Chain(h, i) IN
                      \E j \in 1..Len(c)-1 : h.node[c[j]].val = v /\ h.node[c[j + 1]].val = v

-----------------------------------------------------------------------------

\* stltab_common_init, of the keys and values of two arrays
TableInit ==
  \E pairs \in Other \cup {<<>>} :
    /\ Fits(hst_create, {pairs[i][1] : i \in DOMAIN pairs})
    /\ ht = hst_add_all_from(hst_create, pairs)
    /\ member = ht.count
    /\ did = [op |-> "new", arg |-> pairs, result |-> Nil, nr |-> 0]
    /\ adjacent = FALSE

\* With a freed node in a chain nothing is certain any more.
Method(op, arg, result) ==
  /\ ~adjacent /\ did.nr < MaxMethods
  /\ did' = [op |-> op, arg |-> arg, result |-> result, nr |-> did.nr + 1]
Reads(op, arg, result) == Method(op, arg, result) /\ UNCHANGED <<ht, member, adjacent>>

stltab_put(k, v) ==
  /\ Fits(ht, {k})
  /\ Method("put", <<k, v>>, Nil)
  /\ ht' = hst_put(ht, k, v)
  /\ member' = ht'.count
  /\ UNCHANGED adjacent

stltab_add_all(pairs) ==
  /\ Fits(ht, {pairs[i][1] : i \in DOMAIN pairs})
  /\ Method("addAll", pairs, Nil)
  /\ ht' = hst_add_all_from(ht, pairs)
  /\ member' = ht'.count
  /\ UNCHANGED adjacent

OrNil(v) == IF v = NoNode THEN Nil ELSE v
stltab_get(k) == Reads("get", k, OrNil(hst_get(ht, k)))
stltab_has_key(k) == Reads("hasKey", k, hst_contains_key(ht, k))
stltab_has_value(v) == Reads("hasValue", v, hst_contains_value(ht, v))
stltab_keys == Reads("keys", <<>>, [i \in DOMAIN AllNodes(ht) |-> ht.node[AllNodes(ht)[i]].key])
stltab_values == Reads("values", <<>>, [i \in DOMAIN AllNodes(ht) |-> ht.node[AllNodes(ht)[i]].val])

stltab_remove(k) ==
  /\ Method("remove", k, OrNil(hst_get(ht, k)))
  /\ ht' = hst_remove_key(ht, k)
  /\ member' = ht'.count
  /\ UNCHANGED adjacent

stltab_remove_value(v) ==
  /\ Method("removeValue", v, Nil)
  /\ ht' = hst_remove_val(ht, v)
  /\ member' = ht'.count
  /\ adjacent' = Neighbours(ht, v)

TableNext ==
  \/ \E k \in Key, v \in Value : stltab_put(k, v)
  \/ \E pairs \in Other : stltab_add_all(pairs)
  \/ \E k \in Key : stltab_get(k) \/ stltab_has_key(k) \/ stltab_remove(k)
  \/ \E v \in Value : stltab_has_value(v) \/ stltab_remove_value(v)
  \/ stltab_keys
  \/ stltab_values

TableSpec == TableInit /\ [][TableNext]_tableVars

-----------------------------------------------------------------------------

TableTypeOK ==
  /\ ht.bucket \in [0..Size-1 -> Node \cup {NoNode}]
  /\ \A n \in Node : /\ ht.node[n].key \in Key \cup {NoNode} /\ ht.node[n].val \in Value \cup {NoNode}
                     /\ ht.node[n].next \in Node \cup {NoNode}
  /\ ht.live \subseteq Node /\ ht.count \in 0..Cardinality(Node) /\ member \in 0..Cardinality(Node)
  /\ adjacent \in BOOLEAN

\* The chains are lists of live nodes, every live node is in the chain its key
\* hashes to, no key is there twice, and both counts are their number: no node
\* is lost, freed while it is reached, or counted wrong.  Removing two
\* neighbours by value breaks this (hashtable.c:221-246).
ChainsSound ==
  ~adjacent =>
    LET all == AllNodes(ht)
    IN  /\ ToSet(all) = ht.live
        /\ Len(all) = Cardinality(ht.live) /\ ht.count = Len(all) /\ member = Len(all)
        /\ \A i \in 0..Size-1 : \A j \in DOMAIN Chain(ht, i) : mod(ht.node[Chain(ht, i)[j]].key) = i
        /\ \A m, n \in ht.live : KeyClass(ht.node[m].key) = KeyClass(ht.node[n].key) => m = n

\* The table as a map: what a lookup finds.
Classes(h) == {KeyClass(h.node[n].key) : n \in ToSet(AllNodes(h))}
AsMap == [c \in Classes(ht) |-> hst_get(ht, CHOOSE k \in Key : KeyClass(k) = c)]
D == INSTANCE Dictionary WITH map <- AsMap, done <- did

\* Whatever a method does to the table or returns, a map from keys to values
\* would do, until neighbours have been removed by value.  (Steps that call nothing
\* come first: it spares the model checker the rest.)
ImplementsDictionary == D!Init /\ [][(UNCHANGED ht /\ did'.nr = did.nr) \/ D!Next \/ adjacent']_tableVars

\* docs/stdlib.lky:244-245: removeValue "removes all key-value pairs with a given
\* value": "All values that match `value` in the table will be removed."
RemovesAllValues ==
  [][did'.op = "removeValue" => \A n \in ToSet(AllNodes(ht')) : ht'.node[n].val # did'.arg]_tableVars
=============================================================================

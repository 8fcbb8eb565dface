--------------------------- MODULE ObjectsProofs ----------------------------
(***************************************************************************)
(* Theorems about objects, for any number of them.  Arrays: the list never *)
(* has a hole, and a loop that calls back leaves its memory only after     *)
(* what LoopsStayInside says; the invariant ties the loop that is under    *)
(* way to the list: how far it may have got, what the callbacks have       *)
(* added, and what map has filled.  Classes: superInit and the self of a   *)
(* method, for any line of classes.  Modules: if they form no circle a     *)
(* program gets one value of each, for any files, names and depth of       *)
(* imports.                                                                *)
(***************************************************************************)
EXTENDS Arrays, Classes, Modules, SequenceTheorems, TLAPS

-----------------------------------------------------------------------------
(* Arrays.                                                                 *)

\* As long as no more than Slack elements are counted as added, the count is exact
\* enough: the list is no longer than it was with those added, and as long as it was
\* if none was added and none removed.
CountFollows ==
  walk.op # "none" =>
    /\ walk.added <= Slack => list.count <= walk.start + walk.added
    /\ walk.added = 0 /\ ~walk.removed => list.count = walk.start
    /\ walk.moved => walk.added > 0

\* An element that the program is called with was in reach when it was read.
VisitsInReach ==
  walk.calling =>
    /\ walk.op # "none"
    /\ walk.op \in HeaderLoops => walk.i < walk.start
    /\ walk.op \notin HeaderLoops /\ walk.added <= Slack => walk.i < walk.start + walk.added

\* map has filled its array as far as it has got, joined has room for as much.
FilledSoFar ==
  /\ walk.op = "map" => /\ mapped.allocated = walk.start + Slack /\ walk.i <= mapped.allocated
                        /\ ~walk.raised => \A j \in 0..walk.i-1 : mapped.items[j] \in Object
  /\ walk.op = "joined" => walk.i <= walk.start

\* What ArrayTypeOK says of a list, and that it has no other fields.
ListOK(l) == /\ DOMAIN l = {"items", "count", "allocated"}
             /\ l.count \in Int /\ l.allocated \in Nat
             /\ l.items \in [0..l.allocated-1 -> Cell]

Strayings == {"none", "append", "insert", "set", "get", "last", "removeAt", "raised"} \cup Loops

AInv == /\ ListOK(list) /\ ListOK(mapped) /\ members \in Int /\ walk \in Walk /\ stray \in Strayings
        /\ NoHoles /\ LoopsStayInside
        /\ stray = "none" => CountFollows /\ VisitsInReach /\ FilledSoFar

-----------------------------------------------------------------------------
(* The list.                                                               *)

\* What an update of two fields makes of a list.
LEMMA Updated ==
  ASSUME NEW l, DOMAIN l = {"items", "count", "allocated"}, NEW items, NEW count
  PROVE  LET r == [l EXCEPT !.items = items, !.count = count]
         IN  /\ DOMAIN r = {"items", "count", "allocated"}
             /\ r.items = items /\ r.count = count /\ r.allocated = l.allocated
OBVIOUS

\* A new list (arr_create) is well-formed and has no elements.
LEMMA Created ==
  ASSUME NEW n \in Nat
  PROVE  /\ ListOK(arr_create(n)) /\ Full(arr_create(n))
         /\ arr_create(n).allocated = n /\ arr_create(n).count = 0
BY SMT DEF arr_create, ListOK, Full, Cell

\* arr_manage_size keeps the elements; a list with room for something has room for one more.
LEMMA Managed ==
  ASSUME NEW l, ListOK(l), Full(l)
  PROVE  LET r == arr_manage_size(l)
         IN  /\ ListOK(r) /\ Full(r)
             /\ r.count = l.count
             /\ l.allocated > 0 => r.allocated > r.count
             /\ r.allocated >= l.allocated
<1>1. CASE l.count # l.allocated
  BY <1>1, SMT DEF arr_manage_size, ListOK, Full
<1>2. CASE l.count = l.allocated
  <2> DEFINE nl == IF l.allocated * 2 < Large THEN l.allocated * 2 ELSE l.allocated + Large
             it == [i \in 0..nl-1 |-> IF i < l.allocated THEN l.items[i] ELSE NULL]
             r == arr_manage_size(l)
  <2>1. nl \in Nat /\ nl >= l.allocated /\ (l.allocated > 0 => nl > l.allocated)
    BY ArrayAssumption, SMT DEF ListOK
  <2>2. r = [items |-> it, count |-> l.count, allocated |-> nl]
    BY <1>2 DEF arr_manage_size
  <2>3. it \in [0..nl-1 -> Cell]
    BY <2>1, SMT DEF ListOK, Cell
  <2>4. \A i \in 0..l.count-1 : it[i] = l.items[i]
    BY <1>2, <2>1, SMT DEF ListOK
  <2> HIDE DEF nl, it
  <2> QED BY <1>2, <2>1, <2>2, <2>3, <2>4, SMT DEF ListOK, Full
<1> QED BY <1>1, <1>2

\* Appending to a list that has room adds the element behind the others.
LEMMA Appended ==
  ASSUME NEW l, ListOK(l), Full(l), NEW x \in Object, arr_manage_size(l).allocated > l.count
  PROVE  LET r == arr_append(l, x)
         IN  ListOK(r) /\ Full(r) /\ r.count = l.count + 1
<1> DEFINE m == arr_manage_size(l)
<1>1. ListOK(m) /\ Full(m) /\ m.count = l.count /\ m.allocated > m.count
  BY Managed
<1>2. arr_append(l, x) = [m EXCEPT !.items[m.count] = x, !.count = @ + 1]
  BY DEF arr_append
<1> DEFINE it == [m.items EXCEPT ![m.count] = x]
<1> HIDE DEF m
<1>3. LET r == arr_append(l, x)
      IN  /\ DOMAIN r = {"items", "count", "allocated"}
          /\ r.items = it /\ r.count = m.count + 1 /\ r.allocated = m.allocated
  BY <1>1, <1>2, Updated DEF ListOK, it
<1>4. /\ it \in [0..m.allocated-1 -> Cell]
      /\ \A i \in 0..m.count : it[i] \in Object
  BY <1>1, SMT DEF ListOK, Full, Cell
<1> HIDE DEF it
<1> QED BY <1>1, <1>3, <1>4, SMT DEF ListOK, Full

\* Inserting at an element shifts it and those behind it.
LEMMA Inserted ==
  ASSUME NEW l, ListOK(l), Full(l), NEW x \in Object, NEW idx \in 0..l.count-1
  PROVE  LET r == arr_insert(l, x, idx)
         IN  ListOK(r) /\ Full(r) /\ r.count = l.count + 1
<1> DEFINE m == arr_manage_size(l)
           Shifted(i) == CASE i = idx -> x
                           [] i \in idx+1..m.count -> m.items[i - 1]
                           [] OTHER -> m.items[i]
           it == [i \in DOMAIN m.items |-> Shifted(i)]
<1>1. ListOK(m) /\ Full(m) /\ m.count = l.count /\ m.allocated > m.count
  <2>1. l.allocated > 0
    BY SMT DEF ListOK, Full
  <2> QED BY <2>1, Managed
<1>2. arr_insert(l, x, idx) = [m EXCEPT !.items = it, !.count = @ + 1]
  BY DEF arr_insert
<1>3. /\ it \in [0..m.allocated-1 -> Cell]
      /\ \A i \in 0..m.count : it[i] \in Object
  <2> HIDE DEF m
  <2>1. DOMAIN m.items = 0..m.allocated-1
    BY <1>1 DEF ListOK
  <2>2. ASSUME NEW i \in 0..m.allocated-1 PROVE Shifted(i) \in Cell /\ (i <= m.count => Shifted(i) \in Object)
    <3>1. CASE i = idx
      BY <3>1 DEF Cell
    <3>2. CASE i # idx /\ i \in idx+1..m.count
      <4>1. i - 1 \in 0..m.count-1
        BY <1>1, <3>2, SMT DEF ListOK
      <4>2. m.items[i - 1] \in Object
        BY <1>1, <4>1 DEF Full
      <4>3. Shifted(i) = m.items[i - 1]
        BY <3>2
      <4> QED BY <4>2, <4>3 DEF Cell
    <3>3. CASE i # idx /\ i \notin idx+1..m.count
      <4>1. Shifted(i) = m.items[i]
        BY <3>3
      <4>2. m.items[i] \in Cell /\ (i <= m.count => i \in 0..m.count-1)
        BY <1>1, <3>3, SMT DEF ListOK
      <4> QED BY <1>1, <4>1, <4>2 DEF Full
    <3> QED BY <3>1, <3>2, <3>3
  <2>3. \A i \in 0..m.count : i \in 0..m.allocated-1 /\ i <= m.count
    BY <1>1, SMT DEF ListOK
  <2> HIDE DEF Shifted
  <2> QED BY <2>1, <2>2, <2>3
<1> HIDE DEF m, it
<1>4. LET r == arr_insert(l, x, idx)
      IN  /\ DOMAIN r = {"items", "count", "allocated"}
          /\ r.items = it /\ r.count = m.count + 1 /\ r.allocated = m.allocated
  BY <1>1, <1>2, Updated DEF ListOK, it
<1> QED BY <1>1, <1>3, <1>4, SMT DEF ListOK, Full

\* Removing leaves a well-formed list, and one without holes if there was an element.
LEMMA Removed ==
  ASSUME NEW l, ListOK(l), Full(l), NEW idx \in Nat
  PROVE  LET r == remove_at_index(l, idx)
         IN  /\ ListOK(r) /\ r.count = l.count - 1 /\ r.allocated = l.allocated
             /\ idx < l.count => Full(r)
<1> DEFINE Shifted(i) == CASE i \notin idx..l.count-1 -> l.items[i]
                           [] i \in idx..l.count-2 -> l.items[i + 1]
                           [] OTHER -> NULL
           it == [i \in DOMAIN l.items |-> Shifted(i)]
<1>1. remove_at_index(l, idx) = [l EXCEPT !.items = it, !.count = @ - 1]
  BY DEF remove_at_index
<1>2. DOMAIN l.items = 0..l.allocated-1
  BY DEF ListOK
<1>3. ASSUME NEW i \in 0..l.allocated-1
      PROVE  Shifted(i) \in Cell /\ (idx < l.count /\ i < l.count - 1 => Shifted(i) \in Object)
  <2>1. CASE i \notin idx..l.count-1
    <3>1. l.items[i] \in Cell /\ (i < l.count - 1 => i \in 0..l.count-1)
      BY SMT DEF ListOK
    <3>2. Shifted(i) = l.items[i]
      <4>1. i \notin idx..l.count-2
        BY <2>1, SMT DEF ListOK
      <4> QED BY <2>1, <4>1
    <3> QED BY <3>1, <3>2 DEF Full
  <2>2. CASE i \in idx..l.count-1 /\ i \in idx..l.count-2
    <3>1. i + 1 \in 0..l.count-1
      BY <2>2, SMT DEF ListOK
    <3>2. Shifted(i) = l.items[i + 1]
      BY <2>2
    <3> QED BY <3>1, <3>2 DEF Full, Cell
  <2>3. CASE i \in idx..l.count-1 /\ i \notin idx..l.count-2
    <3>1. ~(i < l.count - 1)
      BY <2>3, SMT DEF ListOK
    <3>2. Shifted(i) = NULL
      BY <2>3
    <3> QED BY <3>1, <3>2 DEF Cell
  <2> QED BY <2>1, <2>2, <2>3
<1>4. \A i \in 0..l.count-2 : i \in 0..l.allocated-1 /\ i < l.count - 1
  BY SMT DEF ListOK, Full
<1>5. /\ it \in [0..l.allocated-1 -> Cell]
      /\ idx < l.count => \A i \in 0..l.count-2 : it[i] \in Object
  <2> HIDE DEF Shifted
  <2> QED BY <1>2, <1>3, <1>4
<1> HIDE DEF it
<1>6. LET r == remove_at_index(l, idx)
      IN  /\ DOMAIN r = {"items", "count", "allocated"}
          /\ r.items = it /\ r.count = l.count - 1 /\ r.allocated = l.allocated
  BY <1>1, Updated DEF ListOK
<1> QED BY <1>5, <1>6, SMT DEF ListOK, Full

\* Copying elements to the start of a list that has room for them leaves no hole.
LEMMA Copies ==
  ASSUME NEW l, ListOK(l), Full(l), NEW size \in Nat, size <= l.allocated,
         NEW source, \A i \in 0..size-1 : source[i] \in Object
  PROVE  LET r == Copied(l, source, size)
         IN  /\ ListOK(r) /\ Full(r) /\ r.allocated = l.allocated
             /\ r.count = IF l.count < size THEN size ELSE l.count
<1> DEFINE it == [i \in DOMAIN l.items |-> IF i < size THEN source[i] ELSE l.items[i]]
           c == IF l.count < size THEN size ELSE l.count
<1>1. Copied(l, source, size) = [l EXCEPT !.items = it, !.count = c]
  BY DEF Copied, ListOK
<1>2. /\ it \in [0..l.allocated-1 -> Cell]
      /\ \A i \in 0..c-1 : it[i] \in Object
      /\ c \in Nat /\ c <= l.allocated
  BY SMT DEF ListOK, Full, Cell
<1>3. c = IF l.count < size THEN size ELSE l.count
  OBVIOUS
<1> HIDE DEF it, c
<1>4. LET r == Copied(l, source, size)
      IN  /\ DOMAIN r = {"items", "count", "allocated"}
          /\ r.items = it /\ r.count = c /\ r.allocated = l.allocated
  BY <1>1, Updated DEF ListOK
<1> QED BY <1>2, <1>3, <1>4, SMT DEF ListOK, Full

-----------------------------------------------------------------------------
(* The elements as a sequence.                                             *)

ElementsOf(l) == [i \in 1..l.count |-> l.items[i - 1]]

\* The elements of a list without holes, with what is known of every place.
LEMMA ElementsAre ==
  ASSUME NEW l, ListOK(l), Full(l)
  PROVE  /\ ElementsOf(l) \in Seq(Object) /\ Len(ElementsOf(l)) = l.count /\ l.count \in Nat
         /\ \A i \in 1..l.count : ElementsOf(l)[i] = l.items[i - 1] /\ l.items[i - 1] \in Object
<1>1. l.count \in Nat /\ \A i \in 1..l.count : l.items[i - 1] \in Object
  BY SMT DEF ListOK, Full
<1>2. ElementsOf(l) \in Seq(Object)
  BY <1>1, IsASeq DEF ElementsOf
<1>3. Len(ElementsOf(l)) = l.count
  BY <1>1, <1>2, LenProperties DEF ElementsOf
<1> QED BY <1>1, <1>2, <1>3 DEF ElementsOf

\* A list has the elements of a sequence as soon as it has them in its cells.
LEMMA ElementsAreThose ==
  ASSUME NEW l, ListOK(l), Full(l), NEW s \in Seq(Object), Len(s) = l.count,
         \A i \in 1..l.count : l.items[i - 1] = s[i]
  PROVE  ElementsOf(l) = s
BY ElementsAre, SeqEqual

\* Making room (arr_manage_size) moves no element.
LEMMA ManagedKeeps ==
  ASSUME NEW l, ListOK(l), Full(l), NEW i \in 0..l.count-1
  PROVE  arr_manage_size(l).items[i] = l.items[i]
<1>1. CASE l.count # l.allocated
  BY <1>1 DEF arr_manage_size
<1>2. CASE l.count = l.allocated
  <2> DEFINE nl == IF l.allocated * 2 < Large THEN l.allocated * 2 ELSE l.allocated + Large
             it == [j \in 0..nl-1 |-> IF j < l.allocated THEN l.items[j] ELSE NULL]
  <2>1. arr_manage_size(l).items = it
    BY <1>2 DEF arr_manage_size
  <2>2. nl \in Nat /\ nl >= l.allocated
    BY ArrayAssumption, SMT DEF ListOK
  <2>3. i \in 0..nl-1 /\ i < l.allocated
    BY <1>2, <2>2, SMT DEF ListOK
  <2> QED BY <2>1, <2>3
<1> QED BY <1>1, <1>2

\* arr_append appends.
LEMMA AppendAppends ==
  ASSUME NEW l, ListOK(l), Full(l), NEW x \in Object, arr_manage_size(l).allocated > l.count
  PROVE  ElementsOf(arr_append(l, x)) = Append(ElementsOf(l), x)
<1> DEFINE m == arr_manage_size(l)
           r == arr_append(l, x)
           s == Append(ElementsOf(l), x)
<1>1. ListOK(m) /\ Full(m) /\ m.count = l.count /\ m.allocated > m.count
  BY Managed
<1>2. ListOK(r) /\ Full(r) /\ r.count = l.count + 1
  BY Appended
<1>3. /\ s \in Seq(Object) /\ Len(s) = l.count + 1 /\ l.count \in Nat
      /\ \A i \in 1..l.count : s[i] = l.items[i - 1]
      /\ s[l.count + 1] = x
  BY ElementsAre, AppendProperties
<1>4. \A i \in 1..l.count+1 : r.items[i - 1] = s[i]
  <2>1. r.items = [m.items EXCEPT ![m.count] = x]
    <3> HIDE DEF m
    <3>1. r = [m EXCEPT !.items = [m.items EXCEPT ![m.count] = x], !.count = m.count + 1]
      BY <1>1 DEF arr_append, m, ListOK
    <3> HIDE DEF r
    <3> QED BY <1>1, <3>1, Updated DEF ListOK
  <2>2. m.count \in DOMAIN m.items /\ DOMAIN m.items = 0..m.allocated-1
    BY <1>1, SMT DEF ListOK, Full
  <2>3. ASSUME NEW i \in 1..l.count PROVE r.items[i - 1] = s[i]
    <3>1. i - 1 \in 0..l.count-1 /\ i - 1 # m.count /\ i - 1 \in DOMAIN m.items
      BY <1>1, <1>3, <2>2, SMT DEF ListOK
    <3>2. m.items[i - 1] = l.items[i - 1]
      BY <3>1, ManagedKeeps
    <3> HIDE DEF m, r, s
    <3> QED BY <1>3, <2>1, <3>1, <3>2
  <2>4. r.items[l.count] = x
    BY <1>1, <2>1, <2>2
  <2> HIDE DEF m, r, s
  <2>5. \A i \in 1..l.count+1 : i \in 1..l.count \/ (i = l.count + 1 /\ i - 1 = l.count)
    BY <1>3, SMT
  <2> QED BY <1>3, <2>3, <2>4, <2>5
<1> HIDE DEF r, s
<1>5. ElementsOf(r) = s
  BY <1>2, <1>3, <1>4, ElementsAreThose
<1> QED BY <1>5 DEF r, s

\* arr_insert inserts before the element that was at idx.
LEMMA InsertInserts ==
  ASSUME NEW l, ListOK(l), Full(l), NEW x \in Object, NEW idx \in 0..l.count-1
  PROVE  ElementsOf(arr_insert(l, x, idx)) = InsertAt(ElementsOf(l), idx + 1, x)
<1> DEFINE m == arr_manage_size(l)
           r == arr_insert(l, x, idx)
           e == ElementsOf(l)
           s == InsertAt(e, idx + 1, x)
           Shifted(i) == CASE i = idx -> x
                           [] i \in idx+1..m.count -> m.items[i - 1]
                           [] OTHER -> m.items[i]
<1>1. /\ ListOK(m) /\ Full(m) /\ m.count = l.count /\ m.allocated > m.count
      /\ l.count \in Nat /\ l.count > 0 /\ m.allocated \in Nat
  <2>1. l.allocated > 0
    BY SMT DEF ListOK, Full
  <2> QED BY <2>1, Managed, SMT DEF ListOK, Full
<1>2. ListOK(r) /\ Full(r) /\ r.count = l.count + 1
  BY Inserted
<1>3. /\ e \in Seq(Object) /\ Len(e) = l.count
      /\ \A i \in 1..l.count : e[i] = l.items[i - 1]
  BY ElementsAre
<1>4. ASSUME NEW i \in 1..l.count PROVE e[i] = m.items[i - 1]
  <2>1. i - 1 \in 0..l.count-1
    BY <1>1, SMT
  <2> QED BY <1>3, <2>1, ManagedKeeps
<1>5. r.items = [i \in DOMAIN m.items |-> Shifted(i)]
  <2> DEFINE it == [i \in DOMAIN m.items |-> Shifted(i)]
  <2>1. r = [m EXCEPT !.items = it, !.count = m.count + 1]
    BY <1>1 DEF arr_insert, ListOK
  <2> HIDE DEF m, it, r
  <2>2. r.items = it
    BY <1>1, <2>1, Updated DEF ListOK
  <2> QED BY <2>2 DEF it
<1>6. /\ s \in Seq(Object) /\ Len(s) = l.count + 1
      /\ \A i \in 1..l.count+1 : s[i] = IF i <= idx THEN e[i] ELSE IF i = idx + 1 THEN x ELSE e[i - 1]
  <2> DEFINE k == (idx + 1) - 1
             a == SubSeq(e, 1, k)
             b == SubSeq(e, idx + 1, Len(e))
  <2>0. k = idx
    BY SMT
  <2>1. s = (a \o <<x>>) \o b
    BY DEF InsertAt
  <2> HIDE DEF k
  <2>2. /\ a \in Seq(Object) /\ Len(a) = idx
        /\ \A i \in 1..idx : a[i] = e[i]
    <3>1. \A i \in 1..idx : i \in 1..Len(e) /\ 1 + i - 1 = i
      BY <1>1, <1>3, SMT
    <3>2. \A i \in 1..idx : e[i] \in Object
      BY <1>3, <3>1, ElementOfSeq
    <3>3. idx - 1 + 1 = idx /\ idx \in Int /\ 1 \in Int /\ (1 <= idx \/ idx = 0)
      BY <1>1, SMT
    <3>4. /\ a \in Seq(Object) /\ Len(a) = IF 1 <= idx THEN idx - 1 + 1 ELSE 0
          /\ \A i \in 1..idx-1+1 : a[i] = e[1 + i - 1]
      BY <2>0, <3>2, <3>3, SubSeqProperties
    <3> HIDE DEF a
    <3>5. Len(a) = idx
      BY <3>4, <3>3, SMT
    <3>6. \A i \in 1..idx : a[i] = e[i]
      BY <3>1, <3>4, <3>3
    <3> QED BY <3>4, <3>5, <3>6
  <2>3. /\ b \in Seq(Object) /\ Len(b) = l.count - idx
        /\ \A i \in 1..l.count-idx : b[i] = e[idx + i]
    <3>1. \A i \in idx+1..Len(e) : e[i] \in Object
      <4>1. \A i \in idx+1..Len(e) : i \in 1..Len(e)
        BY <1>1, <1>3, SMT
      <4> QED BY <1>3, <4>1, ElementOfSeq
    <3>2. Len(e) \in Int /\ idx + 1 \in Int /\ Len(e) - (idx + 1) + 1 = l.count - idx /\ idx + 1 <= Len(e)
      BY <1>1, <1>3, SMT
    <3>3. \A i \in 1..l.count-idx : idx + 1 + i - 1 = idx + i
      BY <1>1, SMT
    <3>4. /\ b \in Seq(Object) /\ Len(b) = Len(e) - (idx + 1) + 1
          /\ \A i \in 1..Len(e)-(idx+1)+1 : b[i] = e[idx + 1 + i - 1]
      BY <3>1, <3>2, SubSeqProperties
    <3> HIDE DEF b
    <3> QED BY <3>2, <3>3, <3>4
  <2>4. <<x>> \in Seq(Object) /\ Len(<<x>>) = 1 /\ <<x>>[1] = x
    BY SMT
  <2> HIDE DEF a, b
  <2> DEFINE c == a \o <<x>>
  <2>5. /\ c \in Seq(Object) /\ Len(c) = idx + 1
        /\ \A i \in 1..idx+1 : c[i] = IF i <= idx THEN a[i] ELSE <<x>>[i - idx]
    BY <2>2, <2>4, ConcatProperties
  <2>6. \A i \in 1..idx+1 : c[i] = IF i <= idx THEN e[i] ELSE x
    <3>1. \A i \in 1..idx+1 : (i <= idx => i \in 1..idx) /\ (~(i <= idx) => i - idx = 1)
      BY <1>1, SMT
    <3> HIDE DEF c
    <3> QED BY <2>2, <2>4, <2>5, <3>1
  <2> HIDE DEF c
  <2>7. Len(c) + Len(b) = l.count + 1
    BY <1>1, <2>3, <2>5, SMT
  <2>8. s = c \o b
    BY <2>1 DEF c
  <2>9. /\ c \o b \in Seq(Object) /\ Len(c \o b) = l.count + 1
        /\ \A i \in 1..l.count+1 : (c \o b)[i] = IF i <= idx + 1 THEN c[i] ELSE b[i - (idx + 1)]
    <3>1. /\ c \o b \in Seq(Object) /\ Len(c \o b) = Len(c) + Len(b)
          /\ \A i \in 1..Len(c)+Len(b) : (c \o b)[i] = IF i <= Len(c) THEN c[i] ELSE b[i - Len(c)]
      BY <2>3, <2>5, ConcatProperties
    <3> QED BY <2>5, <2>7, <3>1
  <2>10. \A i \in 1..l.count+1 : /\ i <= idx + 1 => i \in 1..idx+1
                                 /\ i <= idx \/ i = idx + 1 <=> i <= idx + 1
                                 /\ i <= idx => i # idx + 1
                                 /\ ~(i <= idx + 1) => i - (idx + 1) \in 1..l.count-idx /\ idx + (i - (idx + 1)) = i - 1
    BY <1>1, SMT
  <2> HIDE DEF s, e
  <2>11. ASSUME NEW i \in 1..l.count+1
         PROVE  s[i] = IF i <= idx THEN e[i] ELSE IF i = idx + 1 THEN x ELSE e[i - 1]
    <3>1. CASE i <= idx + 1
      BY <2>6, <2>8, <2>9, <2>10, <3>1
    <3>2. CASE ~(i <= idx + 1)
      BY <2>3, <2>8, <2>9, <2>10, <3>2
    <3> QED BY <3>1, <3>2
  <2> QED BY <2>8, <2>9, <2>11
<1>7. DOMAIN m.items = 0..m.allocated-1
  BY <1>1 DEF ListOK
<1>8. ASSUME NEW i \in 1..l.count+1 PROVE r.items[i - 1] = s[i]
  <2>1. i - 1 \in DOMAIN m.items
    BY <1>1, <1>7, SMT
  <2> HIDE DEF m, r, s, e
  <2>2. r.items[i - 1] = Shifted(i - 1)
    BY <1>5, <2>1
  <2>3. CASE i <= idx
    <3>1. i - 1 # idx /\ i - 1 \notin idx+1..m.count /\ i \in 1..l.count
      BY <1>1, <2>3, SMT
    <3>2. Shifted(i - 1) = m.items[i - 1]
      BY <3>1
    <3> HIDE DEF Shifted
    <3> QED BY <1>4, <1>6, <2>2, <2>3, <3>1, <3>2
  <2>4. CASE i = idx + 1
    <3>1. i - 1 = idx /\ ~(i <= idx)
      BY <1>1, <2>4, SMT
    <3>2. Shifted(i - 1) = x
      BY <3>1
    <3> HIDE DEF Shifted
    <3> QED BY <1>6, <2>2, <2>4, <3>1, <3>2
  <2>5. CASE ~(i <= idx) /\ i # idx + 1
    <3>1. i - 1 # idx /\ i - 1 \in idx+1..m.count /\ i - 1 \in 1..l.count /\ ~(i <= idx)
      BY <1>1, <2>5, SMT
    <3>2. Shifted(i - 1) = m.items[(i - 1) - 1]
      BY <3>1
    <3> HIDE DEF Shifted
    <3>3. e[i - 1] = m.items[(i - 1) - 1]
      BY <1>4, <3>1
    <3> QED BY <1>6, <2>2, <2>5, <3>1, <3>2, <3>3
  <2> QED BY <2>3, <2>4, <2>5
<1> HIDE DEF r, s
<1>9. ElementsOf(r) = s
  BY <1>2, <1>6, <1>8, ElementsAreThose
<1> QED BY <1>9 DEF r, s, e

\* Overwriting a cell overwrites the element.
LEMMA SetReplaces ==
  ASSUME NEW l, ListOK(l), Full(l), NEW x \in Object, NEW idx \in 0..l.count-1
  PROVE  ElementsOf([l EXCEPT !.items[idx] = x]) = ReplaceAt(ElementsOf(l), idx + 1, x)
<1> DEFINE r == [l EXCEPT !.items[idx] = x]
           e == ElementsOf(l)
           s == ReplaceAt(e, idx + 1, x)
<1>1. ListOK(r) /\ Full(r) /\ r.count = l.count /\ r.items = [l.items EXCEPT ![idx] = x]
  BY SMT DEF ListOK, Full, Cell
<1>2. /\ e \in Seq(Object) /\ Len(e) = l.count /\ l.count \in Nat
      /\ \A i \in 1..l.count : e[i] = l.items[i - 1]
  BY ElementsAre
<1>3. idx + 1 \in 1..Len(e)
  BY <1>2, SMT
<1>4. s = [e EXCEPT ![idx + 1] = x]
  BY DEF ReplaceAt
<1> HIDE DEF s, e
<1>5. /\ s \in Seq(Object) /\ Len(s) = l.count
      /\ \A i \in 1..l.count : s[i] = IF i = idx + 1 THEN x ELSE e[i]
  <2> DEFINE k == idx + 1
  <2> HIDE DEF k
  <2>1. k \in 1..Len(e) /\ s = [e EXCEPT ![k] = x]
    BY <1>3, <1>4 DEF k
  <2>2. /\ s \in Seq(Object) /\ Len(s) = l.count
        /\ \A i \in 1..l.count : s[i] = IF i = k THEN x ELSE e[i]
    BY <1>2, <2>1, ExceptSeq
  <2> QED BY <2>2 DEF k
<1>6. \A i \in 1..l.count : /\ i - 1 \in DOMAIN l.items
                            /\ i - 1 = idx <=> i = idx + 1
  BY <1>2, SMT DEF ListOK, Full
<1> HIDE DEF r
<1>7. \A i \in 1..l.count : r.items[i - 1] = s[i]
  BY <1>1, <1>2, <1>5, <1>6
<1>8. ElementsOf(r) = s
  BY <1>1, <1>5, <1>7, ElementsAreThose
<1> QED BY <1>8 DEF r, s, e

\* remove_at_index closes the gap.
LEMMA RemoveRemoves ==
  ASSUME NEW l, ListOK(l), Full(l), NEW idx \in 0..l.count-1
  PROVE  ElementsOf(remove_at_index(l, idx)) = RemoveAt(ElementsOf(l), idx + 1)
<1> DEFINE r == remove_at_index(l, idx)
           e == ElementsOf(l)
           s == RemoveAt(e, idx + 1)
           Shifted(i) == CASE i \notin idx..l.count-1 -> l.items[i]
                           [] i \in idx..l.count-2 -> l.items[i + 1]
                           [] OTHER -> NULL
<1>1. /\ e \in Seq(Object) /\ Len(e) = l.count /\ l.count \in Nat
      /\ \A i \in 1..l.count : e[i] = l.items[i - 1]
  BY ElementsAre
<1>2. ListOK(r) /\ Full(r) /\ r.count = l.count - 1
  <2>1. idx \in Nat /\ idx < l.count
    BY <1>1, SMT
  <2> QED BY <2>1, Removed
<1>3. r.items = [i \in DOMAIN l.items |-> Shifted(i)]
  <2> DEFINE it == [i \in DOMAIN l.items |-> Shifted(i)]
  <2>1. r = [l EXCEPT !.items = it, !.count = l.count - 1]
    BY DEF remove_at_index, ListOK
  <2> HIDE DEF it, r
  <2>2. r.items = it
    BY <2>1, Updated DEF ListOK
  <2> QED BY <2>2 DEF it
<1>4. /\ s \in Seq(Object) /\ Len(s) = l.count - 1
      /\ \A i \in 1..l.count-1 : s[i] = IF i <= idx THEN e[i] ELSE e[i + 1]
  <2> DEFINE k == (idx + 1) - 1
             n == (idx + 1) + 1
             a == SubSeq(e, 1, k)
             b == SubSeq(e, n, Len(e))
  <2>1. k = idx /\ n = idx + 2
    BY SMT
  <2>2. s = a \o b
    BY DEF RemoveAt
  <2> HIDE DEF k, n
  <2>3. /\ a \in Seq(Object) /\ Len(a) = idx
        /\ \A i \in 1..idx : a[i] = e[i]
    <3>1. \A i \in 1..idx : i \in 1..Len(e) /\ 1 + i - 1 = i
      BY <1>1, SMT
    <3>2. \A i \in 1..idx : e[i] \in Object
      BY <1>1, <3>1, ElementOfSeq
    <3>3. idx - 1 + 1 = idx /\ idx \in Int /\ 1 \in Int /\ (1 <= idx \/ idx = 0)
      BY <1>1, SMT
    <3>4. /\ a \in Seq(Object) /\ Len(a) = IF 1 <= idx THEN idx - 1 + 1 ELSE 0
          /\ \A i \in 1..idx-1+1 : a[i] = e[1 + i - 1]
      BY <2>1, <3>2, <3>3, SubSeqProperties
    <3> HIDE DEF a
    <3>5. Len(a) = idx
      BY <3>4, <3>3, SMT
    <3>6. \A i \in 1..idx : a[i] = e[i]
      BY <3>1, <3>4, <3>3
    <3> QED BY <3>4, <3>5, <3>6
  <2>4. /\ b \in Seq(Object) /\ Len(b) = l.count - 1 - idx
        /\ \A i \in 1..l.count-1-idx : b[i] = e[idx + 1 + i]
    <3>1. \A i \in n..Len(e) : e[i] \in Object
      <4>1. \A i \in n..Len(e) : i \in 1..Len(e)
        BY <1>1, <2>1, SMT
      <4> QED BY <1>1, <4>1, ElementOfSeq
    <3>2. Len(e) \in Int /\ n \in Int
      BY <1>1, <2>1, SMT
    <3>3. \A i \in 1..l.count-1-idx : n + i - 1 = idx + 1 + i
      BY <1>1, <2>1, SMT
    <3>4. /\ b \in Seq(Object) /\ Len(b) = IF n <= Len(e) THEN Len(e) - n + 1 ELSE 0
          /\ \A i \in 1..Len(e)-n+1 : b[i] = e[n + i - 1]
      BY <3>1, <3>2, SubSeqProperties
    <3>5. /\ (IF n <= Len(e) THEN Len(e) - n + 1 ELSE 0) = l.count - 1 - idx
          /\ Len(e) - n + 1 = l.count - 1 - idx
      BY <1>1, <2>1, SMT
    <3> HIDE DEF b
    <3> QED BY <3>3, <3>4, <3>5
  <2> HIDE DEF a, b
  <2>5. Len(a) + Len(b) = l.count - 1
    BY <1>1, <2>3, <2>4, SMT
  <2>6. /\ a \o b \in Seq(Object) /\ Len(a \o b) = l.count - 1
        /\ \A i \in 1..l.count-1 : (a \o b)[i] = IF i <= idx THEN a[i] ELSE b[i - idx]
    <3>1. /\ a \o b \in Seq(Object) /\ Len(a \o b) = Len(a) + Len(b)
          /\ \A i \in 1..Len(a)+Len(b) : (a \o b)[i] = IF i <= Len(a) THEN a[i] ELSE b[i - Len(a)]
      BY <2>3, <2>4, ConcatProperties
    <3> QED BY <2>3, <2>5, <3>1
  <2>7. \A i \in 1..l.count-1 : /\ i <= idx => i \in 1..idx
                                /\ ~(i <= idx) => i - idx \in 1..l.count-1-idx /\ idx + 1 + (i - idx) = i + 1
    BY <1>1, SMT
  <2> HIDE DEF s, e
  <2>8. \A i \in 1..l.count-1 : s[i] = IF i <= idx THEN e[i] ELSE e[i + 1]
    BY <2>2, <2>3, <2>4, <2>6, <2>7
  <2> QED BY <2>2, <2>6, <2>8
<1>5. ASSUME NEW i \in 1..l.count-1 PROVE r.items[i - 1] = s[i]
  <2>1. i - 1 \in DOMAIN l.items
    BY <1>1, SMT DEF ListOK, Full
  <2> HIDE DEF r, s, e
  <2>2. r.items[i - 1] = Shifted(i - 1)
    BY <1>3, <2>1
  <2>3. CASE i <= idx
    <3>1. i - 1 \notin idx..l.count-1 /\ i - 1 \notin idx..l.count-2 /\ i \in 1..l.count
      BY <1>1, <2>3, SMT
    <3>2. Shifted(i - 1) = l.items[i - 1]
      BY <3>1
    <3> HIDE DEF Shifted
    <3> QED BY <1>1, <1>4, <2>2, <2>3, <3>1, <3>2
  <2>4. CASE ~(i <= idx)
    <3>1. i - 1 \in idx..l.count-1 /\ i - 1 \in idx..l.count-2 /\ i + 1 \in 1..l.count /\ (i - 1) + 1 = (i + 1) - 1
      BY <1>1, <2>4, SMT
    <3>2. Shifted(i - 1) = l.items[(i - 1) + 1]
      BY <3>1
    <3> HIDE DEF Shifted
    <3>3. s[i] = l.items[(i + 1) - 1]
      BY <1>1, <1>4, <2>4, <3>1
    <3> QED BY <2>2, <3>1, <3>2, <3>3
  <2> QED BY <2>3, <2>4
<1> HIDE DEF r, s
<1>6. ElementsOf(r) = s
  BY <1>2, <1>4, <1>5, ElementsAreThose
<1> QED BY <1>6 DEF r, s, e

\* Copying the elements to a new list that has room for them copies the sequence.
LEMMA CopyCopies ==
  ASSUME NEW l, ListOK(l), Full(l), NEW n \in Nat, l.count <= n
  PROVE  ElementsOf(Copied(arr_create(n), l.items, l.count)) = ElementsOf(l)
<1> DEFINE new == arr_create(n)
           r == Copied(new, l.items, l.count)
<1>1. ListOK(new) /\ Full(new) /\ new.allocated = n /\ new.count = 0
  BY Created
<1>2. l.count \in Nat /\ \A i \in 0..l.count-1 : l.items[i] \in Object
  BY SMT DEF ListOK, Full
<1> HIDE DEF new
<1>3. ListOK(r) /\ Full(r) /\ r.count = IF 0 < l.count THEN l.count ELSE 0
  BY <1>1, <1>2, Copies
<1>4. r.count = l.count
  BY <1>2, <1>3, SMT
<1>5. \A i \in 1..l.count : r.items[i - 1] = l.items[i - 1]
  <2> DEFINE it == [i \in DOMAIN new.items |-> IF i < l.count THEN l.items[i] ELSE new.items[i]]
  <2>1. r = [new EXCEPT !.items = it, !.count = IF new.count < l.count THEN l.count ELSE new.count]
    BY <1>1 DEF Copied, ListOK
  <2> HIDE DEF it, r
  <2>2. r.items = it
    BY <1>1, <2>1, Updated DEF ListOK
  <2>3. \A i \in 1..l.count : i - 1 \in DOMAIN new.items /\ i - 1 < l.count
    BY <1>1, <1>2, SMT DEF ListOK
  <2> QED BY <2>2, <2>3 DEF it
<1> HIDE DEF r
<1>6. /\ ElementsOf(l) \in Seq(Object) /\ Len(ElementsOf(l)) = l.count
      /\ \A i \in 1..l.count : ElementsOf(l)[i] = l.items[i - 1]
  BY ElementsAre
<1>7. ElementsOf(r) = ElementsOf(l)
  BY <1>3, <1>4, <1>5, <1>6, ElementsAreThose
<1> QED BY <1>7 DEF r, new

-----------------------------------------------------------------------------
(* The calls.                                                              *)

\* Where no method has gone astray, what is left to show.
LEMMA Sound ==
  ASSUME ListOK(list)', Full(list)', ListOK(mapped)', walk' \in Walk, stray' = "none",
         members' = list'.count, CountFollows', VisitsInReach', FilledSoFar'
  PROVE  AInv'
<1>1. NoHoles'
  BY DEF NoHoles
<1>2. LoopsStayInside'
  BY DEF LoopsStayInside, HeaderLoops
<1>3. members' \in Int
  BY DEF ListOK
<1>4. stray' \in Strayings
  BY DEF Strayings
<1> QED BY <1>1, <1>2, <1>3, <1>4 DEF AInv

\* What a step to a list without holes does to the loop that is under way.  Only a
\* list that has grown may have moved.
LEMMA Replaced ==
  ASSUME AInv, Running, NEW l, ListOK(l), Full(l), Becomes(l), stray' = "none",
         l.allocated # list.allocated => l.count > list.count
  PROVE  AInv'
<1>1. stray = "none" /\ (walk.op # "none" => walk.calling)
  BY DEF Running
<1>2. list' = l /\ members' = l.count /\ mapped' = mapped
  BY DEF Becomes
<1>3. CASE walk.op = "none"
  <2>1. walk' = walk
    BY <1>3 DEF Becomes
  <2>2. CountFollows' /\ VisitsInReach' /\ FilledSoFar'
    BY <1>1, <1>3, <2>1 DEF AInv, CountFollows, VisitsInReach, FilledSoFar
  <2>3. ListOK(list)' /\ Full(list)' /\ ListOK(mapped)' /\ walk' \in Walk
    BY <1>2, <2>1 DEF AInv, ListOK, Full
  <2> QED BY <1>2, <2>2, <2>3, Sound
<1>4. CASE walk.op # "none"
  <2>1. PICK moves \in BOOLEAN :
          /\ moves => l.allocated # list.allocated
          /\ walk' = [walk EXCEPT !.added = IF l.count > list.count THEN Added(l.count - list.count) ELSE @,
                                  !.removed = @ \/ l.count < list.count,
                                  !.moved = @ \/ moves]
    BY <1>4 DEF Becomes
  <2> DEFINE n == IF l.count > list.count THEN Added(l.count - list.count) ELSE walk.added
  <2>2. walk \in Walk /\ list.count \in Int /\ l.count \in Int
    BY DEF AInv, ListOK
  <2>3. /\ n \in Nat /\ (n <= Slack => n >= walk.added)
        /\ l.count > list.count => n > 0
        /\ n <= Slack /\ walk.added <= Slack => (l.count - list.count <= n - walk.added)
        /\ n = 0 => walk.added = 0 /\ ~(l.count > list.count)
        /\ n <= Slack => walk.added <= Slack
    <3>1. walk.added \in Nat /\ Slack \in Nat
      BY <2>2, ArrayAssumption DEF Walk
    <3>2. CASE l.count > list.count
      <4>1. n = IF walk.added + (l.count - list.count) > Slack THEN Slack + 1
                ELSE walk.added + (l.count - list.count)
        BY <3>2 DEF Added
      <4> HIDE DEF n
      <4> QED BY <2>2, <3>1, <3>2, <4>1, SMT
    <3>3. CASE ~(l.count > list.count)
      <4>1. n = walk.added
        BY <3>3
      <4> HIDE DEF n
      <4> QED BY <2>2, <3>1, <3>3, <4>1, SMT
    <3> QED BY <3>2, <3>3
  <2> HIDE DEF n
  <2>4. /\ walk' \in Walk
        /\ walk'.op = walk.op /\ walk'.i = walk.i /\ walk'.calling = walk.calling
        /\ walk'.start = walk.start /\ walk'.raised = walk.raised
        /\ walk'.added = n
        /\ walk'.removed = (walk.removed \/ l.count < list.count)
        /\ walk'.moved = (walk.moved \/ moves)
    BY <2>1, <2>2, <2>3 DEF Walk, n
  <2>5. CountFollows'
    BY <1>1, <1>2, <1>4, <2>1, <2>2, <2>3, <2>4, SMT DEF AInv, CountFollows, Walk
  <2>6. VisitsInReach'
    BY <1>1, <1>4, <2>2, <2>3, <2>4, SMT DEF AInv, VisitsInReach, Walk, HeaderLoops
  <2>7. FilledSoFar'
    BY <1>1, <1>2, <2>4 DEF AInv, FilledSoFar
  <2>8. ListOK(list)' /\ Full(list)' /\ ListOK(mapped)'
    BY <1>2 DEF AInv, ListOK, Full
  <2> QED BY <1>2, <2>4, <2>5, <2>6, <2>7, <2>8, Sound
<1> QED BY <1>3, <1>4

\* A method may go astray wherever the two promises allow it.
LEMMA Strayed ==
  ASSUME AInv, NEW op \in Strayings \ {"none"}, Strays(op),
         op = "append" => list.allocated = 0,
         op \notin {"reduce", "for", "last"},
         op = "map" => walk.added > Slack,
         op \in HeaderLoops \cup {"joined"} => walk.added > 0 \/ walk.removed
  PROVE  AInv'
BY DEF AInv, Strays, ListOK, NoHoles, Full, LoopsStayInside, HeaderLoops

\* The others may go astray at any time.
LEMMA OthersStray ==
  ASSUME AInv, NEW op \in {"insert", "set", "get", "removeAt", "raised"}, Strays(op)
  PROVE  AInv'
<1>1. /\ op \in Strayings \ {"none"}
      /\ op \notin {"append", "map", "reduce", "for", "last", "joined"}
      /\ op \notin HeaderLoops
  BY SMT DEF HeaderLoops, Strayings
<1> QED BY <1>1, Strayed

\* A step that changes nothing.
LEMMA Unchanged ==
  ASSUME AInv, UNCHANGED arrayVars
  PROVE  AInv'
BY DEF AInv, arrayVars, ListOK, NoHoles, Full, LoopsStayInside, HeaderLoops, CountFollows,
   VisitsInReach, FilledSoFar, Cell

LEMMA AppendStep == ASSUME AInv, NEW x \in Object, stlarr_append(x) PROVE AInv'
<1>1. stray = "none" /\ ListOK(list) /\ Full(list) /\ Running
  BY DEF stlarr_append, Running, AInv, NoHoles
<1>2. arr_manage_size(list).allocated \in Int /\ list.count \in Int /\ list.allocated \in Nat
  BY <1>1, Managed, SMT DEF ListOK
<1>3. CASE HasRoom
  <2>1. ListOK(arr_append(list, x)) /\ Full(arr_append(list, x)) /\ arr_append(list, x).count = list.count + 1
    BY <1>1, <1>3, Appended DEF HasRoom
  <2>2. arr_append(list, x).count > list.count
    BY <1>2, <2>1, SMT
  <2> QED BY <1>1, <1>3, <2>1, <2>2, Replaced DEF stlarr_append
<1>4. CASE ~HasRoom
  <2>1. list.allocated = 0
    BY <1>1, <1>2, <1>4, Managed, SMT DEF HasRoom, ListOK
  <2>2. Strays("append") /\ "append" \in Strayings \ {"none"}
    BY <1>4, SMT DEF stlarr_append, Strayings
  <2>3. "append" \notin {"map", "reduce", "for", "last"} /\ "append" \notin HeaderLoops \cup {"joined"}
    BY SMT DEF HeaderLoops
  <2> QED BY <2>1, <2>2, <2>3, Strayed
<1> QED BY <1>3, <1>4

LEMMA InsertStep == ASSUME AInv, NEW x \in Object, NEW idx \in Index, stlarr_insert(x, idx) PROVE AInv'
<1>1. stray = "none" /\ ListOK(list) /\ Full(list) /\ Running
  BY DEF stlarr_insert, Running, AInv, NoHoles
<1>2. idx \in Int /\ list.count \in Int
  BY <1>1, ArrayAssumption, SMT DEF Index, ListOK
<1>3. CASE idx >= list.count
  <2>1. UNCHANGED arrayVars
    BY <1>1, <1>2, <1>3, SMT DEF stlarr_insert, Raises, Full
  <2> QED BY <2>1, Unchanged
<1>4. CASE ~(idx >= list.count) /\ idx < 0
  <2>1. Strays("insert")
    BY <1>4 DEF stlarr_insert
  <2> QED BY <2>1, OthersStray
<1>5. CASE ~(idx >= list.count) /\ ~(idx < 0)
  <2>1. idx \in 0..list.count-1
    BY <1>2, <1>5, SMT
  <2>2. /\ ListOK(arr_insert(list, x, idx)) /\ Full(arr_insert(list, x, idx))
        /\ arr_insert(list, x, idx).count = list.count + 1
    BY <1>1, <2>1, Inserted
  <2>3. arr_insert(list, x, idx).count > list.count
    BY <1>2, <2>2, SMT
  <2> QED BY <1>1, <1>5, <2>2, <2>3, Replaced DEF stlarr_insert
<1> QED BY <1>3, <1>4, <1>5

LEMMA SetStep == ASSUME AInv, NEW x \in Object, NEW idx \in Index, stlarr_set(x, idx) PROVE AInv'
<1>1. stray = "none" /\ ListOK(list) /\ Full(list) /\ Running
  BY DEF stlarr_set, Running, AInv, NoHoles
<1>2. CASE idx >= list.count
  <2>1. idx \in Int /\ list.count \in Int
    BY <1>1, ArrayAssumption, SMT DEF Index, ListOK
  <2>2. UNCHANGED arrayVars
    BY <1>1, <1>2, <2>1, SMT DEF stlarr_set, Raises, Full
  <2> QED BY <2>2, Unchanged
<1>3. CASE ~(idx >= list.count) /\ idx < 0
  <2>1. Strays("set")
    BY <1>3 DEF stlarr_set
  <2> QED BY <2>1, OthersStray
<1>4. CASE ~(idx >= list.count) /\ ~(idx < 0)
  <2> DEFINE l == [list EXCEPT !.items[idx] = x]
  <2>1. ListOK(l) /\ Full(l) /\ l.allocated = list.allocated
    BY <1>1, <1>4, ArrayAssumption, SMT DEF ListOK, Full, Cell, Index
  <2>2. Becomes(l) /\ stray' = stray
    BY <1>4 DEF stlarr_set
  <2> HIDE DEF l
  <2> QED BY <1>1, <2>1, <2>2, Replaced
<1> QED BY <1>2, <1>3, <1>4

LEMMA GetStep == ASSUME AInv, NEW idx \in Index, stlarr_get(idx) PROVE AInv'
<1>1. CASE idx >= list.count
  BY <1>1, Unchanged DEF stlarr_get, Raises
<1>2. CASE ~(idx >= list.count)
  BY <1>2, Unchanged, OthersStray DEF stlarr_get, HandsOut
<1> QED BY <1>1, <1>2

LEMMA LastStep == ASSUME AInv, stlarr_last PROVE AInv'
<1>1. stray = "none" /\ ListOK(list) /\ Full(list)
  BY DEF stlarr_last, Running, AInv, NoHoles
<1>2. CASE list.count = 0
  BY <1>2, Unchanged DEF stlarr_last, Raises
<1>3. CASE list.count # 0
  <2>1. list.count - 1 \in DOMAIN list.items /\ list.items[list.count - 1] \in Object
    BY <1>1, <1>3, SMT DEF ListOK, Full
  <2> QED BY <1>3, <2>1, Unchanged DEF stlarr_last, HandsOut
<1> QED BY <1>2, <1>3

LEMMA RemoveStep == ASSUME AInv, NEW idx \in Index, stlarr_remove_at(idx) PROVE AInv'
<1>1. stray = "none" /\ ListOK(list) /\ Full(list) /\ Running
  BY DEF stlarr_remove_at, Running, AInv, NoHoles
<1>2. CASE idx < 0
  BY <1>2, OthersStray DEF stlarr_remove_at
<1>3. CASE ~(idx < 0)
  <2> DEFINE l == remove_at_index(list, idx)
  <2>1. idx \in Nat
    BY <1>3, ArrayAssumption, SMT DEF Index
  <2>2. ListOK(l) /\ l.count = list.count - 1 /\ l.allocated = list.allocated /\ (idx < list.count => Full(l))
    BY <1>1, <2>1, Removed
  <2>3. Becomes(l) /\ stray' = IF idx < list.count THEN "none" ELSE "removeAt"
    BY <1>3 DEF stlarr_remove_at
  <2> HIDE DEF l
  <2>4. CASE idx < list.count
    BY <1>1, <2>2, <2>3, <2>4, Replaced
  <2>5. CASE ~(idx < list.count)
    <3>1. /\ ListOK(list)' /\ members' \in Int /\ ListOK(mapped)' /\ stray' = "removeAt"
      BY <2>2, <2>3, <2>5 DEF Becomes, AInv, ListOK
    <3>2. walk' \in Walk
      <4>1. walk \in Walk /\ l.count \in Int /\ list.count \in Int
        BY <1>1, <2>2 DEF AInv, ListOK
      <4>2. (IF l.count > list.count THEN Added(l.count - list.count) ELSE walk.added) \in Nat
        BY <4>1, ArrayAssumption, SMT DEF Added, Walk
      <4> QED BY <2>3, <4>1, <4>2 DEF Becomes, Walk
    <3>3. NoHoles' /\ LoopsStayInside'
      BY <3>1, SMT DEF NoHoles, LoopsStayInside, HeaderLoops
    <3>4. stray' \in Strayings /\ stray' # "none"
      BY <3>1, SMT DEF Strayings
    <3> QED BY <3>1, <3>2, <3>3, <3>4 DEF AInv
  <2> QED BY <2>4, <2>5
<1> QED BY <1>2, <1>3

LEMMA MemcpyStep ==
  ASSUME AInv, NEW count \in Nat, NEW source \in [0..count-1 -> Object], NEW size \in Nat,
         stlarr_memcpy(source, count, size)
  PROVE  AInv'
<1>1. stray = "none" /\ ListOK(list) /\ Full(list) /\ Running
  BY DEF stlarr_memcpy, Running, AInv, NoHoles
<1>2. CASE size > list.allocated \/ size > count
  BY <1>2, Unchanged DEF stlarr_memcpy, Raises
<1>3. CASE ~(size > list.allocated \/ size > count)
  <2> DEFINE l == Copied(list, source, size)
  <2>1. size <= list.allocated /\ \A i \in 0..size-1 : source[i] \in Object
    BY <1>1, <1>3, SMT DEF ListOK
  <2>2. ListOK(l) /\ Full(l) /\ l.allocated = list.allocated
    BY <1>1, <2>1, Copies
  <2>3. Becomes(l) /\ stray' = stray
    BY <1>3 DEF stlarr_memcpy
  <2> HIDE DEF l
  <2> QED BY <1>1, <2>2, <2>3, Replaced
<1> QED BY <1>2, <1>3

LEMMA CreatesStep ==
  ASSUME AInv, NEW l, ListOK(l), Full(l), Creates(l)
  PROVE  AInv'
<1>1. stray' = "none" /\ walk' = walk /\ walk.op = "none" /\ list' = l /\ members' = l.count /\ mapped' = mapped
  BY DEF Creates, Running, stlarr_cinit
<1>2. CountFollows' /\ VisitsInReach' /\ FilledSoFar'
  BY <1>1 DEF AInv, Creates, Running, CountFollows, VisitsInReach, FilledSoFar
<1>3. ListOK(list)' /\ Full(list)' /\ ListOK(mapped)' /\ walk' \in Walk
  BY <1>1 DEF AInv, ListOK, Full
<1> QED BY <1>1, <1>2, <1>3, Sound

LEMMA AllocStep == ASSUME AInv, NEW size \in Nat, stlarr_alloc(size) PROVE AInv'
BY Created, CreatesStep DEF stlarr_alloc

LEMMA CopyStep == ASSUME AInv, stlarr_copy PROVE AInv'
<1> DEFINE n == list.count
           l == Copied(arr_create(n + Slack), list.items, n)
<1>1. ListOK(list) /\ Full(list)
  BY DEF stlarr_copy, Creates, Running, AInv, NoHoles
<1>2. /\ n \in Nat /\ n + Slack \in Nat /\ n <= n + Slack
      /\ \A i \in 0..n-1 : list.items[i] \in Object
  BY <1>1, ArrayAssumption, SMT DEF ListOK, Full
<1>3. Creates(l)
  BY DEF stlarr_copy
<1> HIDE DEF n
<1>4. ListOK(l) /\ Full(l)
  BY <1>2, Created, Copies
<1> HIDE DEF l
<1> QED BY <1>3, <1>4, CreatesStep

-----------------------------------------------------------------------------
(* The loops.                                                              *)

LEMMA BeginStep == ASSUME AInv, NEW op \in Loops, Begin(op) PROVE AInv'
<1>1. /\ stray' = "none" /\ list' = list /\ members' = members /\ walk.op = "none"
      /\ walk' = [Rest EXCEPT !.op = op, !.start = list.count]
      /\ mapped' = IF op = "map" THEN arr_create(list.count + Slack) ELSE mapped
  BY DEF Begin, Running
<1>2. stray = "none" /\ ListOK(list) /\ Full(list) /\ members = list.count
  BY DEF Begin, Running, AInv, NoHoles
<1>3. /\ walk'.op = op /\ walk'.i = 0 /\ walk'.calling = FALSE /\ walk'.start = list.count
      /\ walk'.added = 0 /\ walk'.removed = FALSE /\ walk'.moved = FALSE /\ walk'.raised = FALSE
      /\ walk' \in Walk
  <2>1. list.count \in Int /\ Rest \in Walk
    BY <1>2, SMT DEF Rest, Walk, ListOK
  <2>2. walk' \in Walk
    BY <1>1, <2>1 DEF Walk
  <2> QED BY <1>1, <2>2 DEF Rest
<1>4. list.count \in Nat /\ list.count + Slack \in Nat
  BY <1>2, ArrayAssumption, SMT DEF ListOK, Full
<1>5. ListOK(mapped)' /\ (op = "map" => mapped'.allocated = list.count + Slack)
  BY <1>1, <1>4, Created DEF AInv, ListOK
<1>6. CountFollows'
  BY <1>1, <1>3, <1>4, SMT DEF CountFollows
<1>7. VisitsInReach'
  BY <1>3 DEF VisitsInReach
<1>8. FilledSoFar'
  BY <1>3, <1>4, <1>5, ArrayAssumption, SMT DEF FilledSoFar
<1>9. ListOK(list)' /\ Full(list)'
  BY <1>1, <1>2 DEF ListOK, Full
<1> QED BY <1>1, <1>2, <1>3, <1>5, <1>6, <1>7, <1>8, <1>9, Sound

\* What is known while a loop is under way.
LEMMA UnderWay ==
  ASSUME AInv, stray = "none", walk.op # "none"
  PROVE  /\ ListOK(list) /\ Full(list) /\ members = list.count /\ ListOK(mapped)
         /\ walk \in Walk /\ walk.op \in Loops
         /\ walk.i \in Nat /\ walk.start \in Int /\ walk.added \in Nat /\ list.count \in Nat
         /\ CountFollows /\ VisitsInReach /\ FilledSoFar
<1>1. ListOK(list) /\ Full(list) /\ members = list.count /\ ListOK(mapped)
  BY DEF AInv, NoHoles
<1>2. walk \in Walk /\ CountFollows /\ VisitsInReach /\ FilledSoFar
  BY DEF AInv
<1>3. list.count \in Nat
  BY <1>1, SMT DEF ListOK, Full
<1>4. walk.op \in Loops /\ walk.i \in Nat /\ walk.start \in Int /\ walk.added \in Nat
  BY <1>2 DEF Walk
<1> QED BY <1>1, <1>2, <1>3, <1>4

LEMMA VisitStep == ASSUME AInv, Visit PROVE AInv'
<1>1. stray = "none" /\ walk.op # "none" /\ walk.calling = FALSE /\ walk.i < Limit
  BY DEF Visit, AInv, Walk
<1>2. /\ ListOK(list) /\ Full(list) /\ members = list.count /\ ListOK(mapped)
         /\ walk \in Walk /\ walk.op \in Loops
         /\ walk.i \in Nat /\ walk.start \in Int /\ walk.added \in Nat /\ list.count \in Nat
         /\ CountFollows /\ VisitsInReach /\ FilledSoFar
  BY <1>1, UnderWay
<1>3. CASE (walk.op \in HeaderLoops /\ walk.moved) \/ list.items[walk.i] \notin Object
  <2>1. Strays(walk.op)
    BY <1>3 DEF Visit
  <2>2. walk.op \in HeaderLoops
    BY <1>1, <1>2, <1>3, SMT DEF Limit, Full
  <2>3. walk.added > 0 \/ walk.removed
    BY <1>1, <1>2, <1>3, <2>2, SMT DEF Limit, Full, CountFollows
  <2>4. walk.op \in Strayings \ {"none"} /\ walk.op \notin {"append", "map", "reduce", "for", "last", "joined"}
    BY <2>2, SMT DEF HeaderLoops, Loops, Strayings
  <2> QED BY <2>1, <2>3, <2>4, Strayed
<1>4. CASE ~((walk.op \in HeaderLoops /\ walk.moved) \/ list.items[walk.i] \notin Object)
  <2>1. walk' = [walk EXCEPT !.calling = TRUE] /\ UNCHANGED <<list, members, mapped, stray>>
    BY <1>4 DEF Visit
  <2>2. /\ walk' \in Walk
        /\ walk'.op = walk.op /\ walk'.i = walk.i /\ walk'.start = walk.start /\ walk'.added = walk.added
        /\ walk'.removed = walk.removed /\ walk'.moved = walk.moved /\ walk'.raised = walk.raised
    BY <1>2, <2>1 DEF Walk
  <2>3. CountFollows' /\ FilledSoFar'
    BY <1>2, <2>1, <2>2 DEF CountFollows, FilledSoFar
  <2>4. VisitsInReach'
    BY <1>1, <1>2, <2>2, ArrayAssumption, SMT DEF VisitsInReach, CountFollows, Limit, HeaderLoops
  <2>5. ListOK(list)' /\ Full(list)' /\ ListOK(mapped)'
    BY <1>2, <2>1 DEF ListOK, Full
  <2> QED BY <1>1, <1>2, <2>1, <2>2, <2>3, <2>4, <2>5, Sound
<1> QED BY <1>3, <1>4

\* What was called has returned x, an object unless it raised.
LEMMA ReturnStep ==
  ASSUME AInv, stray = "none", walk.calling, walk.op # "none",
         NEW x \in Cell, NEW raised \in BOOLEAN, raised \/ x \in Object, Returns(x, raised)
  PROVE  AInv'
<1>1. /\ ListOK(list) /\ Full(list) /\ members = list.count /\ ListOK(mapped)
      /\ walk \in Walk /\ walk.op \in Loops
      /\ walk.i \in Nat /\ walk.start \in Int /\ walk.added \in Nat /\ list.count \in Nat
      /\ CountFollows /\ VisitsInReach /\ FilledSoFar
  BY UnderWay
<1>2. walk.op \in {"map", "joined"} => walk.op \notin HeaderLoops
  BY SMT DEF HeaderLoops
<1> DEFINE outside == \/ walk.op = "map" /\ walk.i >= mapped.allocated
                      \/ walk.op = "joined" /\ walk.i >= walk.start
<1>3. CASE outside
  <2>1. Strays(walk.op)
    BY <1>3 DEF Returns
  <2>2. walk.op \in {"map", "joined"}
    BY <1>3
  <2>3. walk.op = "map" => walk.added > Slack
    BY <1>1, <1>2, <1>3, ArrayAssumption, SMT DEF VisitsInReach, FilledSoFar
  <2>4. walk.op = "joined" => walk.added > 0
    BY <1>1, <1>2, <1>3, ArrayAssumption, SMT DEF VisitsInReach
  <2>5. walk.op \in Strayings \ {"none"} /\ walk.op \notin {"append", "reduce", "for", "last"}
    BY <2>2, SMT DEF Strayings, Loops
  <2>6. walk.op \in HeaderLoops \cup {"joined"} => walk.op = "joined"
    BY <1>2, <2>2
  <2> QED BY <2>1, <2>3, <2>4, <2>5, <2>6, Strayed
<1>4. CASE ~outside
  <2>1. /\ walk' = [walk EXCEPT !.i = @ + 1, !.calling = FALSE, !.raised = @ \/ raised]
        /\ mapped' = IF walk.op = "map" THEN [mapped EXCEPT !.items[walk.i] = x] ELSE mapped
        /\ UNCHANGED <<list, members, stray>>
    BY <1>4 DEF Returns
  <2>2. /\ walk' \in Walk
        /\ walk'.op = walk.op /\ walk'.i = walk.i + 1 /\ walk'.start = walk.start /\ walk'.calling = FALSE
        /\ walk'.added = walk.added /\ walk'.removed = walk.removed /\ walk'.moved = walk.moved
        /\ walk'.raised = (walk.raised \/ raised)
    <3>1. walk.i + 1 \in Nat
      BY <1>1, SMT
    <3> QED BY <1>1, <2>1, <3>1 DEF Walk
  <2>3. CountFollows' /\ VisitsInReach'
    BY <1>1, <2>1, <2>2 DEF CountFollows, VisitsInReach
  <2>4. ListOK(list)' /\ Full(list)' /\ stray' = "none" /\ members' = list'.count
    BY <1>1, <2>1 DEF ListOK, Full
  <2>5. CASE walk.op = "map"
    <3>1. walk.i \in 0..mapped.allocated-1
      BY <1>1, <1>4, <2>5, SMT DEF ListOK
    <3>2. /\ DOMAIN mapped' = {"items", "count", "allocated"}
          /\ mapped'.count = mapped.count /\ mapped'.allocated = mapped.allocated
          /\ mapped'.items = [mapped.items EXCEPT ![walk.i] = x]
      BY <1>1, <2>1, <2>5 DEF ListOK
    <3>3. mapped'.items \in [0..mapped.allocated-1 -> Cell]
      BY <1>1, <3>1, <3>2 DEF ListOK
    <3>4. ListOK(mapped)'
      BY <1>1, <3>2, <3>3 DEF ListOK
    <3>5. ~walk'.raised => \A j \in 0..walk.i : mapped'.items[j] \in Object
      <4>1. \A j \in 0..walk.i : /\ j \in 0..mapped.allocated-1
                                 /\ j # walk.i => j \in 0..walk.i-1
        BY <1>1, <3>1, SMT DEF ListOK
      <4>2. \A j \in 0..walk.i : mapped'.items[j] = IF j = walk.i THEN x ELSE mapped.items[j]
        BY <1>1, <3>2, <4>1 DEF ListOK
      <4> QED BY <1>1, <2>2, <2>5, <4>1, <4>2 DEF FilledSoFar
    <3>6. walk'.i - 1 = walk.i /\ walk'.i <= mapped.allocated
      BY <1>1, <2>2, <3>1, SMT DEF ListOK
    <3>7. FilledSoFar'
      BY <1>1, <2>2, <2>5, <3>2, <3>5, <3>6 DEF FilledSoFar
    <3> QED BY <2>2, <2>3, <2>4, <3>4, <3>7, Sound
  <2>6. CASE walk.op # "map"
    <3>1. mapped' = mapped
      BY <2>1, <2>6
    <3>2. ListOK(mapped)'
      BY <1>1, <3>1 DEF ListOK
    <3>3. FilledSoFar'
      BY <1>1, <1>4, <2>2, <2>6, SMT DEF FilledSoFar
    <3> QED BY <2>2, <2>3, <2>4, <3>2, <3>3, Sound
  <2> QED BY <2>5, <2>6
<1> QED BY <1>3, <1>4

LEMMA ResumeStep == ASSUME AInv, NEW x \in Object, Resume(x) PROVE AInv'
<1>1. stray = "none" /\ walk.calling /\ walk.op # "none" /\ Returns(x, FALSE)
  BY DEF Resume, AInv, VisitsInReach
<1> QED BY <1>1, ReturnStep DEF Cell

\* The loop is over: the list is as it was.
LEMMA Over ==
  ASSUME AInv, stray = "none", walk' = Rest, ListOK(mapped)', UNCHANGED <<list, members, stray>>
  PROVE  AInv'
<1>1. ListOK(list)' /\ Full(list)' /\ members' = list'.count /\ stray' = "none"
  BY DEF AInv, NoHoles, ListOK, Full
<1>2. walk' \in Walk /\ walk'.op = "none"
  BY SMT DEF Rest, Walk
<1>3. CountFollows' /\ VisitsInReach' /\ FilledSoFar'
  BY <1>2, SMT DEF Rest, CountFollows, VisitsInReach, FilledSoFar
<1> QED BY <1>1, <1>2, <1>3, Sound

LEMMA RaiseStep == ASSUME AInv, CallbackRaises PROVE AInv'
<1>1. stray = "none" /\ walk.calling
  BY DEF CallbackRaises
<1>2. CASE walk.op \in {"forEach", "map", "reduce"}
  <2>1. Returns(NULL, TRUE) /\ walk.op # "none"
    <3>1. walk.op # "for" /\ walk.op # "none"
      BY <1>2
    <3> QED BY <1>2, <3>1 DEF CallbackRaises
  <2> QED BY <1>1, <2>1, ReturnStep DEF Cell
<1>3. CASE walk.op = "for"
  <2>1. walk' = Rest /\ UNCHANGED <<list, members, mapped, stray>>
    BY <1>3, SMT DEF CallbackRaises
  <2>2. ListOK(mapped)'
    BY <2>1 DEF AInv, ListOK
  <2> QED BY <1>1, <2>1, <2>2, Over
<1>4. CASE walk.op \notin {"forEach", "map", "reduce", "for"}
  <2>1. Strays("raised")
    BY <1>4 DEF CallbackRaises
  <2> QED BY <2>1, OthersStray
<1> QED BY <1>2, <1>3, <1>4

LEMMA FoundStep == ASSUME AInv, Found PROVE AInv'
<1>1. stray = "none" /\ walk' = Rest /\ UNCHANGED <<list, members, mapped, stray>>
  BY DEF Found
<1>2. ListOK(mapped)'
  BY <1>1 DEF AInv, ListOK
<1> QED BY <1>1, <1>2, Over

LEMMA EndStep == ASSUME AInv, End PROVE AInv'
<1>1. /\ stray = "none" /\ walk.op # "none" /\ walk.i >= Limit
  BY DEF End
<1>2. /\ ListOK(list) /\ Full(list) /\ members = list.count /\ ListOK(mapped)
      /\ walk \in Walk /\ walk.op \in Loops
      /\ walk.i \in Nat /\ walk.start \in Int /\ walk.added \in Nat /\ list.count \in Nat
      /\ CountFollows /\ VisitsInReach /\ FilledSoFar
  BY <1>1, UnderWay
<1> DEFINE short == walk.op = "joined" /\ walk.i > 1 /\ walk.i > list.count
<1>3. CASE short
  <2>1. Strays("joined")
    BY <1>3 DEF End
  <2>2. walk.added > 0 \/ walk.removed
    BY <1>1, <1>2, <1>3, SMT DEF CountFollows, FilledSoFar
  <2>3. "joined" \in Strayings \ {"none"} /\ "joined" \notin {"append", "reduce", "for", "last", "map"}
    BY SMT DEF Strayings, Loops
  <2> QED BY <2>1, <2>2, <2>3, Strayed
<1>4. CASE ~short
  <2>1. /\ walk' = Rest /\ mapped' = arr_create(0) /\ stray' = stray
        /\ \/ UNCHANGED <<list, members>>
           \/ walk.op = "map" /\ ~walk.raised /\ stlarr_cinit(Result)
    BY <1>4 DEF End
  <2>2. ListOK(mapped)'
    BY <2>1, Created DEF ListOK
  <2>3. CASE UNCHANGED <<list, members>>
    BY <1>1, <2>1, <2>2, <2>3, Over
  <2>4. CASE walk.op = "map" /\ ~walk.raised /\ stlarr_cinit(Result)
    <3>1. list' = [mapped EXCEPT !.count = list.count] /\ members' = list'.count
      BY <2>4 DEF stlarr_cinit, Result
    <3>2. /\ DOMAIN list' = {"items", "count", "allocated"}
          /\ list'.items = mapped.items /\ list'.count = list.count /\ list'.allocated = mapped.allocated
      BY <1>2, <3>1 DEF ListOK
    <3>3. list.count <= walk.i /\ walk.i <= mapped.allocated
      BY <1>1, <1>2, <2>4, SMT DEF Limit, HeaderLoops, FilledSoFar
    <3>4. ListOK(list)'
      BY <1>2, <3>2 DEF ListOK
    <3>5. Full(list)'
      <4>1. \A j \in 0..list.count-1 : j \in 0..walk.i-1
        BY <1>2, <3>3, SMT
      <4>2. 0 <= list.count /\ list.count <= mapped.allocated
        BY <1>2, <3>3, SMT DEF ListOK
      <4> QED BY <1>2, <2>4, <3>2, <4>1, <4>2 DEF Full, FilledSoFar
    <3>6. walk' \in Walk /\ walk'.op = "none" /\ walk'.calling = FALSE
      BY <2>1, SMT DEF Rest, Walk
    <3>7. CountFollows' /\ VisitsInReach' /\ FilledSoFar'
      BY <3>6, SMT DEF CountFollows, VisitsInReach, FilledSoFar
    <3> QED BY <1>1, <2>1, <2>2, <3>1, <3>4, <3>5, <3>6, <3>7, Sound
  <2> QED BY <2>1, <2>3, <2>4
<1> QED BY <1>3, <1>4

-----------------------------------------------------------------------------

LEMMA Starts == ArrayInit => AInv
<1> SUFFICES ASSUME ArrayInit PROVE AInv
  OBVIOUS
<1>1. ListOK(list) /\ Full(list) /\ list.count = 0
  BY Created, ArrayAssumption DEF ArrayInit
<1>2. ListOK(mapped)
  BY Created DEF ArrayInit
<1>3. walk \in Walk /\ walk.op = "none" /\ walk.calling = FALSE /\ members = 0 /\ stray = "none"
  BY SMT DEF ArrayInit, Rest, Walk
<1>4. CountFollows /\ VisitsInReach /\ FilledSoFar
  BY <1>3, SMT DEF CountFollows, VisitsInReach, FilledSoFar
<1>5. NoHoles /\ LoopsStayInside /\ stray \in Strayings
  BY <1>1, <1>3, SMT DEF NoHoles, LoopsStayInside, HeaderLoops, Strayings
<1> QED BY <1>1, <1>2, <1>3, <1>4, <1>5 DEF AInv

LEMMA Steps == AInv /\ [ArrayNext]_arrayVars => AInv'
<1> SUFFICES ASSUME AInv, [ArrayNext]_arrayVars PROVE AInv'
  OBVIOUS
<1>1. CASE Call
  <2>1. ASSUME NEW x \in Object, stlarr_append(x) PROVE AInv'
    BY <2>1, AppendStep
  <2>2. ASSUME NEW x \in Object, NEW idx \in Index, stlarr_insert(x, idx) PROVE AInv'
    BY <2>2, InsertStep
  <2>3. ASSUME NEW x \in Object, NEW idx \in Index, stlarr_set(x, idx) PROVE AInv'
    BY <2>3, SetStep
  <2>4. ASSUME NEW idx \in Index, stlarr_get(idx) PROVE AInv'
    BY <2>4, GetStep
  <2>5. ASSUME NEW idx \in Index, stlarr_remove_at(idx) PROVE AInv'
    BY <2>5, RemoveStep
  <2>6. CASE stlarr_last
    BY <2>6, LastStep
  <2>7. ASSUME NEW count \in 0..MaxCount, NEW source \in [0..count-1 -> Object], NEW size \in 0..count+1,
               stlarr_memcpy(source, count, size)
        PROVE  AInv'
    <3>1. count \in Nat /\ size \in Nat
      BY ArrayAssumption, SMT
    <3> QED BY <2>7, <3>1, MemcpyStep
  <2>8. ASSUME NEW size \in 0..MaxCount, stlarr_alloc(size) PROVE AInv'
    <3>1. size \in Nat
      BY ArrayAssumption, SMT
    <3> QED BY <2>8, <3>1, AllocStep
  <2>9. CASE stlarr_copy
    BY <2>9, CopyStep
  <2> QED BY <1>1, <2>1, <2>2, <2>3, <2>4, <2>5, <2>6, <2>7, <2>8, <2>9 DEF Call
<1>2. CASE Loop
  BY <1>2, BeginStep, VisitStep, ResumeStep, RaiseStep, FoundStep, EndStep DEF Loop
<1>3. CASE UNCHANGED arrayVars
  BY <1>3, Unchanged
<1> QED BY <1>1, <1>2, <1>3 DEF ArrayNext

\* The invariant holds for any objects, room, slack and number of elements.
THEOREM Inductive == ArraySpec => []AInv
BY Starts, Steps, PTL DEF ArraySpec

\* The array's state has its types whatever is called, and from wherever.
THEOREM ArrayTypeCorrect == ArraySpec => []ArrayTypeOK
<1>1. AInv => ArrayTypeOK
  BY DEF AInv, ArrayTypeOK, ListOK, Strayings
<1> QED BY <1>1, Inductive, PTL

\* The list counts only cells that hold an element, and has room for them, whatever
\* is appended (stl_array.c:634), inserted, removed, copied or mapped.
THEOREM NeverHoles == ArraySpec => []NoHoles
<1>1. AInv => NoHoles
  BY DEF AInv
<1> QED BY <1>1, Inductive, PTL

\* A loop over the array that calls the program uses what is no element of it only
\* after the callbacks have added or removed elements, map only after they have
\* added more than it left room for (stl_array.c:719-871); reduce and for never do.
THEOREM LoopsNeverLeave == ArraySpec => []LoopsStayInside
<1>1. AInv => LoopsStayInside
  BY DEF AInv
<1> QED BY <1>1, Inductive, PTL
-----------------------------------------------------------------------------
(* The array implements a sequence.                                        *)

OrderKept ==
  stray' = "none" =>
    /\ \A x \in Object : stlarr_append(x) => Elements' = Append(Elements, x)
    /\ \A x \in Object, idx \in 0..list.count-1 :
         /\ stlarr_insert(x, idx) => Elements' = InsertAt(Elements, idx + 1, x)
         /\ stlarr_set(x, idx) => Elements' = ReplaceAt(Elements, idx + 1, x)
    /\ \A idx \in 0..list.count-1 : stlarr_remove_at(idx) => Elements' = RemoveAt(Elements, idx + 1)
    /\ stlarr_copy => Elements' = Elements

LEMMA EveryCallKeepsOrder == AInv => OrderKept
<1> SUFFICES ASSUME AInv, stray' = "none" PROVE OrderKept
  BY DEF OrderKept
<1>1. Elements = ElementsOf(list) /\ Elements' = ElementsOf(list')
  BY DEF Elements, ElementsOf
<1>2. Running => ListOK(list) /\ Full(list) /\ list.count \in Nat
  BY SMT DEF AInv, NoHoles, Running, ListOK, Full
<1>3. ASSUME NEW x \in Object, stlarr_append(x) PROVE Elements' = Append(Elements, x)
  <2>1. Running /\ HasRoom /\ list' = arr_append(list, x)
    BY <1>3 DEF stlarr_append, Strays, Becomes
  <2> QED BY <1>1, <1>2, <2>1, AppendAppends DEF HasRoom
<1>4. ASSUME NEW x \in Object, NEW idx \in 0..list.count-1, stlarr_insert(x, idx)
      PROVE  Elements' = InsertAt(Elements, idx + 1, x)
  <2>1. Running
    BY <1>4 DEF stlarr_insert
  <2>2. ~(idx >= list.count) /\ ~(idx < 0)
    BY <1>2, <2>1, SMT
  <2>3. list' = arr_insert(list, x, idx)
    BY <1>4, <2>2 DEF stlarr_insert, Becomes
  <2> QED BY <1>1, <1>2, <2>1, <2>3, InsertInserts
<1>5. ASSUME NEW x \in Object, NEW idx \in 0..list.count-1, stlarr_set(x, idx)
      PROVE  Elements' = ReplaceAt(Elements, idx + 1, x)
  <2>1. Running
    BY <1>5 DEF stlarr_set
  <2>2. ~(idx >= list.count) /\ ~(idx < 0)
    BY <1>2, <2>1, SMT
  <2>3. list' = [list EXCEPT !.items[idx] = x]
    BY <1>5, <2>2 DEF stlarr_set, Becomes
  <2> QED BY <1>1, <1>2, <2>1, <2>3, SetReplaces
<1>6. ASSUME NEW idx \in 0..list.count-1, stlarr_remove_at(idx) PROVE Elements' = RemoveAt(Elements, idx + 1)
  <2>1. Running
    BY <1>6 DEF stlarr_remove_at
  <2>2. ~(idx < 0)
    BY <1>2, <2>1, SMT
  <2>3. list' = remove_at_index(list, idx)
    BY <1>6, <2>2 DEF stlarr_remove_at, Becomes
  <2> QED BY <1>1, <1>2, <2>1, <2>3, RemoveRemoves
<1>7. ASSUME stlarr_copy PROVE Elements' = Elements
  <2>1. Running /\ list' = Copied(arr_create(list.count + Slack), list.items, list.count)
    BY <1>7 DEF stlarr_copy, Creates, stlarr_cinit
  <2>2. list.count + Slack \in Nat /\ list.count <= list.count + Slack
    BY <1>2, <2>1, ArrayAssumption, SMT
  <2> QED BY <1>1, <1>2, <2>1, <2>2, CopyCopies
<1> QED BY <1>3, <1>4, <1>5, <1>6, <1>7 DEF OrderKept

\* What the shifts, the copies and the growth of arraylist.c do to the elements is
\* what appending to, inserting into, overwriting, removing from and copying a
\* sequence does, in every state a program reaches, from within a loop's callback too.
THEOREM ArrayImplementsSequence == ArraySpec => KeepsOrder
<1>1. AInv => [OrderKept]_arrayVars
  BY EveryCallKeepsOrder
<1> QED BY <1>1, Inductive, PTL DEF KeepsOrder, OrderKept

-----------------------------------------------------------------------------
(* Classes.                                                                *)

Classes_ == [super : Class \cup {ABSENT}, init : SuperCalls \cup {ABSENT}, declares : BOOLEAN]
Objects == [class : Class, superInit : Class \cup {ABSENT}]
Runs == [of : Class, self : Instance, supers : Nat]
Fetches == [method : Class, receiver : Instance, usual : BOOLEAN]

\* Parents and wrappers are declared classes.
ClassesInv ==
  /\ class \in [Class -> Classes_ \cup {ABSENT}]
  /\ object \in [Instance -> Objects \cup {ABSENT}]
  /\ \A c \in Declared : Super(c) \in Declared \cup {ABSENT}
  /\ \A o \in Made : object[o].superInit \in Declared \cup {ABSENT}

\* An initialiser that has yet to call superInit finds its own class there, because
\* those below it on the same object have called theirs.
StackOK(stack, ob) ==
  /\ \A k \in DOMAIN stack : stack[k].self \in Made /\ stack[k].of \in Declared
  /\ \A k \in DOMAIN stack : stack[k].supers = 0 /\ Super(stack[k].of) # ABSENT =>
       ob[stack[k].self].superInit = stack[k].of
  /\ \A j, k \in DOMAIN stack : j < k /\ stack[j].self = stack[k].self => stack[j].supers # 0

SuperInv == running \in Seq(Runs) /\ StackOK(running, object)

SInv == ClassesInv /\ SuperInv

\* A method that nobody has fetched or called since is bound to its receiver.
MethodInv ==
  /\ fetched \in Seq(Fetches)
  /\ bound \in [Class -> Instance \cup {ABSENT}]
  /\ \A i \in DOMAIN fetched : fetched[i].usual => bound[fetched[i].method] = fetched[i].receiver

-----------------------------------------------------------------------------
(* Methods.                                                                *)

\* Every element of t is one of s.
Among(t, s) == \A j \in DOMAIN t : \E k \in DOMAIN s : t[j] = s[k]

LEMMA RemovedAmong ==
  ASSUME NEW s \in Seq(Fetches), NEW i \in DOMAIN s
  PROVE  RemoveAt(s, i) \in Seq(Fetches) /\ Among(RemoveAt(s, i), s)
<1> DEFINE n == Len(s)
           a == SubSeq(s, 1, i - 1)
           b == SubSeq(s, i + 1, n)
<1>1. n \in Nat /\ DOMAIN s = 1..n /\ i \in 1..n /\ \A k \in 1..n : s[k] \in Fetches
  OBVIOUS
<1>2. /\ a \in Seq(Fetches) /\ Len(a) = i - 1
      /\ \A k \in 1..i-1 : a[k] = s[k]
  <2>1. 1 \in Int /\ i - 1 \in 0..n /\ \A k \in 1..i-1 : s[k] \in Fetches /\ 1 + k - 1 = k
    BY <1>1, SMT
  <2>2. i - 1 - 1 + 1 = i - 1 /\ (~(1 <= i - 1) => i - 1 = 0) /\ i - 1 \in Int
    BY <1>1, SMT
  <2> QED BY <2>1, <2>2, SubSeqProperties
<1>3. /\ b \in Seq(Fetches) /\ Len(b) = n - i
      /\ \A k \in 1..n-i : b[k] = s[i + k]
  <2>1. i + 1 \in Int /\ n \in Int /\ \A k \in (i+1)..n : s[k] \in Fetches
    BY <1>1, SMT
  <2>2. n - (i + 1) + 1 = n - i /\ (~(i + 1 <= n) => n - i = 0) /\ \A k \in 1..n-i : i + 1 + k - 1 = i + k
    BY <1>1, SMT
  <2> QED BY <2>1, <2>2, SubSeqProperties
<1> DEFINE t == RemoveAt(s, i)
<1>4. t = a \o b
  BY DEF RemoveAt
<1> HIDE DEF a, b, t
<1>5. /\ t \in Seq(Fetches) /\ Len(t) = Len(a) + Len(b)
      /\ \A k \in 1..Len(a)+Len(b) : t[k] = IF k <= Len(a) THEN a[k] ELSE b[k - Len(a)]
  BY <1>2, <1>3, <1>4, ConcatProperties
<1>6. Among(t, s)
  <2> SUFFICES ASSUME NEW j \in DOMAIN t PROVE \E k \in DOMAIN s : t[j] = s[k]
    BY DEF Among
  <2>1. j \in 1..(i-1)+(n-i)
    BY <1>2, <1>3, <1>5
  <2>2. CASE j <= i - 1
    <3>1. j \in 1..i-1 /\ j \in DOMAIN s
      BY <1>1, <2>1, <2>2, SMT
    <3> QED BY <1>2, <1>3, <1>5, <2>1, <2>2, <3>1
  <2>3. CASE ~(j <= i - 1)
    <3>1. j - (i - 1) \in 1..n-i /\ i + (j - (i - 1)) \in DOMAIN s
      BY <1>1, <2>1, <2>3, SMT
    <3>2. t[j] = b[j - (i - 1)]
      BY <1>2, <1>3, <1>5, <2>1, <2>3
    <3> QED BY <1>3, <3>1, <3>2
  <2> QED BY <2>2, <2>3
<1> QED BY <1>5, <1>6 DEF t

\* Binding the method of class c anew keeps the others usual.
LEMMA ReboundUsual ==
  ASSUME NEW s \in Seq(Fetches), NEW c
  PROVE  /\ Rebound(s, c) \in Seq(Fetches) /\ DOMAIN Rebound(s, c) = DOMAIN s
         /\ \A i \in DOMAIN s : /\ Rebound(s, c)[i].method = s[i].method
                                /\ Rebound(s, c)[i].receiver = s[i].receiver
                                /\ Rebound(s, c)[i].usual => s[i].usual /\ s[i].method # c
<1> DEFINE e(i) == [s[i] EXCEPT !.usual = @ /\ s[i].method # c]
<1>1. Len(s) \in Nat /\ DOMAIN s = 1..Len(s) /\ \A i \in 1..Len(s) : s[i] \in Fetches
  OBVIOUS
<1>2. ASSUME NEW i \in 1..Len(s)
      PROVE  /\ e(i) \in Fetches
             /\ e(i).method = s[i].method /\ e(i).receiver = s[i].receiver
             /\ e(i).usual => s[i].usual /\ s[i].method # c
  <2>1. s[i] \in Fetches
    BY <1>1
  <2> QED BY <2>1 DEF Fetches
<1>3. Rebound(s, c) = [i \in 1..Len(s) |-> e(i)]
  BY <1>1 DEF Rebound
<1> HIDE DEF e
<1>4. [i \in 1..Len(s) |-> e(i)] \in Seq(Fetches)
  BY <1>1, <1>2, IsASeq
<1>5. DOMAIN [i \in 1..Len(s) |-> e(i)] = 1..Len(s) /\ \A i \in 1..Len(s) : [k \in 1..Len(s) |-> e(k)][i] = e(i)
  OBVIOUS
<1> QED BY <1>1, <1>2, <1>3, <1>4, <1>5

LEMMA FetchStep ==
  ASSUME MethodInv, SelfIsReceiver, NEW o \in Instance, NEW c \in Class, lobj_get_member(o, c)
  PROVE  MethodInv' /\ SelfIsReceiver'
<1> DEFINE r == Rebound(fetched, c)
           x == [method |-> c, receiver |-> o, usual |-> TRUE]
<1>1. bound' = [bound EXCEPT ![c] = o] /\ fetched' = Append(r, x) /\ UNCHANGED called
  BY DEF lobj_get_member, BoundIn
<1>2. /\ r \in Seq(Fetches) /\ DOMAIN r = DOMAIN fetched
      /\ \A i \in DOMAIN fetched : /\ r[i].method = fetched[i].method
                                   /\ r[i].receiver = fetched[i].receiver
                                   /\ r[i].usual => fetched[i].usual /\ fetched[i].method # c
  BY ReboundUsual DEF MethodInv
<1>3. x \in Fetches /\ x.method = c /\ x.receiver = o
  BY DEF Fetches
<1> HIDE DEF r, x
<1>4. /\ fetched' \in Seq(Fetches) /\ Len(fetched') = Len(r) + 1
      /\ \A k \in 1..Len(r) : fetched'[k] = r[k]
      /\ fetched'[Len(r) + 1] = x
  BY <1>1, <1>2, <1>3, AppendProperties
<1>5. DOMAIN fetched' = 1..Len(r)+1 /\ DOMAIN r = 1..Len(r) /\ Len(r) \in Nat
  BY <1>2, <1>4
<1>6. bound' \in [Class -> Instance \cup {ABSENT}] /\ bound'[c] = o
      /\ \A d \in Class \ {c} : bound'[d] = bound[d]
  BY <1>1 DEF MethodInv
<1>7. ASSUME NEW i \in DOMAIN fetched', fetched'[i].usual
      PROVE  bound'[fetched'[i].method] = fetched'[i].receiver
  <2>1. i \in 1..Len(r) \/ i = Len(r) + 1
    BY <1>5, SMT
  <2>2. CASE i \in 1..Len(r)
    <3>1. fetched[i].usual /\ fetched[i].method # c /\ i \in DOMAIN fetched
      BY <1>2, <1>4, <1>5, <1>7, <2>2
    <3>2. fetched[i] \in Fetches
      BY <3>1 DEF MethodInv
    <3>3. fetched[i].method \in Class
      BY <3>2 DEF Fetches
    <3>4. bound[fetched[i].method] = fetched[i].receiver
      BY <3>1 DEF MethodInv
    <3> QED BY <1>2, <1>4, <1>6, <2>2, <3>1, <3>3, <3>4
  <2>3. CASE i = Len(r) + 1
    BY <1>3, <1>4, <1>6, <2>3
  <2> QED BY <2>1, <2>2, <2>3
<1> QED BY <1>1, <1>4, <1>6, <1>7 DEF MethodInv, SelfIsReceiver

LEMMA CallStep ==
  ASSUME MethodInv, SelfIsReceiver, NEW i \in DOMAIN fetched, lobjb_default_callable(i)
  PROVE  MethodInv' /\ SelfIsReceiver'
<1> DEFINE f == fetched[i]
           m == f.method
           rest == RemoveAt(fetched, i)
           r == Rebound(rest, m)
<1>1. /\ called' = [receiver |-> f.receiver, self |-> bound[m], usual |-> f.usual]
      /\ bound' = [bound EXCEPT ![m] = ABSENT] /\ fetched' = r
  BY DEF lobjb_default_callable
<1>2. SelfIsReceiver'
  BY <1>1 DEF MethodInv, SelfIsReceiver
<1>3. rest \in Seq(Fetches) /\ Among(rest, fetched)
  BY RemovedAmong DEF MethodInv
<1> HIDE DEF rest, f, m
<1>4. /\ r \in Seq(Fetches) /\ DOMAIN r = DOMAIN rest
      /\ \A k \in DOMAIN rest : /\ r[k].method = rest[k].method
                                /\ r[k].receiver = rest[k].receiver
                                /\ r[k].usual => rest[k].usual /\ rest[k].method # m
  BY <1>3, ReboundUsual
<1> HIDE DEF r
<1>5. bound' \in [Class -> Instance \cup {ABSENT}] /\ \A d \in Class \ {m} : bound'[d] = bound[d]
  BY <1>1 DEF MethodInv
<1>6. ASSUME NEW j \in DOMAIN fetched', fetched'[j].usual
      PROVE  bound'[fetched'[j].method] = fetched'[j].receiver
  <2>1. j \in DOMAIN rest /\ rest[j].usual /\ rest[j].method # m
    BY <1>1, <1>4, <1>6
  <2>2. PICK k \in DOMAIN fetched : rest[j] = fetched[k]
    BY <1>3, <2>1 DEF Among
  <2>3. fetched[k] \in Fetches /\ bound[fetched[k].method] = fetched[k].receiver
    BY <2>1, <2>2 DEF MethodInv
  <2>4. rest[j].method \in Class
    BY <2>2, <2>3 DEF Fetches
  <2> QED BY <1>1, <1>4, <1>5, <2>1, <2>2, <2>3, <2>4
<1> QED BY <1>1, <1>2, <1>4, <1>5, <1>6 DEF MethodInv

LEMMA MethodStep ==
  ASSUME MethodInv, SelfIsReceiver, [ClassNext]_classVars
  PROVE  MethodInv' /\ SelfIsReceiver'
<1>1. ASSUME UNCHANGED <<bound, fetched, called>>
      PROVE  MethodInv' /\ SelfIsReceiver'
  BY <1>1 DEF MethodInv, SelfIsReceiver
<1>2. CASE \E c \in Class \ Declared, super \in Class \cup {ABSENT}, init \in SuperCalls \cup {ABSENT},
              declares \in BOOLEAN : clb_init_class(c, super, init, declares)
  BY <1>1, <1>2 DEF clb_init_class
<1>3. CASE \E c \in Class, o \in Instance : clb_new_wrapper(c, o)
  BY <1>1, <1>3 DEF clb_new_wrapper
<1>4. CASE clb_super_init_wrapper \/ InitReturns \/ UNCHANGED classVars
  BY <1>1, <1>4 DEF clb_super_init_wrapper, InitReturns, classVars
<1> QED BY <1>2, <1>3, <1>4, FetchStep, CallStep DEF ClassNext

\* A method that is called has as its self the object it was fetched from, if nobody
\* has fetched or called it in between (lobj_get_member, lobjb_default_callable), for any
\* classes, objects and number of methods in variables.
THEOREM AlwaysTheReceiver == ClassSpec => []SelfIsReceiver
<1>1. MethodInv /\ SelfIsReceiver /\ [ClassNext]_classVars => (MethodInv /\ SelfIsReceiver)'
  BY MethodStep
<1>2. ClassInit => MethodInv /\ SelfIsReceiver
  BY EmptySeq, SMT DEF ClassInit, MethodInv, SelfIsReceiver
<1> QED BY <1>1, <1>2, PTL DEF ClassSpec
-----------------------------------------------------------------------------
(* superInit.                                                              *)

\* An initialiser of c begins on an object whose others have called superInit.
LEMMA Begins ==
  ASSUME SInv, UNCHANGED class, NEW stack \in Seq(Runs), StackOK(stack, object),
         NEW c \in Declared, NEW self \in Instance,
         NEW was \in Objects, was.superInit \in Declared \cup {ABSENT},
         \A k \in DOMAIN stack : stack[k].self = self => stack[k].supers # 0,
         Initialise(stack, c, self, was)
  PROVE  SInv'
<1> DEFINE w == IF Super(c) # ABSENT THEN c ELSE was.superInit
           new == [class |-> was.class, superInit |-> w]
           x == [of |-> c, self |-> self, supers |-> 0]
<1>1. object' = [object EXCEPT ![self] = new] /\ running' = Append(stack, x)
  BY DEF Initialise
<1>2. w \in Declared \cup {ABSENT} /\ Declared \subseteq Class /\ was.class \in Class
  BY DEF Declared, Objects
<1>3. new \in Objects /\ new # ABSENT /\ new.superInit = w /\ (Super(c) # ABSENT => w = c)
  BY <1>2, ClassAssumption DEF Objects
<1>4. x \in Runs /\ x.of = c /\ x.self = self /\ x.supers = 0
  BY <1>2 DEF Runs
<1> HIDE DEF w, new, x
<1>5. /\ object' \in [Instance -> Objects \cup {ABSENT}]
      /\ object'[self] = new /\ \A o \in Instance \ {self} : object'[o] = object[o]
  BY <1>1, <1>3 DEF SInv, ClassesInv
<1>6. Made' = Made \cup {self} /\ Declared' = Declared
  BY <1>3, <1>5 DEF Made, Declared
<1>7. ClassesInv'
  <2>1. ASSUME NEW o \in Made' PROVE object'[o].superInit \in Declared \cup {ABSENT}
    BY <1>2, <1>3, <1>5, <1>6, <2>1 DEF SInv, ClassesInv, Made
  <2> QED BY <1>5, <1>6, <2>1 DEF SInv, ClassesInv, Super
<1>8. /\ running' \in Seq(Runs) /\ Len(running') = Len(stack) + 1
      /\ \A k \in 1..Len(stack) : running'[k] = stack[k]
      /\ running'[Len(stack) + 1] = x
  BY <1>1, <1>4, AppendProperties
<1> DEFINE n == Len(stack) + 1
<1>9. /\ \A k \in DOMAIN running' : \/ k \in DOMAIN stack /\ running'[k] = stack[k] /\ k < n
                                    \/ k = n /\ running'[k] = x
      /\ DOMAIN running' \subseteq Int /\ n \in Int
  <2>1. DOMAIN running' = 1..n /\ DOMAIN stack = 1..Len(stack) /\ Len(stack) \in Nat
    BY <1>8
  <2>2. \A k \in 1..n : (k \in 1..Len(stack) /\ k < n) \/ k = n
    BY <2>1, SMT
  <2>3. 1..n \subseteq Int /\ n \in Int
    BY <2>1, SMT
  <2> HIDE DEF n
  <2> QED BY <1>8, <2>1, <2>2, <2>3 DEF n
<1> HIDE DEF n
<1>10. ASSUME NEW k \in DOMAIN running'
       PROVE  /\ running'[k].self \in Made' /\ running'[k].of \in Declared
              /\ running'[k].supers = 0 /\ Super(running'[k].of) # ABSENT =>
                   object'[running'[k].self].superInit = running'[k].of
  <2>1. CASE k \in DOMAIN stack /\ running'[k] = stack[k]
    <3>1. stack[k].self \in Made /\ stack[k].of \in Declared
      BY <2>1 DEF StackOK
    <3>2. stack[k].self \in Instance
      BY <3>1 DEF Made
    <3>3. CASE stack[k].self = self
      BY <1>6, <2>1, <3>1, <3>3
    <3>4. CASE stack[k].self # self
      BY <1>5, <1>6, <2>1, <3>1, <3>2, <3>4 DEF StackOK
    <3> QED BY <3>3, <3>4
  <2>2. CASE running'[k] = x
    BY <1>3, <1>4, <1>5, <1>6, <2>2
  <2> QED BY <1>9, <2>1, <2>2
<1>11. ASSUME NEW j \in DOMAIN running', NEW k \in DOMAIN running', j < k, running'[j].self = running'[k].self
       PROVE  running'[j].supers # 0
  <2>1. j \in DOMAIN stack /\ running'[j] = stack[j]
    <3>1. j \in Int /\ k \in Int /\ n \in Int /\ (k < n \/ k = n)
      BY <1>9
    <3>2. j # n
      BY <1>11, <3>1, SMT
    <3> QED BY <1>9, <3>2
  <2>2. CASE k \in DOMAIN stack /\ running'[k] = stack[k]
    BY <1>11, <2>1, <2>2 DEF StackOK
  <2>3. CASE running'[k] = x
    BY <1>4, <1>11, <2>1, <2>3
  <2> QED BY <1>9, <2>2, <2>3
<1>12. SuperInv'
  BY <1>6, <1>8, <1>10, <1>11 DEF SuperInv, StackOK, Super
<1> QED BY <1>7, <1>12 DEF SInv

\* While nothing exists, a class is declared.
LEMMA DeclareStep ==
  ASSUME SInv, NEW c \in Class \ Declared, NEW super \in Class \cup {ABSENT},
         NEW init \in SuperCalls \cup {ABSENT}, NEW declares \in BOOLEAN,
         clb_init_class(c, super, init, declares)
  PROVE  SInv'
<1> DEFINE x == [super |-> super, init |-> init, declares |-> declares]
<1>1. Made = {} /\ class' = [class EXCEPT ![c] = x] /\ UNCHANGED <<object, running>>
      /\ super \in Declared \cup {ABSENT}
  BY DEF clb_init_class
<1>2. x \in Classes_ /\ x # ABSENT /\ x.super = super
  BY ClassAssumption DEF Classes_
<1> HIDE DEF x
<1>3. /\ class' \in [Class -> Classes_ \cup {ABSENT}]
      /\ class'[c] = x /\ \A d \in Class \ {c} : class'[d] = class[d]
  BY <1>1, <1>2 DEF SInv, ClassesInv
<1>4. Declared' = Declared \cup {c} /\ Made' = {}
  BY <1>1, <1>2, <1>3 DEF Declared, Made
<1>5. \A d \in Declared' : Super(d)' \in Declared' \cup {ABSENT}
  <2> SUFFICES ASSUME NEW d \in Declared' PROVE class'[d].super \in Declared' \cup {ABSENT}
    BY DEF Super
  <2>1. CASE d = c
    BY <1>1, <1>2, <1>3, <1>4, <2>1
  <2>2. CASE d # c
    <3>1. d \in Declared /\ class'[d] = class[d]
      BY <1>3, <1>4, <2>2 DEF Declared
    <3> QED BY <1>4, <3>1 DEF SInv, ClassesInv, Super
  <2> QED BY <2>1, <2>2
<1>6. ClassesInv'
  BY <1>1, <1>3, <1>4, <1>5 DEF SInv, ClassesInv
<1>7. DOMAIN running = {}
  BY <1>1 DEF SInv, SuperInv, StackOK
<1>8. SuperInv'
  BY <1>1, <1>7 DEF SInv, SuperInv, StackOK
<1> QED BY <1>6, <1>8 DEF SInv

LEMMA NewStep == ASSUME SInv, NEW c \in Class, NEW o \in Instance, clb_new_wrapper(c, o) PROVE SInv'
<1> DEFINE new == [class |-> c, superInit |-> ABSENT]
<1>1. c \in Declared /\ object[o] = ABSENT /\ UNCHANGED class
  BY DEF clb_new_wrapper
<1>2. new \in Objects /\ new.superInit = ABSENT /\ new # ABSENT
  BY ClassAssumption DEF Objects
<1>3. \A k \in DOMAIN running : running[k].self # o
  BY <1>1 DEF SInv, SuperInv, StackOK, Made
<1>4. CASE Initialise(running, c, o, new)
  <2> HIDE DEF new
  <2> QED BY <1>1, <1>2, <1>3, <1>4, Begins DEF SInv, SuperInv
<1>5. CASE object' = [object EXCEPT ![o] = new] /\ UNCHANGED running
  <2> HIDE DEF new
  <2>1. /\ object' \in [Instance -> Objects \cup {ABSENT}]
        /\ object'[o] = new /\ \A p \in Instance \ {o} : object'[p] = object[p]
    BY <1>2, <1>5 DEF SInv, ClassesInv
  <2>2. Made' = Made \cup {o} /\ o \notin Made /\ Declared' = Declared
    BY <1>1, <1>2, <2>1 DEF Made, Declared
  <2>3. ClassesInv'
    <3>1. ASSUME NEW p \in Made' PROVE object'[p].superInit \in Declared \cup {ABSENT}
      BY <1>2, <2>1, <2>2, <3>1 DEF SInv, ClassesInv, Made
    <3> QED BY <1>1, <2>1, <2>2, <3>1 DEF SInv, ClassesInv, Super
  <2>4. \A p \in Made : object'[p] = object[p]
    BY <2>1, <2>2 DEF Made
  <2>5. SuperInv'
    BY <1>1, <1>5, <2>2, <2>4 DEF SInv, SuperInv, StackOK, Super
  <2> QED BY <2>3, <2>5 DEF SInv
<1> QED BY <1>4, <1>5 DEF clb_new_wrapper

\* The running initialiser has called superInit once more.
Counted == [running EXCEPT ![Len(running)].supers = @ + 1]

LEMMA CountedOK ==
  ASSUME SInv, running # <<>>
  PROVE  /\ Counted \in Seq(Runs) /\ StackOK(Counted, object) /\ Len(Counted) = Len(running)
         /\ \A k \in DOMAIN Counted : Counted[k].self = Now.self => Counted[k].supers # 0
         /\ Now \in Runs /\ Now.self \in Made /\ Now.of \in Declared
<1> DEFINE n == Len(running)
           x == [Now EXCEPT !.supers = @ + 1]
<1>1. /\ running \in Seq(Runs) /\ n \in Nat \ {0} /\ DOMAIN running = 1..n
      /\ n \in 1..n /\ n \in DOMAIN running
  <2>1. running \in Seq(Runs) /\ n \in Nat \ {0} /\ DOMAIN running = 1..n
    BY EmptySeq DEF SInv, SuperInv
  <2>2. n \in 1..n
    BY <2>1, SMT
  <2> QED BY <2>1, <2>2
<1>2. Now \in Runs /\ Now.self \in Made /\ Now.of \in Declared
  BY <1>1 DEF SInv, SuperInv, StackOK, Now
<1>3. x \in Runs /\ x.self = Now.self /\ x.of = Now.of /\ x.supers # 0
  BY <1>2, SMT DEF Runs
<1> DEFINE t == Counted
<1>4. t \in Seq(Runs) /\ Len(t) = n /\ \A j \in 1..n : t[j] = IF j = n THEN x ELSE running[j]
  <2>1. t = [running EXCEPT ![n] = x]
    BY DEF Counted, Now
  <2> HIDE DEF t, x
  <2> QED BY <1>1, <1>3, <2>1, ExceptSeq
<1> HIDE DEF t, x
<1>5. DOMAIN t = 1..n
  BY <1>4
<1>6. \A k \in 1..n : /\ t[k].self = running[k].self /\ t[k].of = running[k].of
                      /\ t[k].supers = 0 => running[k].supers = 0 /\ k # n
  BY <1>3, <1>4 DEF Now
<1>7. \A j, k \in 1..n : j < k => j # n
  <2>1. \A m \in Nat : \A j, k \in 1..m : j < k => j # m
    BY SMT
  <2> QED BY <1>1, <2>1
<1>8. StackOK(t, object)
  <2>1. \A j, k \in DOMAIN t : j < k /\ t[j].self = t[k].self => t[j].supers # 0
    BY <1>1, <1>5, <1>6 DEF SInv, SuperInv, StackOK
  <2> QED BY <1>1, <1>5, <1>6, <2>1 DEF SInv, SuperInv, StackOK
<1>9. ASSUME NEW k \in DOMAIN t, t[k].self = Now.self, t[k].supers = 0
      PROVE  FALSE
  <2>1. k \in 1..n /\ k # n /\ running[k].supers = 0 /\ running[k].self = running[n].self
    BY <1>5, <1>6, <1>9 DEF Now
  <2>2. k < n
    BY <1>1, <2>1, SMT
  <2> QED BY <1>1, <2>1, <2>2 DEF SInv, SuperInv, StackOK
<1> QED BY <1>2, <1>4, <1>8, <1>9 DEF t

LEMMA SuperStep == ASSUME SInv, clb_super_init_wrapper PROVE SInv'
<1> DEFINE w == object[Now.self].superInit
<1>1. running # <<>> /\ UNCHANGED class
  BY DEF clb_super_init_wrapper, MoreSupers
<1>2. /\ Counted \in Seq(Runs) /\ StackOK(Counted, object)
      /\ \A k \in DOMAIN Counted : Counted[k].self = Now.self => Counted[k].supers # 0
      /\ Now.self \in Made /\ Now.self \in Instance
  BY <1>1, CountedOK DEF Made
<1>3. object[Now.self] \in Objects /\ w \in Declared \cup {ABSENT}
  BY <1>2 DEF SInv, ClassesInv, Made
<1>4. CASE w = ABSENT
  <2>1. running' = <<>> /\ UNCHANGED object
    BY <1>4 DEF clb_super_init_wrapper
  <2>2. <<>> \in Seq(Runs) /\ DOMAIN <<>> = {}
    BY EmptySeq, SMT
  <2> QED BY <1>1, <2>1, <2>2 DEF SInv, ClassesInv, SuperInv, StackOK, Super, Made, Declared
<1>5. CASE w # ABSENT /\ HasInit(Super(w))
  <2>1. Initialise(Counted, Super(w), Now.self, object[Now.self])
    BY <1>5 DEF clb_super_init_wrapper, Counted
  <2>2. Super(w) \in Declared
    BY <1>3, <1>5 DEF SInv, ClassesInv, HasInit
  <2> QED BY <1>1, <1>2, <1>3, <2>1, <2>2, Begins
<1>6. CASE w # ABSENT /\ ~HasInit(Super(w))
  <2>1. running' = Counted /\ UNCHANGED object
    BY <1>6 DEF clb_super_init_wrapper, Counted
  <2> QED BY <1>1, <1>2, <2>1 DEF SInv, ClassesInv, SuperInv, StackOK, Super, Made, Declared
<1> QED BY <1>4, <1>5, <1>6

LEMMA ReturnsStep == ASSUME SInv, InitReturns PROVE SInv'
<1> DEFINE n == Len(running)
<1>1. running \in Seq(Runs) /\ n \in Nat \ {0} /\ DOMAIN running = 1..n
      /\ running' = SubSeq(running, 1, n - 1) /\ UNCHANGED <<class, object>>
  BY EmptySeq DEF SInv, SuperInv, InitReturns, Front
<1>2. /\ running' \in Seq(Runs) /\ Len(running') = n - 1
      /\ \A k \in 1..n-1 : running'[k] = running[k]
  <2>1. 1 \in Int /\ n - 1 \in Int /\ \A k \in 1..n-1 : running[k] \in Runs /\ 1 + k - 1 = k
    BY <1>1, SMT
  <2>2. n - 1 - 1 + 1 = n - 1 /\ (~(1 <= n - 1) => n - 1 = 0)
    BY <1>1, SMT
  <2> QED BY <1>1, <2>1, <2>2, SubSeqProperties
<1>3. DOMAIN running' = 1..n-1 /\ \A k \in 1..n-1 : k \in 1..n
  BY <1>1, <1>2, SMT
<1> HIDE DEF n
<1>4. \A k \in DOMAIN running' : k \in DOMAIN running /\ running'[k] = running[k]
  BY <1>1, <1>2, <1>3
<1> QED BY <1>1, <1>2, <1>4 DEF SInv, ClassesInv, SuperInv, StackOK, Super, Made, Declared

LEMMA SInvStep == ASSUME SInv, [ClassNext]_classVars PROVE SInv'
<1>1. ASSUME UNCHANGED <<class, object, running>> PROVE SInv'
  BY <1>1 DEF SInv, ClassesInv, SuperInv, StackOK, Super, Made, Declared
<1>2. ASSUME NEW o \in Instance, NEW c \in Class, lobj_get_member(o, c) PROVE SInv'
  BY <1>1, <1>2 DEF lobj_get_member
<1>3. ASSUME NEW i \in DOMAIN fetched, lobjb_default_callable(i) PROVE SInv'
  BY <1>1, <1>3 DEF lobjb_default_callable
<1>4. CASE UNCHANGED classVars
  BY <1>1, <1>4 DEF classVars
<1> QED BY <1>2, <1>3, <1>4, DeclareStep, NewStep, SuperStep, ReturnsStep DEF ClassNext

\* One more initialiser runs only if an object is made, or by superInit.
LEMMA ParentRuns ==
  ASSUME SInv, ClassNext, Len(running') > Len(running), running # <<>>,
         running'[Len(running')].self = Now.self, Now.supers = 0, Super(Now.of) # ABSENT
  PROVE  running'[Len(running')].of = Super(Now.of)
<1>1. running \in Seq(Runs) /\ Len(running) \in Nat \ {0} /\ DOMAIN running = 1..Len(running)
      /\ Len(running) \in DOMAIN running
  <2>1. running \in Seq(Runs) /\ Len(running) \in Nat \ {0} /\ DOMAIN running = 1..Len(running)
    BY EmptySeq DEF SInv, SuperInv
  <2> QED BY <2>1, SMT
<1>2. ASSUME NEW t \in Seq(Runs), Len(t) = Len(running), NEW x, running' = Append(t, x)
      PROVE  running'[Len(running')] = x
  BY <1>2
<1>3. running' # running /\ Len(running') # Len(running) /\ ~(Len(running') <= Len(running))
  <2>1. Len(running') # Len(running)
    BY <1>1, SMT
  <2>2. ~(Len(running') <= Len(running))
    BY <1>1, SMT
  <2> QED BY <2>1, <2>2
<1>4. ASSUME NEW c \in Class, NEW o \in Instance, clb_new_wrapper(c, o) PROVE FALSE
  <2>1. object[o] = ABSENT /\ Now.self \in Made
    BY <1>4, CountedOK DEF clb_new_wrapper
  <2>2. running' = Append(running, [of |-> c, self |-> o, supers |-> 0])
    BY <1>3, <1>4 DEF clb_new_wrapper, Initialise
  <2>3. running'[Len(running')] = [of |-> c, self |-> o, supers |-> 0]
    BY <1>1, <1>2, <2>2
  <2> QED BY <2>1, <2>3 DEF Made
<1>5. CASE clb_super_init_wrapper
  <2> DEFINE w == object[Now.self].superInit
  <2>1. w = Now.of
    BY <1>1 DEF SInv, SuperInv, StackOK, Now
  <2>2. w # ABSENT
    BY <2>1, CountedOK, ClassAssumption DEF Declared
  <2>3. Counted \in Seq(Runs) /\ Len(Counted) = Len(running)
    BY CountedOK
  <2>4. running' # Counted
    BY <1>3, <2>3
  <2>5. Initialise(Counted, Super(w), Now.self, object[Now.self])
    BY <1>5, <2>2, <2>4 DEF clb_super_init_wrapper, Counted
  <2>6. running' = Append(Counted, [of |-> Super(w), self |-> Now.self, supers |-> 0])
    BY <2>5 DEF Initialise
  <2>7. running'[Len(running')] = [of |-> Super(w), self |-> Now.self, supers |-> 0]
    BY <1>2, <2>3, <2>6
  <2> QED BY <2>1, <2>7 DEF Super
<1>6. CASE InitReturns
  <2>1. Len(running) - 1 \in Int /\ \A k \in 1..Len(running)-1 : running[k] \in Runs
    BY <1>1, SMT
  <2>2. Len(running') = IF 1 <= Len(running) - 1 THEN Len(running) - 1 - 1 + 1 ELSE 0
    BY <1>6, <2>1, SubSeqProperties DEF InitReturns, Front
  <2>3. \A m \in Nat \ {0} : (IF 1 <= m - 1 THEN m - 1 - 1 + 1 ELSE 0) <= m
    BY SMT
  <2>4. Len(running') <= Len(running)
    BY <1>1, <2>2, <2>3
  <2> QED BY <1>3, <2>4
<1>7. UNCHANGED running => FALSE
  BY <1>3
<1> QED BY <1>4, <1>5, <1>6, <1>7 DEF ClassNext, clb_init_class, lobj_get_member, lobjb_default_callable

\* The first superInit of an initialiser runs that of its parent on the same object
\* (clb_super_init_wrapper, class_builder.c), for any line of classes and whatever
\* objects the initialisers make meanwhile.
THEOREM AlwaysTheParent == ClassSpec => SuperIsParent
<1>1. SInv /\ [ClassNext]_classVars => SInv'
  BY SInvStep
<1>2. ClassInit => SInv
  <2> SUFFICES ASSUME ClassInit PROVE SInv
    OBVIOUS
  <2>1. running = <<>> /\ <<>> \in Seq(Runs) /\ DOMAIN <<>> = {}
    BY EmptySeq, SMT DEF ClassInit
  <2>2. \A c \in Class : class[c] = ABSENT
    BY DEF ClassInit
  <2>3. \A o \in Instance : object[o] = ABSENT
    BY DEF ClassInit
  <2>4. Declared = {} /\ Made = {}
    BY <2>2, <2>3 DEF Declared, Made
  <2>5. class \in [Class -> Classes_ \cup {ABSENT}] /\ object \in [Instance -> Objects \cup {ABSENT}]
    BY DEF ClassInit
  <2> QED BY <2>1, <2>4, <2>5 DEF SInv, ClassesInv, SuperInv, StackOK
<1> DEFINE A == Len(running') > Len(running) /\ running # <<>> /\ running'[Len(running')].self = Now.self =>
                  (Now.supers = 0 /\ Super(Now.of) # ABSENT => running'[Len(running')].of = Super(Now.of))
<1>3. SInv /\ [ClassNext]_classVars => [A]_classVars
  BY ParentRuns
<1> HIDE DEF A
<1>4. ClassSpec => [][A]_classVars
  BY <1>1, <1>2, <1>3, PTL DEF ClassSpec
<1> QED BY <1>4 DEF A, SuperIsParent

-----------------------------------------------------------------------------
(* Modules.                                                                *)

FrameType == [file : File \cup {MAIN}, kind : {"load", "call"}, run : Nat, thrown : BOOLEAN]

\* The outermost frame is the program's, and what is loaded above it is not in the
\* cache and is loaded once at a time.
Stacked(fs, c) ==
  /\ \A i \in DOMAIN fs : fs[i].kind = "load" =>
       IF i = 1 THEN fs[i].file = MAIN ELSE fs[i].file \in Text /\ c[fs[i].file] = NIL
  /\ \A i, j \in DOMAIN fs : fs[i].kind = "load" /\ fs[j].kind = "load" /\ fs[i].file = fs[j].file => i = j

\* What an import has given is what the cache has.
Agrees == \A a \in imported : a.value # NIL => a.file \in File /\ cache[a.file] = a.value

MInv ==
  /\ frames \in Seq(FrameType) /\ DOMAIN cache = File /\ runs \in [File -> Nat]
  /\ state = "up" => frames # <<>> /\ frames[1].kind = "load"
  /\ Stacked(frames, cache)
  /\ Agrees

-----------------------------------------------------------------------------
(* The frames.                                                             *)

\* Every frame of t is one of s, up to what waits in thrown.
SameText(t, s) == \A i \in DOMAIN t : i \in DOMAIN s /\ t[i].file = s[i].file /\ t[i].kind = s[i].kind

LEMMA SameStacked == ASSUME NEW s, NEW t, NEW c, Stacked(s, c), SameText(t, s) PROVE Stacked(t, c)
BY DEF Stacked, SameText

LEMMA ThrownSet ==
  ASSUME NEW s \in Seq(FrameType), NEW n \in 1..Len(s), NEW b \in BOOLEAN
  PROVE  LET t == [s EXCEPT ![n].thrown = b]
         IN  t \in Seq(FrameType) /\ Len(t) = Len(s) /\ SameText(t, s)
<1> DEFINE x == [s[n] EXCEPT !.thrown = b]
           t == [s EXCEPT ![n] = x]
<1>1. s[n] \in FrameType
  OBVIOUS
<1>2. x \in FrameType /\ x.file = s[n].file /\ x.kind = s[n].kind
  BY <1>1 DEF FrameType
<1>3. t \in Seq(FrameType) /\ Len(t) = Len(s) /\ \A j \in 1..Len(s) : t[j] = IF j = n THEN x ELSE s[j]
  <2> HIDE DEF x
  <2> QED BY <1>2, ExceptSeq
<1>4. DOMAIN t = 1..Len(s) /\ DOMAIN s = 1..Len(s)
  BY <1>3
<1>5. SameText(t, s)
  <2> HIDE DEF x, t
  <2> QED BY <1>2, <1>3, <1>4 DEF SameText
<1> QED BY <1>3, <1>5

\* The frame on top is over.
LEMMA Dropped ==
  ASSUME NEW s \in Seq(FrameType), Len(s) >= 2
  PROVE  /\ Front(s) \in Seq(FrameType) /\ Len(Front(s)) = Len(s) - 1 /\ SameText(Front(s), s)
         /\ Len(s) - 1 \in 1..Len(Front(s))
<1>1. Len(s) \in Nat /\ DOMAIN s = 1..Len(s) /\ \A i \in 1..Len(s)-1 : s[i] \in FrameType
  BY SMT
<1>2. /\ Front(s) \in Seq(FrameType) /\ Len(Front(s)) = Len(s) - 1
      /\ \A i \in 1..Len(s)-1 : Front(s)[i] = s[i]
  <2>1. 1 \in Int /\ Len(s) - 1 \in Int /\ 1 <= Len(s) - 1 /\ Len(s) - 1 - 1 + 1 = Len(s) - 1
    BY <1>1, SMT
  <2>2. \A i \in 1..Len(s)-1 : 1 + i - 1 = i
    BY SMT
  <2> QED BY <1>1, <2>1, <2>2, SubSeqProperties DEF Front
<1>3. DOMAIN Front(s) = 1..Len(s)-1 /\ \A i \in 1..Len(s)-1 : i \in 1..Len(s)
  BY <1>1, <1>2, SMT
<1>4. Len(s) - 1 \in 1..Len(Front(s))
  BY <1>1, <1>2, SMT
<1> QED BY <1>1, <1>2, <1>3, <1>4 DEF SameText

\* A frame is pushed.
LEMMA PushedOn ==
  ASSUME NEW s \in Seq(FrameType), NEW x \in FrameType, NEW c, Stacked(s, c), s # <<>>,
         x.kind = "load" => /\ x.file \in Text /\ c[x.file] = NIL
                            /\ \A i \in DOMAIN s : s[i].kind = "load" => s[i].file # x.file
  PROVE  /\ Append(s, x) \in Seq(FrameType) /\ Append(s, x) # <<>> /\ Append(s, x)[1] = s[1]
         /\ Stacked(Append(s, x), c)
<1> DEFINE t == Append(s, x)
           n == Len(s) + 1
<1>1. /\ t \in Seq(FrameType) /\ Len(t) = n /\ t[n] = x
      /\ \A k \in 1..Len(s) : t[k] = s[k]
  BY AppendProperties
<1>2. Len(s) \in Nat \ {0} /\ DOMAIN s = 1..Len(s) /\ DOMAIN t = 1..n
  BY <1>1, EmptySeq
<1> HIDE DEF t
<1>3. /\ \A i \in 1..n : i \in 1..Len(s) \/ i = n
      /\ 1 \in 1..Len(s) /\ n # 1 /\ n \notin 1..Len(s) /\ n # 0
  BY <1>2, SMT
<1> HIDE DEF n
<1>4. \A i \in DOMAIN t : (i \in DOMAIN s /\ t[i] = s[i]) \/ (i = n /\ i # 1 /\ t[i] = x)
  <2> TAKE i \in DOMAIN t
  <2>1. i \in 1..Len(s) \/ i = n
    BY <1>2, <1>3
  <2> QED BY <1>1, <1>2, <1>3, <2>1
<1>5. Stacked(t, c)
  <2>1. ASSUME NEW i \in DOMAIN t, t[i].kind = "load"
        PROVE  IF i = 1 THEN t[i].file = MAIN ELSE t[i].file \in Text /\ c[t[i].file] = NIL
    BY <1>4, <2>1 DEF Stacked
  <2>2. ASSUME NEW i \in DOMAIN t, NEW j \in DOMAIN t,
               t[i].kind = "load", t[j].kind = "load", t[i].file = t[j].file
        PROVE  i = j
    BY <1>4, <2>2 DEF Stacked
  <2> QED BY <2>1, <2>2 DEF Stacked
<1>6. t # <<>> /\ t[1] = s[1]
  BY <1>1, <1>3, Len(<<>>) = 0
<1> QED BY <1>1, <1>5, <1>6 DEF t

-----------------------------------------------------------------------------
(* The steps.                                                              *)

LEMMA TopTyped ==
  ASSUME MInv, state = "up"
  PROVE  /\ frames \in Seq(FrameType) /\ frames # <<>> /\ Len(frames) \in Nat \ {0}
         /\ DOMAIN frames = 1..Len(frames) /\ Len(frames) \in DOMAIN frames
         /\ Top \in FrameType
<1>1. frames \in Seq(FrameType) /\ frames # <<>>
  BY DEF MInv
<1>2. Len(frames) \in Nat \ {0} /\ DOMAIN frames = 1..Len(frames)
  BY <1>1, EmptySeq
<1>3. Len(frames) \in DOMAIN frames
  BY <1>2, SMT
<1> QED BY <1>1, <1>2, <1>3 DEF Top

\* The text of a module stands above the program's.
LEMMA AboveMain ==
  ASSUME MInv, state = "up", Top.kind # "load" \/ Top.file # MAIN \/ Len(frames) # 1
  PROVE  Len(frames) >= 2 /\ (Top.kind = "load" => Top.file \in Text /\ cache[Top.file] = NIL)
<1>1. frames[1].kind = "load" /\ frames[1].file = MAIN /\ 1 \in DOMAIN frames
  <2>1. 1 \in DOMAIN frames
    BY TopTyped, SMT
  <2> QED BY <2>1 DEF MInv, Stacked
<1>2. Len(frames) # 1
  BY <1>1 DEF Top
<1>3. Len(frames) >= 2
  BY <1>2, TopTyped, SMT
<1>4. Top.kind = "load" => Top.file \in Text /\ cache[Top.file] = NIL
  BY <1>2, TopTyped DEF MInv, Stacked, Top
<1> QED BY <1>3, <1>4

\* What one import pushes agrees with what the cache has.
LEMMA PushAgrees ==
  ASSUME MInv, NEW f \in File, NEW v, Push(f, v), DOMAIN cache' = File, v # NIL => cache'[f] = v,
         \A g \in File : cache[g] # NIL => cache'[g] = cache[g]
  PROVE  Agrees'
<1> SUFFICES ASSUME NEW a \in imported', a.value # NIL
             PROVE  a.file \in File /\ cache'[a.file] = a.value
  BY DEF Agrees
<1>1. CASE a \in imported
  BY <1>1 DEF MInv, Agrees
<1>2. CASE a = [file |-> f, value |-> v]
  BY <1>2
<1> QED BY <1>1, <1>2 DEF Push

\* The module that is put was not there.
LEMMA PutKeeps ==
  ASSUME MInv, NEW f \in File, NEW v, cache' = md_put(f, v), cache[f] = NIL
  PROVE  /\ DOMAIN cache' = File /\ cache'[f] = v
         /\ \A g \in File : cache[g] # NIL => cache'[g] = cache[g]
         /\ \A g \in File \ {f} : cache'[g] = cache[g]
BY DEF MInv, md_put

LEMMA CachedStep == ASSUME MInv, NEW n \in Name, LoadCached(n) PROVE MInv'
<1>1. Agrees'
  BY PushAgrees DEF LoadCached, MInv
<1> QED BY <1>1 DEF LoadCached, MInv

LEMMA LibStep == ASSUME MInv, NEW n \in Name, md_load_lib(n) PROVE MInv'
<1> DEFINE f == Located(Top.file, n)
           v == [file |-> f, run |-> runs[f] + 1]
<1>1. f \in Lib /\ f \in File /\ f \notin Text /\ cache[f] = NIL /\ cache' = md_put(f, v) /\ Push(f, v)
      /\ runs' = [runs EXCEPT ![f] = @ + 1] /\ UNCHANGED <<frames, raising, state>>
  BY ModuleAssumption DEF md_load_lib, File
<1> HIDE DEF f, v
<1>2. /\ DOMAIN cache' = File /\ cache'[f] = v
      /\ \A g \in File : cache[g] # NIL => cache'[g] = cache[g]
      /\ \A g \in File \ {f} : cache'[g] = cache[g]
  BY <1>1, PutKeeps
<1>3. Agrees'
  BY <1>1, <1>2, PushAgrees
<1>4. \A g \in Text : cache'[g] = cache[g]
  BY <1>1, <1>2 DEF File
<1>5. Stacked(frames, cache')
  BY <1>4 DEF MInv, Stacked
<1>6. runs' \in [File -> Nat]
  BY <1>1 DEF MInv
<1> QED BY <1>1, <1>2, <1>3, <1>5, <1>6 DEF MInv

LEMMA TextStep == ASSUME ~CYCLES, MInv, NEW n \in Name, md_load_text_code(n) PROVE MInv'
<1> DEFINE f == Located(Top.file, n)
           x == Frame(f, "load", runs[f] + 1)
<1>1. /\ f \in Text /\ f \in File /\ cache[f] = NIL /\ f \notin Loading /\ state = "up"
      /\ frames' = Append(frames, x) /\ runs' = [runs EXCEPT ![f] = @ + 1]
      /\ UNCHANGED <<cache, raising, imported, state>>
  BY DEF md_load_text_code, File, Goes
<1> HIDE DEF f
<1>2. runs \in [File -> Nat] /\ runs[f] + 1 \in Nat
  BY <1>1, SMT DEF MInv
<1>3. x \in FrameType /\ x.file = f
  BY <1>1, <1>2 DEF FrameType, Frame
<1>4. \A i \in DOMAIN frames : frames[i].kind = "load" => frames[i].file # f
  BY <1>1 DEF Loading
<1> HIDE DEF x
<1>5. /\ frames' \in Seq(FrameType) /\ frames' # <<>> /\ frames'[1] = frames[1]
      /\ Stacked(frames', cache)
  BY <1>1, <1>3, <1>4, TopTyped, PushedOn DEF MInv
<1>6. runs' \in [File -> Nat]
  BY <1>1, <1>2
<1> QED BY <1>1, <1>5, <1>6 DEF MInv, Agrees

LEMMA CallIntoStep == ASSUME MInv, NEW f \in Text, CallInto(f) PROVE MInv'
<1> DEFINE x == Frame(f, "call", 0)
<1>1. x \in FrameType /\ x.kind = "call" /\ state = "up" /\ frames' = Append(frames, x)
  BY DEF FrameType, Frame, File, CallInto, Goes
<1> HIDE DEF x
<1>2. /\ frames' \in Seq(FrameType) /\ frames' # <<>> /\ frames'[1] = frames[1]
      /\ Stacked(frames', cache)
  BY <1>1, TopTyped, PushedOn DEF MInv
<1> QED BY <1>2 DEF MInv, Agrees, CallInto

\* The frames below stay as they are but for what waits in thrown.
LEMMA FewerFrames ==
  ASSUME MInv, state = "up", NEW t \in Seq(FrameType), t # <<>>, SameText(t, frames)
  PROVE  t[1].kind = "load" /\ Stacked(t, cache)
<1>1. 1 \in DOMAIN t
  BY EmptySeq, SMT
<1> QED BY <1>1, SameStacked DEF MInv, SameText

LEMMA NoticedStep == ASSUME MInv, Noticed PROVE MInv'
<1>1. state = "up" /\ frames' = [frames EXCEPT ![Len(frames)].thrown = FALSE]
  BY DEF Noticed, Goes
<1>2. frames' \in Seq(FrameType) /\ Len(frames') = Len(frames) /\ SameText(frames', frames)
  BY <1>1, TopTyped, ThrownSet
<1>3. frames' # <<>>
  BY <1>1, <1>2, TopTyped, Len(<<>>) = 0, SMT
<1> QED BY <1>1, <1>2, <1>3, FewerFrames DEF MInv, Agrees, Noticed

\* The frame on top is over, with or without a change of thrown below.
LEMMA LeftFrames ==
  ASSUME MInv, state = "up", Len(frames) >= 2, NEW b \in BOOLEAN,
         NEW t, t = Front(frames) \/ t = [Front(frames) EXCEPT ![Len(frames) - 1].thrown = b]
  PROVE  t \in Seq(FrameType) /\ t # <<>> /\ SameText(t, frames) /\ Len(t) = Len(frames) - 1
<1> DEFINE s == Front(frames)
<1>1. frames \in Seq(FrameType) /\ Len(frames) \in Nat
  BY TopTyped
<1>2. /\ s \in Seq(FrameType) /\ Len(s) = Len(frames) - 1 /\ SameText(s, frames)
      /\ Len(frames) - 1 \in 1..Len(s)
  BY <1>1, Dropped
<1> HIDE DEF s
<1>3. t \in Seq(FrameType) /\ Len(t) = Len(s) /\ SameText(t, s)
  <2>1. CASE t = s
    BY <1>2, <2>1 DEF SameText
  <2>2. CASE t = [s EXCEPT ![Len(frames) - 1].thrown = b]
    BY <1>2, <2>2, ThrownSet
  <2> QED BY <2>1, <2>2 DEF s
<1>4. SameText(t, frames)
  BY <1>2, <1>3 DEF SameText
<1>5. t # <<>>
  BY <1>1, <1>2, <1>3, Len(<<>>) = 0, SMT
<1> QED BY <1>2, <1>3, <1>4, <1>5

\* What a module that is over leaves in the cache is not loaded below.
LEMMA PutBelow ==
  ASSUME MInv, state = "up", Len(frames) >= 2, Top.kind = "load", NEW v, cache' = md_put(Top.file, v),
         NEW t, t \in Seq(FrameType), SameText(t, frames), Len(t) = Len(frames) - 1
  PROVE  /\ Stacked(t, cache') /\ DOMAIN cache' = File /\ Top.file \in File
         /\ cache'[Top.file] = v /\ \A g \in File : cache[g] # NIL => cache'[g] = cache[g]
<1> DEFINE f == Top.file
<1>1. f \in Text /\ f \in File /\ cache[f] = NIL
  <2>1. Len(frames) # 1
    BY TopTyped, SMT
  <2> QED BY <2>1, AboveMain DEF File
<1>2. /\ DOMAIN cache' = File /\ cache'[f] = v
      /\ \A g \in File : cache[g] # NIL => cache'[g] = cache[g]
      /\ \A g \in File \ {f} : cache'[g] = cache[g]
  BY <1>1, PutKeeps
<1>3. Stacked(t, cache)
  BY SameStacked DEF MInv
<1>4. \A i \in DOMAIN t : i \in DOMAIN frames /\ i # Len(frames)
  <2>1. DOMAIN t = 1..Len(frames)-1
    BY LenProperties
  <2> QED BY <2>1, TopTyped, SMT
<1>5. \A i \in DOMAIN t : t[i].kind = "load" => t[i].file # f
  <2> SUFFICES ASSUME NEW i \in DOMAIN t, t[i].kind = "load", t[i].file = f
               PROVE  FALSE
    OBVIOUS
  <2>1. i \in DOMAIN frames /\ frames[i].file = f /\ frames[i].kind = "load" /\ i # Len(frames)
    BY <1>4 DEF SameText
  <2>2. frames[Len(frames)].file = f /\ frames[Len(frames)].kind = "load" /\ Len(frames) \in DOMAIN frames
    BY TopTyped DEF Top
  <2> QED BY <2>1, <2>2 DEF MInv, Stacked
<1>6. Stacked(t, cache')
  <2>1. \A g \in Text : g # f => cache'[g] = cache[g]
    BY <1>2 DEF File
  <2> HIDE DEF f
  <2> QED BY <1>3, <1>5, <2>1 DEF Stacked
<1> QED BY <1>1, <1>2, <1>6

\* A module's frame ends: its value, or NIL, is put and pushed.
LEMMA LoadOver ==
  ASSUME MInv, state = "up", Top.kind = "load", Len(frames) >= 2, NEW v, NEW b \in BOOLEAN,
         frames' = Front(frames) \/ frames' = [Front(frames) EXCEPT ![Len(frames) - 1].thrown = b],
         cache' = md_put(Top.file, v), Push(Top.file, v), UNCHANGED <<runs, state>>
  PROVE  MInv'
<1>1. /\ frames' \in Seq(FrameType) /\ frames' # <<>> /\ SameText(frames', frames)
      /\ Len(frames') = Len(frames) - 1
  BY LeftFrames
<1>2. frames'[1].kind = "load"
  BY <1>1, FewerFrames
<1>3. /\ Stacked(frames', cache') /\ DOMAIN cache' = File /\ Top.file \in File
      /\ cache'[Top.file] = v /\ \A g \in File : cache[g] # NIL => cache'[g] = cache[g]
  BY <1>1, PutBelow
<1>4. Agrees'
  BY <1>3, PushAgrees
<1> QED BY <1>1, <1>2, <1>3, <1>4 DEF MInv

\* A call of a function out of a module ends, by itself or by an exception.
LEMMA CallOver ==
  ASSUME MInv, state = "up", Top.kind = "call", frames' = Called, UNCHANGED <<cache, imported, state, runs>>
  PROVE  MInv'
<1>1. Len(frames) >= 2
  BY AboveMain
<1>2. /\ frames' \in Seq(FrameType) /\ frames' # <<>> /\ SameText(frames', frames)
  BY <1>1, LeftFrames DEF Called
<1> QED BY <1>2, FewerFrames DEF MInv, Agrees

\* The program is over.
LEMMA ProgramOver ==
  ASSUME MInv, frames' = <<>>, state' = "over", UNCHANGED <<cache, imported, runs>>
  PROVE  MInv'
<1>1. <<>> \in Seq(FrameType) /\ DOMAIN <<>> = {}
  BY EmptySeq, SMT
<1> QED BY <1>1 DEF MInv, Agrees, Stacked

LEMMA ModuleReturnStep == ASSUME MInv, Return PROVE MInv'
<1>1. state = "up" /\ UNCHANGED runs
  BY DEF Return, Goes
<1>2. CASE Top.kind = "call"
  BY <1>1, <1>2, CallOver DEF Return
<1>3. CASE Top.kind # "call" /\ Top.file = MAIN
  BY <1>1, <1>3, ProgramOver DEF Return
<1>4. CASE Top.kind # "call" /\ Top.file # MAIN
  <2>1. Top.kind = "load"
    BY <1>1, <1>4, TopTyped DEF FrameType
  <2>2. Len(frames) >= 2
    BY <1>1, <1>4, AboveMain
  <2>3. PICK v : frames' = Front(frames) /\ cache' = md_put(Top.file, v) /\ Push(Top.file, v) /\ UNCHANGED state
    BY <1>4 DEF Return
  <2> QED BY <1>1, <2>1, <2>2, <2>3, LoadOver
<1> QED BY <1>2, <1>3, <1>4

LEMMA EscapeStep == ASSUME MInv, Escape PROVE MInv'
<1>1. state = "up" /\ UNCHANGED runs
  BY DEF Escape
<1>2. CASE Len(frames) = 1
  BY <1>1, <1>2, ProgramOver DEF Escape
<1>3. CASE Len(frames) # 1 /\ Top.kind = "load"
  <2>1. Len(frames) >= 2
    BY <1>1, <1>3, AboveMain
  <2>2. /\ frames' = [Front(frames) EXCEPT ![Len(frames) - 1].thrown = TRUE]
        /\ cache' = md_put(Top.file, NIL) /\ Push(Top.file, NIL) /\ UNCHANGED state
    BY <1>3 DEF Escape
  <2> QED BY <1>1, <1>3, <2>1, <2>2, LoadOver
<1>4. CASE Len(frames) # 1 /\ Top.kind # "load"
  <2>1. Top.kind = "call"
    BY <1>1, <1>4, TopTyped DEF FrameType
  <2> QED BY <1>1, <1>4, <2>1, CallOver DEF Escape
<1> QED BY <1>2, <1>3, <1>4

LEMMA ModuleStep == ASSUME ~CYCLES, MInv, [ModuleNext]_moduleVars PROVE MInv'
<1>1. ASSUME NEW n \in Name, LoadStandard(n) \/ LoadMissing(n) PROVE MInv'
  BY <1>1 DEF MInv, Agrees, LoadStandard, LoadMissing, moduleVars
<1>2. CASE Raise \/ Catch \/ UNCHANGED moduleVars
  BY <1>2 DEF MInv, Agrees, Raise, Catch, moduleVars
<1> QED BY <1>1, <1>2, CachedStep, LibStep, TextStep, CallIntoStep, NoticedStep, ModuleReturnStep, EscapeStep
        DEF ModuleNext

LEMMA InitModules == ModuleInit => MInv
<1> SUFFICES ASSUME ModuleInit PROVE MInv
  OBVIOUS
<1> DEFINE x == Frame(MAIN, "load", 1)
<1>1. x \in FrameType /\ x.file = MAIN /\ x.kind = "load"
  BY DEF Frame, FrameType
<1> HIDE DEF x
<1>2. frames = <<x>> /\ frames \in Seq(FrameType) /\ frames # <<>> /\ DOMAIN frames = {1} /\ frames[1] = x
  BY <1>1, SMT DEF ModuleInit, x
<1>3. Stacked(frames, cache)
  BY <1>1, <1>2 DEF Stacked
<1>4. imported = {} /\ DOMAIN cache = File /\ runs \in [File -> Nat]
  BY DEF ModuleInit
<1> QED BY <1>1, <1>2, <1>3, <1>4 DEF MInv, Agrees

\* Unless modules import one another in a circle, every import of a file gives one
\* value (md_load, module.c), for any tree of files, depth of imports and sequence of
\* failures.
THEOREM AlwaysOneModule == ASSUME ~CYCLES PROVE ModuleSpec => []OneModule
<1>1. MInv /\ [ModuleNext]_moduleVars => MInv'
  BY ModuleStep
<1>2. MInv => OneModule
  BY DEF MInv, Agrees, OneModule
<1> QED BY <1>1, <1>2, InitModules, PTL DEF ModuleSpec
=============================================================================

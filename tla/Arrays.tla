------------------------------- MODULE Arrays -------------------------------
(***************************************************************************)
(* arraylist.c and Array (stl_array.c from line 634 on: what stands before *)
(* is compiled out).  One array, the methods a program calls on it, and    *)
(* the loops over it that call back into the program, which may use the    *)
(* same array from there: forEach, contains and indexOf walk over a copy   *)
(* of the list's header, map, reduce, joined and for over the list itself. *)
(*                                                                         *)
(* Not every index is checked.  A step that uses memory which holds no     *)
(* element is a stray; the program's behaviour is undefined afterwards,    *)
(* and the model ends there.  Callbacks start no second loop.              *)
(***************************************************************************)
EXTENDS Integers, FiniteSets, SequencesExt

CONSTANTS
  Object,
  NULL,       \* what a cell holds that has no element: NULL, or what realloc left there
  FirstRoom,  \* the room of a new array (10)
  Slack,      \* the room copy and map add to the number of elements (10)
  Large,      \* a list with less than half this room doubles it, a larger one adds this (10000)
  MaxCount    \* bound on the elements of an array

ASSUME ArrayAssumption ==
  /\ NULL \notin Object
  /\ FirstRoom \in Nat \ {0} /\ Slack \in Nat /\ Large \in Nat \ {0} /\ MaxCount \in Nat

VARIABLES
  list,     \* [items, count, allocated]: the arraylist
  members,  \* the member count of the Array object
  mapped,   \* the arraylist that map is filling
  walk,     \* the loop over the array that is under way
  stray     \* the method that used what is no element, or "none"
arrayVars == <<list, members, mapped, walk, stray>>

Cell == Object \cup {NULL}
Index == -1..MaxCount

arr_create(count) == [items |-> [i \in 0..count-1 |-> NULL], count |-> 0, allocated |-> count]

\* A mutant: the room is noted but not made.
arr_manage_size_noted(l) ==
  IF l.count # l.allocated THEN l ELSE [l EXCEPT !.allocated = @ * 2]

arr_manage_size(l) ==
  LET nl == IF l.allocated * 2 < Large THEN l.allocated * 2 ELSE l.allocated + Large
  IN  IF l.count # l.allocated THEN l
      ELSE [items |-> [i \in 0..nl-1 |-> IF i < l.allocated THEN l.items[i] ELSE NULL],
            count |-> l.count, allocated |-> nl]

arr_append(l, x) ==
  LET r == arr_manage_size(l) IN [r EXCEPT !.items[r.count] = x, !.count = @ + 1]

\* A mutant: the elements are shifted from the front.
arr_insert_smearing(l, x, idx) ==
  LET r == arr_manage_size(l)
  IN  [r EXCEPT !.items = [i \in DOMAIN r.items |-> IF i \in idx..r.count THEN x ELSE r.items[i]], !.count = @ + 1]

arr_insert(l, x, idx) ==
  LET r == arr_manage_size(l)
      Shifted(i) == CASE i = idx -> x
                      [] i \in idx+1..r.count -> r.items[i - 1]
                      [] OTHER -> r.items[i]
  IN  [r EXCEPT !.items = [i \in DOMAIN r.items |-> Shifted(i)], !.count = @ + 1]

remove_at_index(l, idx) ==
  LET Shifted(i) == CASE i \notin idx..l.count-1 -> l.items[i]
                      [] i \in idx..l.count-2 -> l.items[i + 1]
                      [] OTHER -> NULL
  IN  [l EXCEPT !.items = [i \in DOMAIN l.items |-> Shifted(i)], !.count = @ - 1]

\* memcpy of size elements of another array to the start of this one.
Copied(l, source, size) ==
  [l EXCEPT !.items = [i \in DOMAIN l.items |-> IF i < size THEN source[i] ELSE l.items[i]],
            !.count = IF @ < size THEN size ELSE @]

-----------------------------------------------------------------------------

Rest == [op |-> "none", i |-> 0, calling |-> FALSE, start |-> 0, added |-> 0, removed |-> FALSE,
         moved |-> FALSE, raised |-> FALSE]
HeaderLoops == {"forEach", "contains", "indexOf"}
Loops == HeaderLoops \cup {"map", "reduce", "joined", "for"}

ArrayInit ==
  /\ list = arr_create(FirstRoom) /\ members = 0
  /\ mapped = arr_create(0)
  /\ walk = Rest
  /\ stray = "none"

\* The program runs: outside of the loops, or called back from one.
Running == stray = "none" /\ (walk.op = "none" \/ walk.calling)

Strays(op) == stray' = op /\ UNCHANGED <<list, members, mapped, walk>>
Raises == UNCHANGED arrayVars

\* More elements since the loop began, as far as that matters.
Added(n) == IF walk.added + n > Slack THEN Slack + 1 ELSE walk.added + n

\* The list changes.  realloc may move the items; a copied header does not follow.
Becomes(l) ==
  /\ list' = l
  /\ members' = l.count
  /\ \E moves \in BOOLEAN :
       /\ moves => l.allocated # list.allocated
       /\ walk' = IF walk.op = "none" THEN walk
                  ELSE [walk EXCEPT !.added = IF l.count > list.count THEN Added(l.count - list.count) ELSE @,
                                    !.removed = @ \/ l.count < list.count,
                                    !.moved = @ \/ moves]
  /\ UNCHANGED mapped

\* A list with room for nothing doubles it to nothing: realloc frees it.
HasRoom == arr_manage_size(list).allocated > list.count

stlarr_append(x) ==
  /\ Running /\ list.count < MaxCount
  /\ IF HasRoom THEN Becomes(arr_append(list, x)) /\ UNCHANGED stray ELSE Strays("append")

\* A mutant: any index behind the elements will do.
stlarr_insert_anywhere(x, idx) ==
  /\ Running /\ list.count < MaxCount
  /\ IF idx < 0 \/ list.count = 0 THEN Strays("insert")
     ELSE Becomes(arr_insert(list, x, idx)) /\ UNCHANGED stray

stlarr_insert(x, idx) ==
  /\ Running /\ list.count < MaxCount
  /\ CASE idx >= list.count -> Raises
       [] idx < 0 -> Strays("insert")
       [] OTHER -> Becomes(arr_insert(list, x, idx)) /\ UNCHANGED stray

stlarr_set(x, idx) ==
  /\ Running
  /\ CASE idx >= list.count -> Raises
       [] idx < 0 -> Strays("set")
       [] OTHER -> Becomes([list EXCEPT !.items[idx] = x]) /\ UNCHANGED stray

\* The object in cell idx is handed to the program.
HandsOut(op, idx) ==
  IF idx \in DOMAIN list.items /\ list.items[idx] \in Object THEN UNCHANGED arrayVars ELSE Strays(op)

stlarr_get(idx) == Running /\ IF idx >= list.count THEN Raises ELSE HandsOut("get", idx)
stlarr_last == Running /\ IF list.count = 0 THEN Raises ELSE HandsOut("last", list.count - 1)

\* Behind the last element, too, an element less is counted.
stlarr_remove_at(idx) ==
  /\ Running
  /\ IF idx < 0 THEN Strays("removeAt")
     ELSE Becomes(remove_at_index(list, idx)) /\ stray' = IF idx < list.count THEN "none" ELSE "removeAt"

stlarr_memcpy(source, count, size) ==
  /\ Running
  /\ IF size > list.allocated \/ size > count THEN Raises
     ELSE Becomes(Copied(list, source, size)) /\ UNCHANGED stray

\* The program goes on with an array that it has been given, made from l.  (An
\* array it does not go on with makes no difference.)
stlarr_cinit(l) == list' = l /\ members' = l.count

Creates(l) == Running /\ walk.op = "none" /\ stlarr_cinit(l) /\ UNCHANGED <<mapped, walk, stray>>

stlarr_alloc(size) == Creates(arr_create(size))
stlarr_copy == Creates(Copied(arr_create(list.count + Slack), list.items, list.count))

-----------------------------------------------------------------------------
(* The loops.                                                              *)

\* A mutant: the loop runs over the room, not the elements.
Begin_over_room(op) ==
  /\ Running /\ walk.op = "none"
  /\ op = "joined" => list.count > 0
  /\ walk' = [Rest EXCEPT !.op = op, !.start = list.allocated]
  /\ mapped' = IF op = "map" THEN arr_create(list.count + Slack) ELSE mapped
  /\ UNCHANGED <<list, members, stray>>

Begin(op) ==
  /\ Running /\ walk.op = "none"
  /\ op = "joined" => list.count > 0
  /\ walk' = [Rest EXCEPT !.op = op, !.start = list.count]
  /\ mapped' = IF op = "map" THEN arr_create(list.count + Slack) ELSE mapped
  /\ UNCHANGED <<list, members, stray>>

Limit == IF walk.op \in HeaderLoops THEN walk.start ELSE list.count

\* The next element is read, and the program called with it: the callback, an
\* element's stringify_ or ==, or the body of the for.
Visit ==
  /\ stray = "none" /\ walk.op # "none" /\ ~walk.calling
  /\ walk.i < Limit
  /\ IF (walk.op \in HeaderLoops /\ walk.moved) \/ list.items[walk.i] \notin Object THEN Strays(walk.op)
     ELSE walk' = [walk EXCEPT !.calling = TRUE] /\ UNCHANGED <<list, members, mapped, stray>>

\* What was called returns x: map keeps it, joined keeps its text in a block on the
\* stack that has a place for each element there was at the start.
Returns(x, raised) ==
  IF \/ walk.op = "map" /\ walk.i >= mapped.allocated
     \/ walk.op = "joined" /\ walk.i >= walk.start
  THEN Strays(walk.op)
  ELSE /\ walk' = [walk EXCEPT !.i = @ + 1, !.calling = FALSE, !.raised = @ \/ raised]
       /\ mapped' = IF walk.op = "map" THEN [mapped EXCEPT !.items[walk.i] = x] ELSE mapped
       /\ UNCHANGED <<list, members, stray>>

Resume(x) == stray = "none" /\ walk.calling /\ Returns(x, FALSE)

\* A callback that raises returns NULL.  forEach, map and reduce go on with the next
\* element; an exception leaves the body of a for; the others use the NULL as a
\* string or as an object.
CallbackRaises ==
  /\ stray = "none" /\ walk.calling
  /\ CASE walk.op \in {"forEach", "map", "reduce"} -> Returns(NULL, TRUE)
       [] walk.op = "for" -> walk' = Rest /\ UNCHANGED <<list, members, mapped, stray>>
       [] OTHER -> Strays("raised")

\* contains and indexOf stop at the first element that is equal; a for is left by break.
Found ==
  /\ stray = "none" /\ walk.calling /\ walk.op \in {"contains", "indexOf", "for"}
  /\ walk' = Rest
  /\ UNCHANGED <<list, members, mapped, stray>>

\* What map returns.
Result == [mapped EXCEPT !.count = list.count]

\* The length of a joined text is the sum over all texts that were collected;
\* only those of the elements that are left are copied to it.  CALL_FUNC throws
\* away what a method returns in which a callback has raised.
End ==
  /\ stray = "none" /\ walk.op # "none" /\ ~walk.calling
  /\ walk.i >= Limit
  /\ IF walk.op = "joined" /\ walk.i > 1 /\ walk.i > list.count THEN Strays("joined")
     ELSE /\ walk' = Rest
          /\ mapped' = arr_create(0)
          /\ \/ UNCHANGED <<list, members>>
             \/ walk.op = "map" /\ ~walk.raised /\ stlarr_cinit(Result)
          /\ UNCHANGED stray

Call ==
  \/ \E x \in Object : \/ stlarr_append(x)
                       \/ \E idx \in Index : stlarr_insert(x, idx) \/ stlarr_set(x, idx)
  \/ \E idx \in Index : stlarr_get(idx) \/ stlarr_remove_at(idx)
  \/ stlarr_last
  \/ \E count \in 0..MaxCount : \E source \in [0..count-1 -> Object], size \in 0..count+1 :
       stlarr_memcpy(source, count, size)
  \/ \E size \in 0..MaxCount : stlarr_alloc(size)
  \/ stlarr_copy

Loop ==
  \/ \E op \in Loops : Begin(op)
  \/ Visit
  \/ \E x \in Object : Resume(x)
  \/ CallbackRaises
  \/ Found
  \/ End

ArrayNext == Call \/ Loop

ArraySpec == ArrayInit /\ [][ArrayNext]_arrayVars

-----------------------------------------------------------------------------

Walk == [op : Loops \cup {"none"}, i : Nat, calling : BOOLEAN, start : Int, added : Nat,
         removed : BOOLEAN, moved : BOOLEAN, raised : BOOLEAN]

ArrayTypeOK ==
  /\ list.count \in Int /\ list.allocated \in Nat /\ list.items \in [0..list.allocated-1 -> Cell]
  /\ mapped.count \in Int /\ mapped.allocated \in Nat /\ mapped.items \in [0..mapped.allocated-1 -> Cell]
  /\ members \in Int
  /\ walk \in Walk
  /\ stray \in {"none", "append", "insert", "set", "get", "last", "removeAt", "raised"} \cup Loops

\* A list whose first count cells are its elements, and there is room for them.
Full(l) == /\ 0 <= l.count /\ l.count <= l.allocated
           /\ \A i \in 0..l.count-1 : l.items[i] \in Object

\* The list has an element in each of the cells it counts, and room for them, and
\* the Array says how many: whatever is appended, inserted, removed and copied,
\* and whatever callbacks do meanwhile.  The array that map makes has all its
\* elements even if the one it is made of has shrunk on the way.  Appending fails
\* only in a list that was allocated with room for nothing (Array.alloc(0)).
NoHoles ==
  /\ stray = "none" => Full(list) /\ members = list.count
  /\ stray = "append" => list.allocated = 0

\* What loops over the array may do.  reduce and for (over the list itself) and
\* last never meet what is no element, whatever their callbacks do.  map writes
\* outside the array it makes only if callbacks have added more than Slack
\* elements (stl_array.c:862-871).  forEach, contains, indexOf and joined go astray
\* only if the callbacks have added or removed elements (stl_array.c:719-850).
LoopsStayInside ==
  /\ stray \notin {"reduce", "for", "last"}
  /\ stray = "map" => walk.added > Slack
  /\ stray \in HeaderLoops \cup {"joined"} => walk.added > 0 \/ walk.removed
\* The elements stay in their order: what the shifts, the copies and the growth of
\* arraylist.c do is what appending to, inserting into, removing from and
\* overwriting a sequence is, also when a loop's callback does it.
Elements == [i \in 1..list.count |-> list.items[i - 1]]

KeepsOrder ==
  [][stray' = "none" =>
       /\ \A x \in Object : stlarr_append(x) => Elements' = Append(Elements, x)
       /\ \A x \in Object, idx \in 0..list.count-1 :
            /\ stlarr_insert(x, idx) => Elements' = InsertAt(Elements, idx + 1, x)
            /\ stlarr_set(x, idx) => Elements' = ReplaceAt(Elements, idx + 1, x)
       /\ \A idx \in 0..list.count-1 : stlarr_remove_at(idx) => Elements' = RemoveAt(Elements, idx + 1)
       /\ stlarr_copy => Elements' = Elements]_arrayVars
=============================================================================

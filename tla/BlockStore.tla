----------------------------- MODULE BlockStore -----------------------------
(***************************************************************************)
(* What a caller of aquarium.h may rely on.  Memory comes in regions of    *)
(* Slots blocks.  A block is given to one holder at a time; a new region   *)
(* is mapped only when every block of the mapped ones is out; a region is  *)
(* unmapped by the release that leaves none of its blocks out.             *)
(***************************************************************************)
EXTENDS Integers

CONSTANTS Region,     \* addresses at which a region may be mapped
          Slots       \* blocks in a region (LARGE_COUNT)

VARIABLES held,       \* the blocks that are out
          out,        \* [Region -> Nat], how many blocks of a region are out
          mapped      \* the regions that are mapped

vars == <<held, out, mapped>>

Block == Region \X (1..Slots)

-----------------------------------------------------------------------------
Init ==
  /\ held = {}
  /\ out = [r \in Region |-> 0]
  /\ \E r \in Region : mapped = {r}

Give(b) ==
  /\ b \notin held
  /\ b[1] \in mapped
  /\ held' = held \cup {b}
  /\ out' = [out EXCEPT ![b[1]] = @ + 1]
  /\ mapped' = mapped

GiveFresh(b) ==
  /\ b \notin held
  /\ b[1] \notin mapped
  /\ \A r \in mapped : out[r] = Slots
  /\ held' = held \cup {b}
  /\ out' = [out EXCEPT ![b[1]] = @ + 1]
  /\ mapped' = mapped \cup {b[1]}

Take(b) ==
  /\ b \in held
  /\ held' = held \ {b}
  /\ out' = [out EXCEPT ![b[1]] = @ - 1]
  /\ mapped' = IF \E c \in held \ {b} : c[1] = b[1]
               THEN mapped ELSE mapped \ {b[1]}

Close ==
  /\ mapped' = {}
  /\ UNCHANGED <<held, out>>

Next == Close \/ \E b \in Block : Give(b) \/ GiveFresh(b) \/ Take(b)

Spec == Init /\ [][Next]_vars
=============================================================================

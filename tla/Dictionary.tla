----------------------------- MODULE Dictionary -----------------------------
(***************************************************************************)
(* What Table promises (docs/stdlib.lky:226-258): a value for each key, of *)
(* keys that are told apart by ==, and methods that read or change it.     *)
(* KeyClass gives a key what it is told apart by.                          *)
(***************************************************************************)
EXTENDS Naturals, FiniteSets, SequencesExt

CONSTANTS KeyClass(_), Nil
VARIABLES map,    \* from classes of keys to values
          done    \* the last method: [op, arg, result, nr]

With(m, k, v) == [c \in DOMAIN m \cup {KeyClass(k)} |-> IF c = KeyClass(k) THEN v ELSE m[c]]
Extended(m, pairs) ==
  LET from[n \in 0..Len(pairs)] == IF n = 0 THEN m ELSE With(from[n - 1], pairs[n][1], pairs[n][2])
  IN  from[Len(pairs)]
Without(m, ks) == [c \in DOMAIN m \ ks |-> m[c]]
Valued(v) == {c \in DOMAIN map : map[c] = v}
At(k) == IF KeyClass(k) \in DOMAIN map THEN map[KeyClass(k)] ELSE Nil

Does(op, arg, result) ==
  CASE op = "put" -> map' = With(map, arg[1], arg[2])
    [] op = "addAll" -> map' = Extended(map, arg)
    [] op = "remove" -> map' = Without(map, {KeyClass(arg)}) /\ result = At(arg)
    [] op = "removeValue" -> map' = Without(map, Valued(arg))
    [] op = "get" -> map' = map /\ result = At(arg)
    [] op = "hasKey" -> map' = map /\ (result <=> KeyClass(arg) \in DOMAIN map)
    [] op = "hasValue" -> map' = map /\ (result <=> Valued(arg) # {})
    [] op = "keys" -> /\ map' = map
                      /\ Len(result) = Cardinality(DOMAIN map)
                      /\ {KeyClass(k) : k \in ToSet(result)} = DOMAIN map
    [] op = "values" -> /\ map' = map
                        /\ \A v \in ToSet(result) \cup Range(map) :
                             Cardinality(Valued(v)) = Cardinality({i \in DOMAIN result : result[i] = v})
    [] OTHER -> FALSE

Init == map = Extended(<<>>, done.arg)
Next == Does(done'.op, done'.arg, done'.result)
=============================================================================

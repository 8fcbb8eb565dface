-------------------------------- MODULE Text --------------------------------
(***************************************************************************)
(* What String promises: a string is a sequence of characters, and each    *)
(* method makes the sequence its documentation describes from it           *)
(* (docs/stdlib.lky:188-225).  "did" is the last method with its argument. *)
(***************************************************************************)
EXTENDS Integers, SequencesExt

CONSTANTS Upper, Lower,    \* the letters of each case, as functions to the other case
          Nul              \* ends a string wherever it is put
VARIABLES value, did

Cased(s, case) == [i \in DOMAIN s |-> IF s[i] \in DOMAIN case THEN case[s[i]] ELSE s[i]]
Repeated(s, n) == FlattenSeq([i \in 1..n |-> s])
Occurs(s, sub, i) == i + Len(sub) - 1 <= Len(s) /\ SubSeq(s, i, i + Len(sub) - 1) = sub

\* The string is gone through from the left: where sub occurs, repl takes its
\* place and its characters are passed over; every other character stays.
After(r, s, sub, repl, i) ==
  CASE i < r.next -> r
    [] i >= r.next /\ Occurs(s, sub, i) -> [made |-> r.made \o repl, next |-> i + Len(sub)]
    [] OTHER -> [made |-> Append(r.made, s[i]), next |-> i + 1]
Replaced(s, sub, repl) ==
  LET upto[i \in 0..Len(s)] == IF i = 0 THEN [made |-> <<>>, next |-> 1]
                               ELSE After(upto[i - 1], s, sub, repl, i)
  IN  upto[Len(s)].made

Computes(arg) ==
  CASE did'.op = "reverse" -> value' = Reverse(value)
    [] did'.op = "lower" -> value' = Cased(value, Lower)
    [] did'.op = "upper" -> value' = Cased(value, Upper)
    [] did'.op = "add" -> value' = value \o arg
    [] did'.op = "added_to" -> value' = arg \o value
    [] did'.op = "multiply" -> value' = Repeated(value, arg)
    [] did'.op = "set" -> value' = IF arg.char = Nul THEN SubSeq(value, 1, arg.index - 1)
                                   ELSE [value EXCEPT ![arg.index] = arg.char]
    [] did'.op = "replace" -> value' = Replaced(value, arg.search, arg.repl)
    [] OTHER -> value' = value       \* copy, split, iterable_ and the methods with a regex

Next == Computes(did'.arg)
Spec == [][Next]_<<value, did>>
=============================================================================

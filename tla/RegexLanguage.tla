--------------------------- MODULE RegexLanguage ---------------------------
(***************************************************************************)
(* What a regular expression means, independently of how regex.c goes      *)
(* about it: expressions as trees, the text one writes for them, and where *)
(* in a string a match that begins at a given place may end.               *)
(***************************************************************************)
EXTENDS Integers, Sequences

Lit(ch) == [op |-> "lit", char |-> ch, text |-> IF ch \in {"(", ")", "|", "*", "+", "?", ".", "["} THEN <<"\\", ch>> ELSE <<ch>>]
Set(chs, txt) == [op |-> "set", chars |-> chs, text |-> txt]
Cat(l, r) == [op |-> "cat", l |-> l, r |-> r]
Alt(l, r) == [op |-> "alt", l |-> l, r |-> r]
Rep(q, e) == [op |-> q, e |-> e]                 \* "*", "+", "?"
Eps == [op |-> "eps"]

Parens(s) == <<"(">> \o s \o <<")">>

RECURSIVE Written(_)
\* Parentheses where the precedence of the operators calls for them.
InCat(e) == IF e.op = "alt" THEN Parens(Written(e)) ELSE Written(e)
InRep(e) == IF e.op \in {"alt", "cat"} THEN Parens(Written(e)) ELSE Written(e)
Written(e) ==
  CASE e.op \in {"lit", "set"} -> e.text
    [] e.op = "eps" -> <<"(", ")">>
    [] e.op = "cat" -> InCat(e.l) \o InCat(e.r)
    [] e.op = "alt" -> Written(e.l) \o <<"|">> \o Written(e.r)
    [] OTHER -> Append(InRep(e.e), e.op)

\* alike[ch]: the characters that ch matches in an expression.
RECURSIVE Ends(_, _, _, _), Closure(_, _, _, _)
Ends(e, w, i, alike) ==
  CASE e.op = "lit" -> IF i <= Len(w) /\ w[i] \in alike[e.char] THEN {i + 1} ELSE {}
    [] e.op = "set" -> IF i <= Len(w) /\ w[i] \in e.chars THEN {i + 1} ELSE {}
    [] e.op = "eps" -> {i}
    [] e.op = "cat" -> UNION {Ends(e.r, w, j, alike) : j \in Ends(e.l, w, i, alike)}
    [] e.op = "alt" -> Ends(e.l, w, i, alike) \cup Ends(e.r, w, i, alike)
    [] e.op = "?" -> {i} \cup Ends(e.e, w, i, alike)
    [] e.op = "*" -> Closure(e.e, w, {i}, alike)
    [] e.op = "+" -> Closure(e.e, w, Ends(e.e, w, i, alike), alike)
Closure(e, w, js, alike) ==
  LET more == js \cup UNION {Ends(e, w, j, alike) : j \in js}
  IN  IF more = js THEN js ELSE Closure(e, w, more, alike)

Matches(e, w, alike) == Len(w) + 1 \in Ends(e, w, 1, alike)
\* A match from i on that is not empty.
MatchAt(e, w, i, alike) == \E j \in Ends(e, w, i, alike) : j > i

\* Is there a way through e from i on that runs into the end of w with more of e to go?
RECURSIVE Unfinished(_, _, _, _)
Unfinished(e, w, i, alike) ==
  CASE e.op \in {"lit", "set"} -> i = Len(w) + 1
    [] e.op = "eps" -> FALSE
    [] e.op = "cat" -> \/ Unfinished(e.l, w, i, alike)
                       \/ \E j \in Ends(e.l, w, i, alike) : Unfinished(e.r, w, j, alike)
    [] e.op = "alt" -> Unfinished(e.l, w, i, alike) \/ Unfinished(e.r, w, i, alike)
    [] e.op = "?" -> Unfinished(e.e, w, i, alike)
    [] OTHER -> \E j \in {i} \cup Closure(e.e, w, Ends(e.e, w, i, alike), alike) : Unfinished(e.e, w, j, alike)
=============================================================================

------------------------------ MODULE MCStrings -----------------------------
(***************************************************************************)
(* Regexes applied to strings, and strings made of strings: the patterns   *)
(* are written for expressions whose meaning is known, so that what the    *)
(* methods return can be judged.                                           *)
(***************************************************************************)
EXTENDS Strings, RegexCompiler, RegexLanguage

a == Lit("a")
b == Lit("b")
Leaf == {a, b}
Two(L, R) == UNION {{Cat(l, r), Alt(l, r)} : l \in L, r \in R}
Repeat(E) == {Rep(q, e) : q \in {"*", "+", "?"}, e \in E}
Small == Leaf \cup Two({a}, Leaf) \cup Repeat({a})

\* Expressions of every shape with up to three letters, and each kind of leaf.
MCExpr ==
  Small \cup Repeat(Two({a}, {b})) \cup Two({a}, Repeat({b})) \cup Two(Repeat({a}), {b})
  \cup {Cat(Cat(a, b), b), Cat(a, Alt(b, Cat(a, b))), Alt(Cat(a, b), Cat(a, a)), Cat(Rep("?", a), Rep("?", b)),
        Rep("*", Rep("+", a)), Rep("+", Alt(Eps, b)), Cat(Rep("*", Alt(a, b)), a), Cat(a, Rep("?", Cat(b, a))),
        Cat(Alt(Eps, a), b), Alt(a, Alt(b, Eps)), Rep("+", Cat(a, Rep("?", b)))}
  \cup {Cat(Set({"a", "b"}, <<"[", "a", "-", "b", "]">>), b), Set({"a", "B"}, <<"[", "^", "b", "]">>),
        Set({"b", "B"}, <<"[", "B", "b", "]">>), Rep("+", Set({"a", "b", "B"}, <<".">>)),
        Cat(Set({"a", "b", "B"}, <<"\\", "w">>), Lit("B")), Alt(Set({}, <<"\\", "d">>), a)}
Meaning == [p \in {Written(e) : e \in MCExpr} |-> CHOOSE e \in MCExpr : Written(e) = p]

\* Patterns no one would write on purpose; they compile all the same.
Malformed == {<<"(", "a">>, <<"a", ")", "b">>, <<"*", "a">>, <<"a", "|", "|", "b">>, <<>>, <<"[", "a">>}
MCCompiled == [p \in DOMAIN Meaning \cup Malformed |-> rgx_compile(p)]
MCFlagSet == {{}, {"g", "i"}}

MCSubject == {<<>>, <<"a">>, <<"b", "b">>, <<"a", "B">>, <<"a", "a", "b">>, <<"a", "b", "b">>, <<"a", "b", "a">>, <<"b", "a", "b">>}
MCReplacement == {[callback |-> "none", text |-> t] : t \in {<<>>, <<"b", "b", "b">>}}
                 \cup {[callback |-> "same", text |-> <<>>]}
MCWord == {<<>>, <<"a">>, <<"a", "B">>, <<"a", "b", "a">>, <<"b", "b", "b", "a">>}
MCArgument == {<<>>, <<"a">>, <<"b", "b">>, <<"B", "a">>}

\* Strings are compared with their documentation where nothing in them is an escape.
ASSUME PlainAssumption == PlainInputs

-----------------------------------------------------------------------------

\* One object at a time: the pattern of the others is empty, or the string.
MCStringInit == StringInit /\ (rgx.pattern = <<>> \/ Contents = <<>>)
MCStringNext == \/ rgx.pattern # <<>> /\ \E w \in Subject : CallsRegex(w)
                \/ rgx.pattern = <<>> /\ MakesString

-----------------------------------------------------------------------------

Known == rgx.pattern \in DOMAIN Meaning
Means == Meaning[rgx.pattern]
Alike == [ch \in Char |-> IF "i" \in rgx.flags /\ ch \in Letter
                          THEN {d \in Letter : rgx_lower(ch) = rgx_lower(d)} ELSE {ch}]
Hits(w) == {i \in DOMAIN w : MatchAt(Means, w, i, Alike)}
\* No run of the automaton from inside w is still going on at its end.
Settled(w) == \A i \in DOMAIN w : ~Unfinished(Means, w, i, Alike)

\* matches(s, yes) tells whether all of s is in the language of the pattern,
\* whatever the regex was used for before (stl_regex.c:61-78, regex.c:850).
MatchesWhatItMeans ==
  Known /\ call.ready /\ call.op = "matches" =>
    (call.result <=> call.arg # <<>> /\ Matches(Means, call.arg, Alike))

\* search and matches(s) never miss a match: where one begins, the index they
\* return is there or before.  They return an earlier one, or one where there is
\* no match at all, only if the automaton is left running at the end of s: it is
\* not emptied before the next start (regex.c:822).
SearchFindsMatch ==
  LET w == call.arg
      Within(i, hits, settled) ==
        IF hits = {} THEN i = -1 \/ (~settled /\ i \in 0..Len(w)-1)
        ELSE i \in 0..Min(hits)-1 /\ (settled => i = Min(hits) - 1)
      Somewhere(hits, settled) == /\ hits # {} => call.result
                                  /\ settled /\ call.result => hits # {}
  IN  Known /\ call.ready =>
        /\ call.op = "search" => Within(call.result, Hits(w), Settled(w))
        /\ call.op = "matches_any" => Somewhere(Hits(w), Settled(w))

\* With g the spans of the matches cover every place a match begins, without it
\* the first one; and unless the automaton is left running, each begins with a
\* match (regex.c:720).
SpansHoldMatches ==
  LET spans == call.result.spans
      covered(i) == \E k \in DOMAIN spans : spans[k][1] < i /\ i <= EndOf(spans[k])
      Held(hits) == \A i \in hits : covered(i) \/ ("g" \notin rgx.flags /\ i # Min(hits))
      Begun(hits) == \A k \in DOMAIN spans : spans[k][1] + 1 \in hits
  IN  Known /\ call.ready /\ call.op \in Collects =>
        /\ Held(Hits(call.arg))
        /\ Settled(call.arg) => Begun(Hits(call.arg))
=============================================================================

------------------------------- MODULE Regex -------------------------------
(***************************************************************************)
(* regex.c, second half: the simulation of the automaton, and the methods  *)
(* of Regex objects (stl_regex.c).  A call runs to its end, and what it    *)
(* leaves behind in the compiled regex is what the next call starts from:  *)
(* listit of every state (the generation of the list it was last put in)   *)
(* and listgen.  A list is the set of states in it and the number of       *)
(* entries, which exceeds the set when a state is in it twice.             *)
(***************************************************************************)
EXTENDS Automata, FiniteSets, SequencesExt

CONSTANTS
  Compiled,    \* what rgx_compile makes of each pattern that regexes are made of
  FlagSet,     \* the flags they are made with: subsets of {"i", "g"}
  Subject,     \* the strings they are applied to
  MaxCalls     \* bound on the number of calls

Pattern == DOMAIN Compiled

ASSUME RegexAssumption == /\ \A p \in Pattern : IsAutomaton(Compiled[p])
                          /\ FlagSet \subseteq SUBSET {"i", "g"}
                          /\ Subject \subseteq Seq(Char)
                          /\ MaxCalls \in Nat

VARIABLES
  rgx,      \* the regex: pattern, flags and automaton; listit, listgen
  call      \* the last call: [op, arg, result, peak, ready, nr]; peak is the longest list
            \* it made, ready tells whether it found no state marked as listed already
regexVars == <<rgx, call>>

\* The regex while a call runs: curr_list, matched, and the longest list so far;
\* and what is left of it behind the call.
Empty == [mem |-> {}, ct |-> 0]
Started(r) == [pattern |-> r.pattern, flags |-> r.flags, states |-> r.states, start |-> r.start,
               listit |-> r.listit, listgen |-> r.listgen, curr |-> Empty, matched |-> FALSE, peak |-> 0]
Stopped(m) == [pattern |-> m.pattern, flags |-> m.flags, states |-> m.states, start |-> m.start,
               listit |-> m.listit, listgen |-> m.listgen]

\* The states rgx_add_state visits when it is called on each of "from" in turn:
\* it leaves out those already in the list of this generation.
Ahead(m, s) == CASE m.states[s].c = SPLIT -> {m.states[s].out, m.states[s].out_alt}
                 [] m.states[s].c = NONE -> {m.states[s].out}
                 [] OTHER -> {}
Unlisted(m, S) == {s \in S : m.listit[s] # m.listgen}
Visited(m, from) ==
  LET upto[k \in 0..Len(m.states)] ==
        IF k = 0 THEN Unlisted(m, from)
        ELSE UNION {{s} \cup Unlisted(m, Ahead(m, s)) : s \in upto[k - 1]}
  IN  upto[Len(m.states)]

\* "kept" are those of the visited states "new" that enter the list.
Marked(m, new) == [m EXCEPT !.listit = [s \in DOMAIN @ |-> IF s \in new THEN m.listgen ELSE @[s]]]
Kept(m, new) == {s \in new : m.states[s].c \notin {SPLIT, NONE}}
Listed(m, list, kept) ==
  [m EXCEPT !.curr = [mem |-> list.mem \cup kept, ct |-> list.ct + Cardinality(kept)],
            !.matched = @ \/ \E s \in kept : m.states[s].c = MATCH,
            !.peak = IF @ < list.ct + Cardinality(kept) THEN list.ct + Cardinality(kept) ELSE @]
rgx_add_state(m, list, from) ==
  LET Added(new) == Listed(Marked(m, new), list, Kept(m, new)) IN Added(Visited(m, from))

AddStart(m) == rgx_add_state(m, m.curr, {m.start})

rgx_test_class(cls, ch) ==
  cls.negate # \E i \in DOMAIN cls.ranges :
                  Code[cls.ranges[i][1]] <= Code[ch] /\ Code[ch] <= Code[cls.ranges[i][2]]

Lower == [ch \in {"A", "B", "N", "Z"} |->
            CASE ch = "A" -> "a" [] ch = "B" -> "b" [] ch = "N" -> "n" [] ch = "Z" -> "z"]
rgx_lower(ch) == IF ch \in DOMAIN Lower THEN Lower[ch] ELSE ch
Letter == DOMAIN Lower \cup Range(Lower)

rgx_test(s, ch, flags) ==
  CASE s.c = ANY -> TRUE
    [] s.c = CHRCLS -> rgx_test_class(s.chrcls, ch)
    [] s.c = MATCH -> FALSE
    [] OTHER -> \/ s.c = ch
                \/ "i" \in flags /\ ch \in Letter /\ rgx_lower(s.c) = rgx_lower(ch)

\* The states that follow those of the list that accept ch.
Followers(m, ch) == {m.states[s].out : s \in {t \in m.curr.mem : rgx_test(m.states[t], ch, m.flags)}}

\* A mutant: the next list is of the same generation.
rgx_step_same(m, ch) == rgx_add_state([m EXCEPT !.matched = FALSE], Empty, Followers(m, ch))

\* A mutant: the list that is filled is not emptied first.
rgx_step_appending(m, ch) ==
  rgx_add_state([m EXCEPT !.listgen = @ + 1, !.matched = FALSE], [mem |-> {}, ct |-> m.curr.ct], Followers(m, ch))

\* The next list is filled, and the lists change places.
rgx_step(m, ch) == rgx_add_state([m EXCEPT !.listgen = @ + 1, !.matched = FALSE], Empty, Followers(m, ch))

\* A mutant: the marks stay.
rgx_reset_none(m) == m

rgx_reset_all(m) == [m EXCEPT !.listit = [s \in DOMAIN @ |-> 0]]

rgx_matches(r, input) ==
  LET read[n \in 0..Len(input)] ==
        IF n = 0 THEN [AddStart(Started(r)) EXCEPT !.matched = FALSE] ELSE rgx_step(read[n - 1], input[n])
      Ended(m) == [result |-> m.matched, m |-> rgx_reset_all(m)]
  IN  Ended(read[Len(input)])

\* One run of the automaton over the input from i on: to the first match if
\* "first" is set, or else until it is dead.  len is the number of characters it
\* has got through, hit tells whether it has matched.
Advanced(t, n) == [m |-> n, hit |-> t.hit \/ n.matched, dead |-> n.curr.ct = 0,
                   len |-> IF n.curr.ct = 0 THEN t.len ELSE t.len + 1]
Continued(t, ch, first) == IF t.dead \/ (first /\ t.hit) THEN t ELSE Advanced(t, rgx_step(t.m, ch))
Run(m, input, i, first) ==
  LET ran[n \in 0..Len(input) - i + 1] ==
        IF n = 0 THEN [m |-> m, hit |-> FALSE, dead |-> FALSE, len |-> 0]
        ELSE Continued(ran[n - 1], input[i + n - 1], first)
  IN  ran[Len(input) - i + 1]

\* A mutant: the start states are listed for the first place only.
SearchedAt_once(s, input, i) ==
  LET tried(t) == [m |-> t.m, result |-> IF t.hit THEN i - 1 ELSE -1]
  IN  IF s.result >= 0 THEN s ELSE tried(Run(s.m, input, i, TRUE))

SearchedAt(s, input, i) ==
  LET tried(t) == [m |-> t.m, result |-> IF t.hit THEN i - 1 ELSE -1]
  IN  IF s.result >= 0 THEN s ELSE tried(Run(AddStart(s.m), input, i, TRUE))
rgx_search(r, input) ==
  LET searched[i \in 0..Len(input)] ==
        IF i = 0 THEN [m |-> AddStart(Started(r)), result |-> -1] ELSE SearchedAt(searched[i - 1], input, i)
      Ended(s) == [result |-> s.result, m |-> rgx_reset_all(s.m)]
  IN  Ended(searched[Len(input)])

\* A mutant: every place is tried, those inside a span too.
CollectedAt_overlapping(s, input, i) ==
  LET tried(t) == IF t.hit THEN [m |-> t.m, spans |-> Append(s.spans, <<i - 1, t.len>>), from |-> i]
                  ELSE [s EXCEPT !.m = t.m]
  IN  IF s.spans # <<>> /\ "g" \notin s.m.flags THEN s
      ELSE tried(Run(AddStart(rgx_reset_all(s.m)), input, i, FALSE))

\* A mutant: the place behind a span is passed over.
CollectedAt_skipping(s, input, i) ==
  LET tried(t) == IF t.hit THEN [m |-> t.m, spans |-> Append(s.spans, <<i - 1, t.len>>), from |-> i + t.len + 1]
                  ELSE [s EXCEPT !.m = t.m]
  IN  IF i < s.from \/ (s.spans # <<>> /\ "g" \notin s.m.flags) THEN s
      ELSE tried(Run(AddStart(rgx_reset_all(s.m)), input, i, FALSE))

\* The spans <<index, length>> of the matches; "from" is where the loop has got to.
CollectedAt(s, input, i) ==
  LET tried(t) == IF t.hit THEN [m |-> t.m, spans |-> Append(s.spans, <<i - 1, t.len>>), from |-> i + t.len]
                  ELSE [s EXCEPT !.m = t.m]
  IN  IF i < s.from \/ (s.spans # <<>> /\ "g" \notin s.m.flags) THEN s
      ELSE tried(Run(AddStart(rgx_reset_all(s.m)), input, i, FALSE))
rgx_collect_matches(r, input) ==
  LET collected[i \in 0..Len(input)] ==
        IF i = 0 THEN [m |-> AddStart(Started(r)), spans |-> <<>>, from |-> 1]
        ELSE CollectedAt(collected[i - 1], input, i)
      Ended(s) == [result |-> s.spans, m |-> s.m]
  IN  Ended(collected[Len(input)])

-----------------------------------------------------------------------------

stlrgx_common_init(pattern, flags) ==
  LET Fresh(regex) == [pattern |-> pattern, flags |-> flags, states |-> regex.states, start |-> regex.start,
                       listit |-> [s \in DOMAIN regex.states |-> -1], listgen |-> 0]
  IN  Fresh(Compiled[pattern])

NoCall == [op |-> "none", arg |-> <<>>, result |-> <<>>, peak |-> 0, ready |-> TRUE, nr |-> 0]

RegexInit == /\ rgx \in {stlrgx_common_init(p, f) : p \in Pattern, f \in FlagSet}
             /\ call = NoCall

\* A state that carries the current generation is not listed again.  A call that
\* collects resets the marks itself, which helps unless the generation is 0.
Unmarked(r) == \A s \in DOMAIN r.states : r.listit[s] # r.listgen
Collects == {"find", "split", "replacing"}

\* What a call leaves in the regex, and what it has returned.
Answers(op, w, ran, result) ==
  /\ call.nr < MaxCalls
  /\ rgx' = Stopped(ran.m)
  /\ call' = [op |-> op, arg |-> w, result |-> result, peak |-> ran.m.peak, nr |-> call.nr + 1,
              ready |-> Unmarked(rgx) \/ (op \in Collects /\ rgx.listgen > 0)]

stlrgx_matches(w, fuzzy) ==
  LET Whole(ran) == Answers("matches", w, ran, ran.result)
      Somewhere(ran) == Answers("matches_any", w, ran, ran.result >= 0)
  IN  IF fuzzy THEN Whole(rgx_matches(rgx, w)) ELSE Somewhere(rgx_search(rgx, w))

stlrgx_search(w) ==
  LET Index(ran) == Answers("search", w, ran, ran.result) IN Index(rgx_search(rgx, w))
=============================================================================

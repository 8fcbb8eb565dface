--------------------------- MODULE RegexCompiler ---------------------------
(***************************************************************************)
(* regex.c, first half: the recursive descent parser of patterns (rgxc_)   *)
(* and the construction of the automaton (rgxb_).  A pattern is a sequence *)
(* of one-character strings.  The parser's input is what is left of the    *)
(* pattern; what it takes for an error is noted in a field nobody reads,   *)
(* so that every pattern compiles.                                         *)
(***************************************************************************)
EXTENDS Automata

peek(in) == IF in = <<>> THEN NUL ELSE Head(in)
eat(in, expect) == IF peek(in) = expect THEN Tail(in) ELSE in

Parsed(n, in) == [node |-> n, rest |-> in]
Or(l, r) == [type |-> "RAN_OR", first |-> l, second |-> r]
Sequence(l, r) == [type |-> "RAN_SEQUENCE", first |-> l, second |-> r]
Looped(t, e) == [type |-> t, loop |-> e]
Base(ch) == [type |-> "RAN_BASE", c |-> ch]
RangeClass(neg, rs) == [type |-> "RAN_CLASS", node |-> [negate |-> neg, ranges |-> rs]]
Blank == [type |-> "RAN_BLANK"]

Quantifier == [q \in {"*", "+", "?"} |->
                 CASE q = "*" -> "RAN_REPETION"
                   [] q = "+" -> "RAN_AT_LEAST_ONE"
                   [] q = "?" -> "RAN_ONE_OR_NONE"]

\* A range is a pair of characters; a single character is a range of its own.
Single(ch) == <<ch, ch>>
rgxc_predefined_class(ch) ==
  CASE ch \in {"d", "D"} -> RangeClass(ch = "D", << <<"0", "9">> >>)
    [] ch \in {"s", "S"} -> RangeClass(ch = "S", <<Single(" "), Single("\t"), Single("\n")>>)
    [] ch \in {"w", "W"} -> RangeClass(ch = "W", << <<"a", "z">>, <<"A", "Z">>, <<"0", "9">>, Single("_")>>)

rgxc_class_next(in) ==
  IF Head(in) # "\\" THEN [char |-> Head(in), escape |-> FALSE, rest |-> Tail(in)]
  ELSE [char |-> in[2], escape |-> TRUE, rest |-> Tail(Tail(in))]

\* The loop of rgxc_class: "pending" is a character read but not yet in the
\* class, since a minus may follow it.
RECURSIVE ClassRanges(_, _, _)
ClassRanges(in, pending, ranges) ==
  IF in = <<>> \/ peek(in) = "]"
  THEN [ranges |-> Append(ranges, Single(pending)), rest |-> in]
  ELSE LET n == rgxc_class_next(in)
           upto == <<pending, peek(n.rest)>>
           after == Tail(n.rest)
       IN  IF n.char # "-" \/ n.escape
           THEN ClassRanges(n.rest, n.char, Append(ranges, Single(pending)))
           ELSE IF peek(after) = "]"
                THEN [ranges |-> Append(ranges, upto), rest |-> after]
                ELSE LET m == rgxc_class_next(after)
                     IN  ClassRanges(m.rest, m.char, Append(ranges, upto))

rgxc_class(in) ==
  LET negate == peek(in) = "^"
      body == IF negate THEN Tail(in) ELSE in
      read == ClassRanges(Tail(body), Head(body), <<>>)
  IN  Parsed(RangeClass(negate, read.ranges), read.rest)

RECURSIVE rgxc_regex(_), rgxc_term(_, _), Quantified(_)

rgxc_base(in) ==
  CASE peek(in) = "(" ->
         LET r == rgxc_regex(Tail(in)) IN Parsed(r.node, eat(r.rest, ")"))
    [] peek(in) = "\\" ->
         Parsed(IF in[2] \in {"d", "D", "s", "S", "w", "W"}
                THEN rgxc_predefined_class(in[2])
                ELSE Base(in[2]), Tail(Tail(in)))
    [] peek(in) = "[" ->
         LET r == rgxc_class(Tail(in)) IN Parsed(r.node, eat(r.rest, "]"))
    [] OTHER ->
         Parsed(Base(IF peek(in) = "." THEN "ANY" ELSE peek(in)), Tail(in))

Quantified(p) ==
  IF peek(p.rest) \in DOMAIN Quantifier
  THEN Quantified(Parsed(Looped(Quantifier[peek(p.rest)], p.node), Tail(p.rest)))
  ELSE p
rgxc_factor(in) == Quantified(rgxc_base(in))

rgxc_term(factor, in) ==
  IF in = <<>> \/ peek(in) \in {"|", ")"}
  THEN Parsed(factor, in)
  ELSE LET next == rgxc_factor(in) IN rgxc_term(Sequence(factor, next.node), next.rest)

rgxc_regex(in) ==
  LET term == rgxc_term(Blank, in)
  IN  IF peek(term.rest) # "|" THEN term
      ELSE LET r == rgxc_regex(Tail(term.rest)) IN Parsed(Or(term.node, r.node), r.rest)

-----------------------------------------------------------------------------
(* The automaton.  States are numbered in the order they are built, 0 is   *)
(* NULL.  A fragment has dangling pointers: fields of states yet to be set. *)

rgxb_build_state(what, cls, outa, outb, states) ==
  Append(states, [c |-> what, chrcls |-> cls, out |-> outa, out_alt |-> outb])

rgxb_patch(states, dangling, s) ==
  [i \in DOMAIN states |->
     [states[i] EXCEPT !.out = IF <<i, "out">> \in dangling THEN s ELSE @,
                       !.out_alt = IF <<i, "out_alt">> \in dangling THEN s ELSE @]]

Fragment(first, dangling, sts) == [start |-> first, out |-> dangling, states |-> sts]

RECURSIVE rgxb_build(_, _)

\* The states for one character, class or blank: built, their out dangling.
rgxb_leaf(what, cls, states) ==
  LET s == Len(states) + 1
  IN  Fragment(s, {<<s, "out">>}, rgxb_build_state(what, cls, 0, 0, states))

rgxb_or(node, states) ==
  LET left == rgxb_build(node.first, states)
      right == rgxb_build(node.second, left.states)
  IN  Fragment(Len(right.states) + 1, left.out \cup right.out,
               rgxb_build_state(SPLIT, <<>>, left.start, right.start, right.states))

rgxb_sequence(node, states) ==
  LET left == rgxb_build(node.first, states)
      right == rgxb_build(node.second, left.states)
  IN  Fragment(left.start, right.out, rgxb_patch(right.states, left.out, right.start))

rgxb_repetition(node, states) ==
  LET e == rgxb_build(node.loop, states)
      s == Len(e.states) + 1
  IN  Fragment(s, {<<s, "out_alt">>},
               rgxb_patch(rgxb_build_state(SPLIT, <<>>, e.start, 0, e.states), e.out, s))

rgxb_at_least_one(node, states) ==
  LET rep == rgxb_repetition(node, states)
  IN  Fragment(rgxb_build(node.loop, states).start, rep.out, rep.states)

rgxb_one_or_none(node, states) ==
  LET e == rgxb_build(node.loop, states)
      s == Len(e.states) + 1
  IN  Fragment(s, e.out \cup {<<s, "out_alt">>},
               rgxb_build_state(SPLIT, <<>>, e.start, 0, e.states))

rgxb_build(node, states) ==
  CASE node.type = "RAN_OR" -> rgxb_or(node, states)
    [] node.type = "RAN_SEQUENCE" -> rgxb_sequence(node, states)
    [] node.type = "RAN_BASE" -> rgxb_leaf(node.c, <<>>, states)
    [] node.type = "RAN_CLASS" -> rgxb_leaf(CHRCLS, node.node, states)
    [] node.type = "RAN_REPETION" -> rgxb_repetition(node, states)
    [] node.type = "RAN_AT_LEAST_ONE" -> rgxb_at_least_one(node, states)
    [] node.type = "RAN_ONE_OR_NONE" -> rgxb_one_or_none(node, states)
    [] node.type = "RAN_BLANK" -> rgxb_leaf(NONE, <<>>, states)

\* The state that matches comes last, behind all that is left dangling.
Completed(frag) ==
  LET match == Len(frag.states) + 1
  IN  [start |-> frag.start,
       states |-> rgxb_patch(rgxb_build_state(MATCH, <<>>, 0, 0, frag.states), frag.out, match)]

rgx_compile(pattern) == Completed(rgxb_build(rgxc_regex(pattern).node, <<>>))
=============================================================================

----------------------------- MODULE Structured -----------------------------
(***************************************************************************)
(* What a program means: an evaluator of the tree that knows nothing of    *)
(* tapes, stacks, jumps, slots or handlers.  It is the specification the   *)
(* compiler, the analyzer and the machine implement together.              *)
(*                                                                         *)
(* An activation has a scope of its own.  A name is the innermost scope's  *)
(* that has it, from the activation's own outwards.  Assigning to a name   *)
(* no function's scope has enters it in the own one: functions see the     *)
(* variables of the main program, and do not assign to them.               *)
(***************************************************************************)
EXTENDS Values, Syntax, SequencesExt

\* A result r: the cells, what was printed, the steps left, how evaluation
\* ended ("ok", "break", "continue", "return", "raise", "stuck") and with
\* which value.
Ok(r, v) == [r EXCEPT !.sig = "ok", !.val = v]
Signal(r, sig, v) == [r EXCEPT !.sig = sig, !.val = v]

\* A new cell, and the value that refers to it.
New(r, kind, cell) == Ok([r EXCEPT !.cells = Append(@, cell)], Val(kind, Len(r.cells) + 1))
RaiseNew(r, members) == [New(r, "error", [members |-> members]) EXCEPT !.sig = "raise"]

Has(r, at, name) == name \in DOMAIN r.cells[at].members
PutMember(r, at, name, v) == [r EXCEPT !.cells[at].members = (name :> v) @@ @]

\* env: the addresses of the scopes, the own one last.
Owner(r, env, name) ==
  LET having == {i \in DOMAIN env : Has(r, env[i], name)}
  IN  IF having = {} THEN 0 ELSE env[Max(having)]

Store(r, env, name, v) ==
  LET owner == Owner(r, Tail(env), name)
  IN  PutMember(r, IF owner = 0 THEN Last(env) ELSE owner, name, v)

Fetch(r, env, name) ==
  IF Owner(r, env, name) = 0 THEN RaiseNew(r, << >>)
  ELSE Ok(r, r.cells[Owner(r, env, name)].members[name])

GetMember(r, obj, name) ==
  IF obj.kind \in {"object", "error"} /\ Has(r, obj.at, name)
    THEN Ok(r, r.cells[obj.at].members[name]) ELSE RaiseNew(r, << >>)

SetMember(r, obj, name, v) == Ok(IF obj.kind = "int" THEN r ELSE PutMember(r, obj.at, name, v), v)

Indexable(r, arr, idx) == arr.kind = "array" /\ idx.at < Len(r.cells[arr.at].items)

GetIndex(r, arr, idx) ==
  IF Indexable(r, arr, idx) THEN Ok(r, r.cells[arr.at].items[idx.at + 1]) ELSE RaiseNew(r, << >>)

SetIndex(r, arr, idx, v) ==
  IF Indexable(r, arr, idx) THEN Ok([r EXCEPT !.cells[arr.at].items[idx.at + 1] = v], v)
  ELSE RaiseNew(r, << >>)

Shown(r, v) == IF v.kind # "error" THEN v
               ELSE IF Has(r, v.at, "custom_") THEN r.cells[v.at].members["custom_"] ELSE NULL

Operator(opt, a, b) ==
  Binary(CASE opt = "+" -> "BINARY_ADD" [] opt = "-" -> "BINARY_SUBTRACT"
           [] opt = "l" -> "BINARY_LT" [] opt = "E" -> "BINARY_EQUAL", a, b)

-----------------------------------------------------------------------------
RECURSIVE Eval(_, _, _), EvalList(_, _, _, _), Run(_, _, _), RunArms(_, _, _)
RECURSIVE Repeat(_, _, _), Each(_, _, _, _, _)

\* The expressions of a list, in order: the last result, and all the values in val.
EvalList(r, env, list, values) ==
  IF list = << >> THEN Ok(r, values)
  ELSE LET one == Eval(r, env, Head(list))
       IN  IF one.sig # "ok" THEN one ELSE EvalList(one, env, Tail(list), Append(values, one.val))

\* A block: the statements in order, up to the first that does not end well.
Run(r, env, block) ==
  IF block = << >> THEN Ok(r, Nil)
  ELSE LET one == Eval(r, env, Head(block))
       IN  IF one.sig # "ok" THEN one ELSE Run(one, env, Tail(block))

RunArms(r, env, arms) ==
  IF arms = << >> THEN Ok(r, Nil)
  ELSE IF Head(arms).condition = Absent THEN Run(r, env, Head(arms).payload)
  ELSE LET cond == Eval(r, env, Head(arms).condition)
       IN  IF cond.sig # "ok" THEN cond
           ELSE IF Truthy(cond.val) THEN Run(cond, env, Head(arms).payload)
           ELSE RunArms(cond, env, Tail(arms))

\* After the body of a loop: does the loop go on?
GoesOn(body) == body.sig \in {"ok", "continue"}
AfterLoop(body) == IF body.sig = "break" THEN Ok(body, Nil) ELSE body

\* A loop whose initial part is done.
Repeat(r, env, loop) ==
  LET cond == Eval(r, env, loop.condition)
  IN  IF r.fuel = 0 THEN Signal(r, "stuck", Nil)
      ELSE IF cond.sig # "ok" THEN cond
      ELSE IF ~Truthy(cond.val) THEN Ok(cond, Nil)
      ELSE LET body == Run([cond EXCEPT !.fuel = @ - 1], env, loop.payload)
               step == IF loop.onloop = Absent THEN Ok(body, Nil) ELSE Eval(Ok(body, Nil), env, loop.onloop)
           IN  IF ~GoesOn(body) THEN AfterLoop(body)
               ELSE IF step.sig # "ok" THEN step
               ELSE Repeat(step, env, loop)

\* The elements of an array, whatever the body does to it, from the i-th on.
Each(r, env, loop, arr, i) ==
  IF i > Len(r.cells[arr.at].items) THEN Ok(r, Nil)
  ELSE LET stored == Store(r, env, loop.store, r.cells[arr.at].items[i])
           indexed == IF loop.index = "" THEN stored ELSE Store(stored, env, loop.index, Num(i - 1))
           body == Run(indexed, env, loop.payload)
       IN  IF GoesOn(body) THEN Each(Ok(body, Nil), env, loop, arr, i + 1) ELSE AfterLoop(body)

\* A call of a function, whose arguments are in order.
Apply(r, fn, args) ==
  LET f == r.cells[fn.at]
      argument(p) == LET i == Max({j \in DOMAIN f.params : f.params[j] = p})
                     IN  IF i <= Len(args) THEN args[i] ELSE Nil
      more == New(r, "array", [items |-> SubSeq(args, Len(f.params) + 1, Len(args))])
      rest == IF Len(args) > Len(f.params) THEN more ELSE Ok(r, Nil)
      scope == New(rest, "object", [members |-> ("va_args_" :> rest.val) @@
                                                [p \in ToSet(f.params) |-> argument(p)]])
      body == Run([scope EXCEPT !.fuel = @ - 1], Append(f.env, scope.val.at), f.body)
  IN  IF r.fuel = 0 THEN Signal(r, "stuck", Nil)
      ELSE IF body.sig = "return" THEN Ok(body, body.val) ELSE body

EvalUnary(r, env, node) ==
  LET e == IF node.target = Absent THEN Ok(r, Nil) ELSE Eval(r, env, node.target)
  IN  IF e.sig # "ok" THEN e
      ELSE CASE node.opt = "p" -> Ok([e EXCEPT !.out = Append(@, Shown(e, e.val))], Nil)
             [] node.opt = "r" -> Signal(e, "return", e.val)
             [] node.opt = "t" -> RaiseNew(e, "custom_" :> e.val)
             [] node.opt = "!" -> Ok(e, Negated(e.val))
             [] node.opt = "0" -> Ok(e, Nil)
             [] node.opt = "1" -> New(e, "object", [members |-> << >>])
             [] node.opt \in {"Y", "N"} -> Ok(e, Bool(node.opt = "Y"))

EvalAssign(r, env, left, right) ==
  LET parts == CASE left.type = "VVAR" -> << >>
                 [] left.type = "AMEMBER_ACCESS" -> <<left.object>>
                 [] left.type = "AINDEX" -> <<left.target, left.indexer>>
      e == EvalList(r, env, <<right>> \o parts, << >>)
      v == e.val
  IN  IF e.sig # "ok" THEN e
      ELSE CASE left.type = "VVAR" -> Ok(Store(e, env, left.name, v[1]), v[1])
             [] left.type = "AMEMBER_ACCESS" -> SetMember(e, v[2], left.name, v[1])
             [] left.type = "AINDEX" -> SetIndex(e, v[2], v[3], v[1])

\* target op= value: what the target is made of is evaluated once.
EvalTriple(r, env, node) ==
  LET t == node.target
      indexed == t.type = "AINDEX"
      e == EvalList(r, env, IF indexed THEN <<t.target, t.indexer>> ELSE <<t.object>>, << >>)
      old == IF indexed THEN GetIndex(e, e.val[1], e.val[2]) ELSE GetMember(e, e.val[1], t.name)
      new == Eval(old, env, node.new_val)
      v == Operator(node.opt, old.val, new.val)
  IN  IF e.sig # "ok" THEN e ELSE IF old.sig # "ok" THEN old ELSE IF new.sig # "ok" THEN new
      ELSE IF indexed THEN SetIndex(new, e.val[1], e.val[2], v)
      ELSE SetMember(new, e.val[1], t.name, v)

\* The members are evaluated before the object they go to is, unless they
\* call it by a name, which only they can see.
EvalObject(r, env, node) ==
  LET named == node.type = "ANAMED_OBJECT"
      fresh(s) == IF node.obj = Absent THEN New(s, "object", [members |-> << >>]) ELSE Eval(s, env, node.obj)
      object == fresh(r)
      scope == New(object, "object", [members |-> node.refname :> object.val])
      inner == IF named THEN Append(env, scope.val.at) ELSE env
      values == EvalList(IF named THEN scope ELSE r, inner, [i \in DOMAIN node.payload |-> node.payload[i][2]], << >>)
      target == IF named THEN Ok(values, object.val) ELSE fresh(values)
      names == {node.payload[i][1] : i \in DOMAIN node.payload}
      first(n) == Min({i \in DOMAIN node.payload : node.payload[i][1] = n})
  IN  IF named /\ object.sig # "ok" THEN object
      ELSE IF values.sig # "ok" THEN values
      ELSE IF target.sig # "ok" THEN target
      ELSE [target EXCEPT !.cells[target.val.at].members = [n \in names |-> values.val[first(n)]] @@ @]

Eval(r, env, node) ==
  CASE node.type = "AVALUE" -> Ok(r, Num(node.value))
    [] node.type = "VVAR" -> Fetch(r, env, node.name)
    [] node.type = "AUNARY" -> EvalUnary(r, env, node)
    [] node.type = "ABINARY" /\ node.opt = "=" -> EvalAssign(r, env, node.left, node.right)
    [] node.type = "ABINARY" /\ node.opt # "=" ->
         LET e == EvalList(r, env, <<node.left, node.right>>, << >>)
         IN  IF e.sig # "ok" THEN e ELSE Ok(e, Operator(node.opt, e.val[1], e.val[2]))
    [] node.type = "ACOND_CHAIN" ->
         LET e == Eval(r, env, node.left)
         IN  IF e.sig # "ok" \/ Truthy(e.val) = (node.opt = "|") THEN e ELSE Eval(e, env, node.right)
    [] node.type = "ATERNARY" ->
         LET e == Eval(r, env, node.condition)
         IN  IF e.sig # "ok" THEN e ELSE Eval(e, env, IF Truthy(e.val) THEN node.first ELSE node.second)
    [] node.type = "AIF" -> RunArms(r, env, node.arms)
    [] node.type = "ALOOP" ->
         LET e == IF node.init = Absent THEN r ELSE Eval(r, env, node.init)
         IN  IF e.sig # "ok" THEN e ELSE Repeat(e, env, node)
    [] node.type = "AITERLOOP" ->
         LET e == Eval(r, env, node.over)
         IN  IF e.sig # "ok" THEN e ELSE Each(e, env, node, e.val, 1)
    [] node.type = "AONEOFF" -> Signal(r, IF node.opt = "b" THEN "break" ELSE "continue", Nil)
    [] node.type = "ATRYCATCH" ->
         LET e == Run(r, env, node.tryblock)
         IN  IF e.sig # "raise" THEN e
             ELSE Run(Ok(Store(e, env, node.name, e.val), Nil), env, node.catchblock)
    [] node.type = "AFUNC_DECL" ->
         New(r, "function", [params |-> node.params, body |-> node.payload, env |-> env])
    [] node.type = "AFUNC_CALL" ->
         LET e == EvalList(r, env, Append(node.arguments, node.ident), << >>)
         IN  IF e.sig # "ok" THEN e
             ELSE IF Last(e.val).kind = "function" THEN Apply(e, Last(e.val), Front(e.val))
             ELSE Ok(e, NULL)
    [] node.type = "AARRAY" ->
         LET e == EvalList(r, env, node.list, << >>)
         IN  IF e.sig # "ok" THEN e ELSE New(e, "array", [items |-> e.val])
    [] node.type = "AINDEX" ->
         LET e == EvalList(r, env, <<node.target, node.indexer>>, << >>)
         IN  IF e.sig # "ok" THEN e ELSE GetIndex(e, e.val[1], e.val[2])
    [] node.type = "AMEMBER_ACCESS" ->
         LET e == Eval(r, env, node.object)
         IN  IF e.sig # "ok" THEN e ELSE GetMember(e, e.val, node.name)
    [] node.type = "ATRIPLESET" -> EvalTriple(r, env, node)
    [] node.type \in {"AOBJDECL", "ANAMED_OBJECT"} -> EvalObject(r, env, node)

\* What a program prints, and how it ends: "done", "fatal" for an exception
\* nobody catches, "stuck" when it has not ended within the fuel.
Meaning(block, fuel) ==
  LET r == Run([cells |-> <<[members |-> << >>]>>, out |-> << >>, fuel |-> fuel,
                sig |-> "ok", val |-> Nil], <<1>>, block)
  IN  [output |-> r.out,
       outcome |-> CASE r.sig = "raise" -> "fatal" [] r.sig = "stuck" -> "stuck" [] OTHER -> "done"]
=============================================================================

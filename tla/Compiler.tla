------------------------------ MODULE Compiler ------------------------------
(***************************************************************************)
(* The compiler (compiler/ast_compiler.c), from a tree to code objects.    *)
(*                                                                         *)
(* A state st of the compilation is the chain of compiler_wrappers,        *)
(* outermost first, and the code objects finished so far.  A wrapper's     *)
(* owner is its place in the chain: the lists of used names a function     *)
(* inherits mention the wrappers around it and no others.                  *)
(***************************************************************************)
EXTENDS Bytecode, Values, Syntax, SequencesExt

FirstTag == 1000
Filler == -1

\* A wrapper at the start of a unit.
NewWrapper(names, used_names, repl) ==
  [rops |-> << >>, rcon |-> << >>, rnames |-> names, used_names |-> used_names,
   saved_locals |-> << >>, loop_start_stack |-> << >>, loop_end_stack |-> << >>,
   ifTag |-> FirstTag, save_val |-> FALSE, repl |-> repl]

Cw(st) == Last(st.cws)
Me(st) == Len(st.cws)
Here(st) == Len(Cw(st).rops)

Emit(st, bytes) == [st EXCEPT !.cws[Me(st)].rops = @ \o bytes]
EmitOp(st, name) == Emit(st, <<LI[name]>>)
EmitWord(st, name, n) == Emit(st, <<LI[name]>> \o Bytes(n))
EmitTag(st, tag) == Emit(st, <<tag>>)
EmitJump(st, name, tag) == Emit(st, <<LI[name], tag, Filler, Filler, Filler>>)

SaveVal(st, b) == [st EXCEPT !.cws[Me(st)].save_val = b]

\* next_if_tag, n of them: the first is the one the state before had.
Tag(st) == Cw(st).ifTag
TakeTags(st, n) == [st EXCEPT !.cws[Me(st)].ifTag = @ + n]

-----------------------------------------------------------------------------
(* Names.                                                                  *)

NoName == -1

find_prev_name(cw, name) ==
  IF name \in ToSet(cw.rnames)
    THEN (CHOOSE i \in DOMAIN cw.rnames : cw.rnames[i] = name) - 1
    ELSE NoName

\* The name's index in the names of the wrapper at place o, entered if it is new.
NameIndex(st, o, name) ==
  IF find_prev_name(st.cws[o], name) = NoName THEN Len(st.cws[o].rnames)
  ELSE find_prev_name(st.cws[o], name)

Enter(st, o, name) ==
  IF find_prev_name(st.cws[o], name) = NoName
    THEN [st EXCEPT !.cws[o].rnames = Append(@, name)]
    ELSE st

EmitName(st, op, name) == EmitWord(Enter(st, Me(st), name), op, NameIndex(st, Me(st), name))

is_close(cw, idx) == cw.rops[idx] \in {LI["LOAD_CLOSE"], LI["SAVE_CLOSE"]}

\* The use at idx in the wrapper at place o becomes one of the bucket's.
switch_to_close(st, o, name, idx) ==
  IF is_close(st.cws[o], idx) THEN st
  ELSE LET op == IF st.cws[o].rops[idx] = LI["LOAD_LOCAL"] THEN "LOAD_CLOSE" ELSE "SAVE_CLOSE"
           word == <<LI[op]>> \o Bytes(NameIndex(st, o, name))
           before == SubSeq(st.cws[o].rops, 1, idx - 1)
           after == SubSeq(st.cws[o].rops, idx + 5, Len(st.cws[o].rops))
       IN  [Enter(st, o, name) EXCEPT !.cws[o].rops = before \o word \o after]

\* The uses of a name this wrapper knows of, its own and those around it.
Uses(st, name) == SelectSeq(Cw(st).used_names, LAMBDA w : w.name = name)

\* append_var_info: the last use decides.  A first use that loads cannot be a local's.
NeedsClose(st, name, load) ==
  LET uses == Uses(st, name)
  IN  IF uses = << >> THEN Cw(st).repl \/ load
      ELSE Last(uses).owner # Me(st) \/ is_close(Cw(st), Last(uses).idx)

Slot(cw, name) ==
  IF name \in DOMAIN cw.saved_locals THEN cw.saved_locals[name]
  ELSE Cardinality(DOMAIN cw.saved_locals)

append_var_info(st, name, load) ==
  LET others == SelectSeq(Uses(st, name), LAMBDA w : w.owner # Me(st))
      switched == FoldLeft(LAMBDA s, w : switch_to_close(s, w.owner, name, w.idx), st, others)
      slot == Slot(Cw(st), name)
      use == [owner |-> Me(st), name |-> name, idx |-> Here(st) + 1]
  IN  IF NeedsClose(st, name, load)
        THEN EmitName(switched, IF load THEN "LOAD_CLOSE" ELSE "SAVE_CLOSE", name)
        ELSE [EmitWord(switched, IF load THEN "LOAD_LOCAL" ELSE "SAVE_LOCAL", slot) EXCEPT
                !.cws[Me(st)].used_names = Append(@, use),
                !.cws[Me(st)].saved_locals = (name :> slot) @@ @]

-----------------------------------------------------------------------------
(* The end of a unit.                                                      *)

\* A mutant: the address with its highest byte first.
replace_tags_reversed(rops) ==
  LET label(tag) == SelectLastInSeq(rops, LAMBDA op : op = tag)
      byte(i) == Min({k \in 0 .. 3 : i > k /\ rops[i - k] >= FirstTag})
  IN  [i \in DOMAIN rops |->
         IF rops[i] \in 0 .. FirstTag - 1 THEN rops[i]
         ELSE IF rops[i] >= FirstTag /\ label(rops[i]) = i THEN LI["IGNORE"]
         ELSE Bytes(label(rops[i - byte(i)]) - 1)[4 - byte(i)]]

\* The last place a tag is at is its label, and becomes IGNORE; the others
\* are operands of jumps, and become its address.
replace_tags(rops) ==
  LET label(tag) == SelectLastInSeq(rops, LAMBDA op : op = tag)
      byte(i) == Min({k \in 0 .. 3 : i > k /\ rops[i - k] >= FirstTag})
  IN  [i \in DOMAIN rops |->
         IF rops[i] \in 0 .. FirstTag - 1 THEN rops[i]
         ELSE IF rops[i] >= FirstTag /\ label(rops[i]) = i THEN LI["IGNORE"]
         ELSE Bytes(label(rops[i - byte(i)]) - 1)[byte(i) + 1]]

\* compile_ast_ext, once the statements of the unit are compiled: the code
\* object, and the chain without its wrapper.
Finalize(st) ==
  LET cw == Cw(st)
      tagged == replace_tags(cw.rops)
      ends == tagged # << >> /\ Last(tagged) = LI["RETURN"]
      ops == tagged \o (IF ends THEN << >> ELSE <<LI["PUSH_NIL"], LI["RETURN"]>>)
      code == [ops |-> ops, op_len |-> Len(ops), constants |-> cw.rcon, names |-> cw.rnames,
               num_locals |-> Cardinality(DOMAIN cw.saved_locals),
               stack_size |-> calculate_max_stack_depth(ops, Len(ops)),
               catch_size |-> calculate_max_catch_depth(ops, Len(ops))]
  IN  [cws |-> Front(st.cws), codes |-> Append(st.codes, code)]

-----------------------------------------------------------------------------
(* The nodes.                                                              *)

instr_for_char == [c \in {"+", "-", "l", "E"} |->
  CASE c = "+" -> "BINARY_ADD" [] c = "-" -> "BINARY_SUBTRACT"
    [] c = "l" -> "BINARY_LT" [] c = "E" -> "BINARY_EQUAL"]

RECURSIVE compile(_, _), compile_compound(_, _), compile_list(_, _), compile_arms(_, _, _, _)
RECURSIVE compile_cond_ex(_, _, _)

\* Expressions one after the other.
compile_list(st, list) ==
  IF list = << >> THEN st ELSE compile_list(compile(st, Head(list)), Tail(list))

\* Statements: the value of one that leaves a value is dropped.
compile_compound(st, block) ==
  IF block = << >> THEN st
  ELSE LET one == compile(SaveVal(st, FALSE), Head(block))
       IN  compile_compound(IF Cw(one).save_val THEN one ELSE EmitOp(one, "POP"), Tail(block))

\* The initial and the step of a loop are statements too.
compile_part(st, node) ==
  IF node = Absent THEN st
  ELSE SaveVal(compile_compound(st, <<node>>), Cw(st).save_val)

compile_value(st, n) ==
  LET rcon == Cw(st).rcon
      seen == {i \in DOMAIN rcon : rcon[i] = Num(n)}
      idx == IF seen = {} THEN Len(rcon) ELSE Min(seen) - 1
      known == IF seen = {} THEN [st EXCEPT !.cws[Me(st)].rcon = Append(@, Num(n))] ELSE st
  IN  EmitWord(known, "LOAD_CONST", idx)

compile_binary(st, node) ==
  LET left == node.left
      right == compile(st, node.right)
  IN  CASE node.opt # "=" ->
             EmitOp(compile(compile(st, left), node.right), instr_for_char[node.opt])
        [] node.opt = "=" /\ left.type = "AMEMBER_ACCESS" ->
             EmitName(compile(right, left.object), "SAVE_MEMBER", left.name)
        [] node.opt = "=" /\ left.type = "AINDEX" ->
             EmitOp(compile_list(right, <<left.target, left.indexer>>), "SAVE_INDEX")
        [] node.opt = "=" /\ left.type = "VVAR" ->
             append_var_info(right, left.name, FALSE)

\* Print, return and raise leave nothing to drop.
compile_unary(st, node) ==
  LET operand == IF node.target = Absent THEN st ELSE compile(st, node.target)
  IN  CASE node.opt = "p" -> SaveVal(EmitOp(operand, "PRINT"), TRUE)
        [] node.opt = "r" ->
             LET value == IF node.target = Absent THEN EmitOp(operand, "PUSH_NIL") ELSE operand
             IN  SaveVal(EmitOp(value, "RETURN"), TRUE)
        [] node.opt = "t" -> SaveVal(EmitOp(operand, "RAISE"), TRUE)
        [] node.opt = "!" -> EmitOp(operand, "UNARY_NOT")
        [] node.opt = "0" -> EmitOp(operand, "PUSH_NIL")
        [] node.opt = "1" -> EmitOp(operand, "PUSH_NEW_OBJECT")
        [] node.opt \in {"Y", "N"} ->
             Emit(operand, <<LI["PUSH_BOOL"], IF node.opt = "Y" THEN 1 ELSE 0>>)

\* A chain to the right shares the tag of its end.
compile_cond_ex(st, node, tagOut) ==
  LET op == IF node.opt = "|" THEN "JUMP_TRUE_ELSE_POP" ELSE "JUMP_FALSE_ELSE_POP"
      left == EmitJump(compile(st, node.left), op, tagOut)
  IN  IF node.right.type = "ACOND_CHAIN"
        THEN compile_cond_ex(left, node.right, tagOut)
        ELSE EmitTag(compile(left, node.right), tagOut)

compile_ternary(st, node) ==
  LET tagNext == Tag(st)
      tagOut == Tag(st) + 1
      cond == EmitJump(compile(TakeTags(st, 2), node.condition), "JUMP_FALSE", tagNext)
      first == EmitTag(EmitJump(compile(cond, node.first), "JUMP", tagOut), tagNext)
  IN  EmitTag(compile(first, node.second), tagOut)

\* A mutant: no arm jumps over those that follow.
compile_single_if_through(st, arm, tagOut, tagNext) ==
  LET cond == IF arm.condition = Absent THEN st
              ELSE EmitJump(compile(st, arm.condition), "JUMP_FALSE", tagNext)
  IN  compile_compound(cond, arm.payload)

\* compile_single_if: the jump over the arms that follow is left out when
\* there is nothing to jump over.
compile_single_if(st, arm, tagOut, tagNext) ==
  LET cond == IF arm.condition = Absent THEN st
              ELSE EmitJump(compile(st, arm.condition), "JUMP_FALSE", tagNext)
      payload == compile_compound(cond, arm.payload)
  IN  IF tagOut # tagNext /\ arm.condition # Absent
        THEN EmitJump(payload, "JUMP", tagOut) ELSE payload

\* The arms after the first, each at the tag the one before jumps to.
compile_arms(st, arms, tagOut, tagNext) ==
  IF arms = << >> THEN EmitTag(st, tagOut)
  ELSE LET last == Len(arms) = 1
           next == IF last THEN tagOut ELSE Tag(st)
           taken == IF last THEN st ELSE TakeTags(st, 1)
       IN  compile_arms(compile_single_if(EmitTag(taken, tagNext), Head(arms), tagOut, next),
                        Tail(arms), tagOut, next)

compile_if(st, node) ==
  LET tagNext == Tag(st)
      tagOut == Tag(st) + 1
      start == TakeTags(st, 2)
      arms == node.arms
  IN  SaveVal(IF Len(arms) = 1
                THEN EmitTag(compile_single_if(start, arms[1], tagNext, tagNext), tagNext)
                ELSE compile_arms(compile_single_if(start, arms[1], tagOut, tagNext),
                                  Tail(arms), tagOut, tagNext),
              TRUE)

\* The body of a loop, in which break and continue know their tags.
compile_body(st, payload, tagOut, tagLoop) ==
  LET me == Me(st)
      inside == [st EXCEPT !.cws[me].loop_start_stack = Append(@, tagLoop),
                           !.cws[me].loop_end_stack = Append(@, tagOut)]
  IN  [compile_compound(inside, payload) EXCEPT !.cws[me].loop_start_stack = Front(@),
                                                !.cws[me].loop_end_stack = Front(@)]

compile_loop(st, node) ==
  LET tagOut == Tag(st)
      tagLoop == Tag(st) + 1
      init == compile_part(TakeTags(st, 2), node.init)
      cond == EmitJump(compile(init, node.condition), "JUMP_FALSE", tagOut)
      body == EmitTag(compile_body(cond, node.payload, tagOut, tagLoop), tagLoop)
      back == EmitWord(compile_part(body, node.onloop), "JUMP", Here(init))
  IN  SaveVal(EmitTag(back, tagOut), TRUE)

compile_iter_loop(st, node) ==
  LET iter == EmitOp(compile(st, node.over), "MAKE_ITER")
      tagOut == Tag(iter)
      tagLoop == Tag(iter) + 1
      next == EmitJump(TakeTags(iter, 2), "NEXT_ITER_OR_JUMP", tagOut)
      stored == EmitOp(append_var_info(next, node.store, FALSE), "POP")
      indexed == IF node.index = "" THEN stored
                 ELSE EmitOp(append_var_info(EmitOp(stored, "ITER_INDEX"), node.index, FALSE), "POP")
      body == EmitTag(compile_body(indexed, node.payload, tagOut, tagLoop), tagLoop)
      out == EmitTag(EmitWord(body, "JUMP", Here(iter)), tagOut)
  IN  SaveVal(EmitOp(out, "POP"), TRUE)

compile_one_off(st, node) ==
  EmitJump(st, "JUMP", Last(IF node.opt = "c" THEN Cw(st).loop_start_stack ELSE Cw(st).loop_end_stack))

compile_try_catch(st, node) ==
  LET tagCatch == Tag(st)
      tagOut == Tag(st) + 1
      try == compile_compound(EmitJump(TakeTags(st, 2), "PUSH_CATCH", tagCatch), node.tryblock)
      leave == EmitJump(EmitOp(try, "POP_CATCH"), "JUMP", tagOut)
      named == EmitOp(append_var_info(EmitTag(leave, tagCatch), node.name, FALSE), "POP")
  IN  SaveVal(EmitTag(compile_compound(named, node.catchblock), tagOut), TRUE)

compile_triple_set(st, node) ==
  LET target == node.target
      op == instr_for_char[node.opt]
  IN  IF target.type = "AINDEX"
        THEN LET both == compile_list(st, <<target.target, target.indexer>>)
                 old == EmitOp(EmitOp(both, "DDUPLICATE"), "LOAD_INDEX")
             IN  EmitOp(EmitOp(EmitOp(compile(old, node.new_val), op), "SINK_FIRST"), "SAVE_INDEX")
        ELSE LET named == Enter(st, Me(st), target.name)
                 old == EmitName(EmitOp(compile(named, target.object), "SDUPLICATE"),
                                 "LOAD_MEMBER", target.name)
             IN  EmitName(EmitOp(EmitOp(compile(old, node.new_val), op), "FLIP_TWO"),
                          "SAVE_MEMBER", target.name)

\* compile_object: one that names itself is loaded by that name, and all uses
\* of the name so far become the bucket's -- at this unit's places, whosever
\* they are.
compile_object(st, node) ==
  LET me == Me(st)
      ct == Len(node.payload)
      closed == IF node.refname = "" THEN st
                ELSE FoldLeft(LAMBDA s, w : switch_to_close(s, me, node.refname, w.idx),
                              st, Uses(st, node.refname))
      values == compile_list(closed, [i \in 1 .. ct |-> node.payload[i][2]])
      object == CASE node.refname # "" -> EmitName(values, "LOAD_CLOSE", node.refname)
                  [] node.refname = "" /\ node.obj # Absent -> compile(values, node.obj)
                  [] OTHER -> EmitOp(values, "PUSH_NEW_OBJECT")
      named(s, i) == Emit(Enter(s, me, node.payload[i][1]), Bytes(NameIndex(s, me, node.payload[i][1])))
  IN  FoldLeft(named, EmitWord(object, "MAKE_OBJECT", ct), Reverse([i \in 1 .. ct |-> i]))

compile_function(st, node) ==
  LET inner == [st EXCEPT !.cws = Append(@, NewWrapper(node.params, Cw(st).used_names, FALSE))]
      done == Finalize(compile_compound(inner, node.payload))
      idx == Len(Cw(done).rcon)
      known == [done EXCEPT !.cws[Me(st)].rcon = Append(@, Code(Len(done.codes)))]
  IN  Emit(EmitWord(known, "LOAD_CONST", idx), <<LI["MAKE_FUNCTION"], Len(node.params)>>)

compile_function_call(st, node) ==
  Emit(compile(compile_list(st, node.arguments), node.ident),
       <<LI["CALL_FUNC"], Len(node.arguments)>>)

\* There always is a wrapper; that the state is asked for one first makes TLC
\* evaluate it before it descends.
compile(st, node) ==
  CASE st.cws = << >> -> st
    [] node.type = "AVALUE" -> compile_value(st, node.value)
    [] node.type = "VVAR" -> append_var_info(st, node.name, TRUE)
    [] node.type = "ABINARY" -> compile_binary(st, node)
    [] node.type = "AUNARY" -> compile_unary(st, node)
    [] node.type = "ACOND_CHAIN" -> compile_cond_ex(TakeTags(st, 1), node, Tag(st))
    [] node.type = "ATERNARY" -> compile_ternary(st, node)
    [] node.type = "AIF" -> compile_if(st, node)
    [] node.type = "ALOOP" -> compile_loop(st, node)
    [] node.type = "AITERLOOP" -> compile_iter_loop(st, node)
    [] node.type = "AONEOFF" -> compile_one_off(st, node)
    [] node.type = "ATRYCATCH" -> compile_try_catch(st, node)
    [] node.type = "AFUNC_DECL" -> compile_function(st, node)
    [] node.type = "AFUNC_CALL" -> compile_function_call(st, node)
    [] node.type = "AARRAY" ->
         EmitWord(compile_list(st, node.list), "MAKE_ARRAY", Len(node.list))
    [] node.type = "AINDEX" ->
         EmitOp(compile_list(st, <<node.target, node.indexer>>), "LOAD_INDEX")
    [] node.type = "AMEMBER_ACCESS" ->
         EmitName(compile(Enter(st, Me(st), node.name), node.object), "LOAD_MEMBER", node.name)
    [] node.type = "ATRIPLESET" -> compile_triple_set(st, node)
    [] node.type = "AOBJDECL" -> compile_object(st, node)
    [] node.type = "ANAMED_OBJECT" -> compile(st, create_object_decl_node_ex(node))

\* A file, or a line of the REPL: its variables are members of the bucket.
compile_ast_repl(block) ==
  Finalize(compile_compound([cws |-> <<NewWrapper(<< >>, << >>, TRUE)>>, codes |-> << >>],
                            block)).codes
=============================================================================

------------------------------- MODULE Syntax -------------------------------
(***************************************************************************)
(* The tree (compiler/ast.c): one constructor per kind of node, with the   *)
(* desugaring the parser does.  A list of statements is a sequence.        *)
(***************************************************************************)
EXTENDS Sequences

Absent == [type |-> "ABSENT"]

Lit(n) == [type |-> "AVALUE", value |-> n]
Var(x) == [type |-> "VVAR", name |-> x]

\* opt: "+", "-", "l" (less than), "E" (equal), and "=" to a variable, a member or an index
BinaryNode(left, right, opt) == [type |-> "ABINARY", opt |-> opt, left |-> left, right |-> right]
Assign(x, right) == BinaryNode(Var(x), right, "=")
AssignOp(x, right, opt) == Assign(x, BinaryNode(Var(x), right, opt))

\* opt: "p" print, "r" return, "t" raise, "!" not; "0" nil, "1" a new object, "Y" yes, "N" no
UnaryNode(target, opt) == [type |-> "AUNARY", opt |-> opt, target |-> target]

\* opt: "|" or "&"
CondNode(left, right, opt) == [type |-> "ACOND_CHAIN", opt |-> opt, left |-> left, right |-> right]
TernaryNode(cond, first, second) ==
  [type |-> "ATERNARY", condition |-> cond, first |-> first, second |-> second]
NilOr(left, right) == TernaryNode(left, left, right)

\* arms: condition (Absent for the else) and payload of each
Arm(cond, payload) == [condition |-> cond, payload |-> payload]
IfNode(arms) == [type |-> "AIF", arms |-> arms]
LoopNode(init, cond, onloop, payload) ==
  [type |-> "ALOOP", init |-> init, condition |-> cond, onloop |-> onloop, payload |-> payload]
IterLoopNode(store, index, over, payload) ==
  [type |-> "AITERLOOP", store |-> store, index |-> index, over |-> over, payload |-> payload]
OneOff(opt) == [type |-> "AONEOFF", opt |-> opt]
TryCatchNode(tryblock, catchblock, name) ==
  [type |-> "ATRYCATCH", tryblock |-> tryblock, catchblock |-> catchblock, name |-> name]

FuncDecl(params, payload) == [type |-> "AFUNC_DECL", params |-> params, payload |-> payload]
FuncCall(ident, arguments) == [type |-> "AFUNC_CALL", ident |-> ident, arguments |-> arguments]

ArrayNode(list) == [type |-> "AARRAY", list |-> list]
IndexNode(target, indexer) == [type |-> "AINDEX", target |-> target, indexer |-> indexer]
MemberAccess(object, name) == [type |-> "AMEMBER_ACCESS", object |-> object, name |-> name]
TripleSet(target, new_val, opt) ==
  [type |-> "ATRIPLESET", target |-> target, new_val |-> new_val, opt |-> opt]

\* payload: pairs of a name and an expression; obj: the object that gets them
ObjectNode(payload, refname, obj) ==
  [type |-> "AOBJDECL", payload |-> payload, refname |-> refname, obj |-> obj]

ObjectDecl(payload, obj) == ObjectNode(payload, "", obj)

\* An object whose members call it by a name.  The parser makes it a call of a
\* function of its own.
NamedObject(payload, refname, obj) ==
  [type |-> "ANAMED_OBJECT", payload |-> payload, refname |-> refname, obj |-> obj]

create_object_decl_node_ex(node) ==
  LET target == IF node.obj = Absent THEN UnaryNode(Absent, "1") ELSE node.obj
  IN  FuncCall(FuncDecl(<< >>, <<Assign(node.refname, target),
                                 ObjectNode(node.payload, node.refname, node.obj),
                                 UnaryNode(Var(node.refname), "r")>>), << >>)
=============================================================================

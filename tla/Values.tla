------------------------------- MODULE Values -------------------------------
(***************************************************************************)
(* The values of the language, as far as control depends on them: integers,*)
(* the singletons nil, yes and no, and references.  NULL is C's null       *)
(* pointer, which is not a value of the language but travels as one.       *)
(***************************************************************************)
EXTENDS Integers

\* A value is what it is, and either a number or the address of its cell.
Val(kind, at) == [kind |-> kind, at |-> at]

NULL == Val("NULL", 0)
Nil == Val("nil", 0)
Bool(b) == Val("bool", IF b THEN 1 ELSE 0)
Num(n) == Val("int", n)
Code(i) == Val("code", i)

\* LKY_CTEST_FAST.  A number is true unless it is 0, any object is true.
Truthy(v) == v.kind \notin {"NULL", "nil"} /\ (v.kind \in {"int", "bool"} => v.at # 0)

Singleton(v) == v.kind \in {"nil", "bool"}

\* lobjb_unary_not
Negated(v) ==
  CASE v.kind \in {"int", "bool"} -> Bool(v.at = 0)
    [] OTHER -> Bool(v = Nil)

\* lobjb_binary_add, _subtract, _lessthan and _equals on numbers and
\* singletons; what they do with the bytes of any other object is not
\* defined.
Operands == {"int", "nil", "bool"}

Binary(name, a, b) ==
  CASE name = "BINARY_EQUAL" ->
         IF a = Nil \/ b = Nil \/ (a.kind = "int") # (b.kind = "int")
           THEN Nil ELSE Bool(a.at = b.at)
    [] name # "BINARY_EQUAL" /\ (Singleton(a) \/ Singleton(b)) -> Nil
    [] name = "BINARY_ADD" /\ a.kind = b.kind -> Num(a.at + b.at)
    [] name = "BINARY_SUBTRACT" /\ a.kind = b.kind -> Num(a.at - b.at)
    [] name = "BINARY_LT" /\ a.kind = b.kind -> Bool(a.at < b.at)
=============================================================================

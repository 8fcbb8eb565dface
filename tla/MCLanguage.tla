----------------------------- MODULE MCLanguage -----------------------------
(***************************************************************************)
(* Families of programs, each a set of trees.                              *)
(* Every loop of theirs counts up to a bound.                              *)
(***************************************************************************)
EXTENDS Language

P(e) == UnaryNode(e, "p")
Return_(e) == UnaryNode(e, "r")
Throw(e) == UnaryNode(e, "t")
Yes == UnaryNode(Absent, "Y")
NilValue == UnaryNode(Absent, "0")
Less(a, b) == BinaryNode(a, b, "l")
Plus(a, b) == BinaryNode(a, b, "+")
Inc(x) == AssignOp(x, Lit(1), "+")
X == Var("x")

While(x, block) == LoopNode(Absent, Less(Var(x), Lit(2)), Absent, <<Inc(x)>> \o block)
For(i, block) == LoopNode(Assign(i, Lit(0)), Less(Var(i), Lit(2)), Inc(i), block)
In(v, i, over, block) == IterLoopNode(v, i, over, block)
If(c, block) == IfNode(<<Arm(c, block)>>)
IfElse(c, one, two) == IfNode(<<Arm(c, one), Arm(Absent, two)>>)

-----------------------------------------------------------------------------
(* Control flow without break and continue.                                *)

Conditions == {X, Less(X, Lit(1)), UnaryNode(X, "!"), BinaryNode(X, Lit(1), "E"),
               CondNode(X, Less(X, Lit(2)), "&"), CondNode(X, CondNode(Lit(0), Yes, "|"), "|"),
               TernaryNode(X, NilValue, Lit(2)), NilOr(NilValue, X)}

\* Conditions of the arms after the first.
Late == {X, CondNode(X, Less(X, Lit(2)), "&")}

Simple == {P(X), Inc("x"), P(BinaryNode(X, Plus(Lit(1), X), "-"))}

Ifs == {If(c, <<s>>) : c \in Conditions, s \in {P(Lit(7))}}
       \cup {IfElse(c, <<P(Lit(7))>>, <<Inc("x")>>) : c \in Conditions}
       \cup {IfNode(<<Arm(c, <<P(Lit(7))>>), Arm(d, <<P(Lit(8)), Inc("x")>>)>>) : c \in Conditions, d \in Late}
       \cup {IfNode(<<Arm(c, << >>), Arm(d, <<P(Lit(8))>>), Arm(Absent, <<P(Lit(9))>>)>>) : c \in Conditions, d \in Late}

Loops(x, block) ==
  {While(x, block), For(x, block), In(x, "", ArrayNode(<<Lit(5), X>>), block),
   In(x, "n", ArrayNode(<<Lit(5), Lit(6)>>), Append(block, P(Plus(Var("n"), Var(x)))))}

Nested == UNION {Loops("i", <<s>>) : s \in Simple \cup Ifs}
          \cup UNION {Loops("i", <<t, P(X)>>) : t \in UNION {Loops("j", <<s>>) : s \in Simple}}
          \cup {IfElse(X, <<l>>, <<P(X), l>>) : l \in Loops("x", <<P(X)>>)}

ControlFlow == {<<Assign("x", Lit(n)), Assign("i", Lit(0)), s, P(X)>> : n \in 0 .. 1, s \in Nested}

-----------------------------------------------------------------------------
(* break and continue.  The deep expression comes first: the estimate of   *)
(* the operand stack sinks with every one of them.                         *)

Deep == Assign("deep", Plus(Lit(0), Plus(Lit(0), Plus(Lit(0), Lit(0)))))
Break == OneOff("b")
Continue == OneOff("c")
Ever(block) == LoopNode(Absent, Yes, Absent, <<Inc("x"), If(Less(Lit(2), X), <<Break>>)>> \o block)

Leaves(i) == {If(Less(Var(i), Lit(1)), <<o>>) : o \in {Break, Continue}}
             \cup {IfElse(Less(Lit(0), Var(i)), <<P(Lit(7)), o>>, <<P(Lit(8)), p>>) : o, p \in {Break, Continue}}

Left(i) == UNION {Loops(i, <<l, P(Var(i))>>) : l \in Leaves(i)}

Breaks ==
  {<<Deep, Assign("x", Lit(0)), Assign("i", Lit(0)), Assign("j", Lit(0)), s, P(X)>> :
     s \in Left("i")
          \cup UNION {Loops("i", <<t, P(X)>>) : t \in Left("j")}
          \cup UNION {Loops("i", <<t, l, P(X)>>) : t \in Left("j"), l \in Leaves("i")}
          \cup {Ever(<<t, P(X)>>) : t \in Left("i") \cup Leaves("x")}}

-----------------------------------------------------------------------------
(* Functions.                                                              *)

A == Var("a")
L == Var("l")
Call_(f, args) == FuncCall(Var(f), args)

\* What a function that closes over l and x does.
Inner == {FuncDecl(<< >>, b) :
            b \in {<<Return_(L)>>, <<Inc("l"), Return_(L)>>, <<Inc("x")>>,
                   <<Assign("m", L), Inc("m"), Return_(Plus(Var("m"), X))>>}}

Bodies ==
  {<<P(A), Return_(Plus(A, X))>>,
   <<Inc("x"), Return_(A)>>,
   <<If(A, <<Return_(Lit(7))>>), Return_(Absent)>>,
   <<If(Less(A, Lit(1)), <<Return_(Lit(0))>>), Return_(Plus(Lit(1), Call_("f", <<BinaryNode(A, Lit(1), "-")>>)))>>,
   <<Assign("l", A), Inc("l"), P(L)>>,
   <<For("l", <<P(Plus(L, A))>>), Return_(L)>>,
   <<In("l", "k", ArrayNode(<<A, X>>), <<P(Plus(L, Var("k"))), If(L, <<Return_(L)>>)>>)>>,
   <<Return_(TernaryNode(A, FuncDecl(<<"b">>, <<Return_(Plus(A, Var("b")))>>), NilValue))>>}
  \cup {<<Assign("l", A), P(L), Assign("g", g), P(L), P(Call_("g", << >>)), Return_(L)>> : g \in Inner}
  \cup {<<Assign("l", Lit(3)), Assign("g", g), Call_("g", << >>), Return_(Call_("g", << >>))>> : g \in Inner}

Calls == {<<P(Call_("f", <<Lit(n)>>)), P(Call_("f", <<Lit(m), X>>)), P(X)>> : n, m \in 0 .. 1}
         \cup {<<P(UnaryNode(Call_("f", <<X>>), "!")), Call_("f", <<Lit(0)>>)>>}

Functions_ ==
  {<<Assign("x", Lit(1)), Assign("f", FuncDecl(<<"a">>, b))>> \o c : b \in Bodies, c \in Calls}
  \cup {<<Assign("f", FuncDecl(<<"a", "b">>, <<P(Var("b")), P(Var("va_args_")), Return_(A)>>)), Call_("f", << >>),
           P(Call_("f", <<Lit(1)>>)), FuncCall(NilValue, <<Lit(2)>>), P(IndexNode(ArrayNode(<<Lit(4)>>), Lit(0)))>>}

-----------------------------------------------------------------------------
(* Exceptions, raised where the operand stack is empty.                    *)

E_ == Var("e")
Try(block, handler) == TryCatchNode(block, handler, "e")

Missed == P(Call_("f", <<X>>))
Throwers == {Throw(X), P(Var("missing")), Missed, P(MemberAccess(NilValue, "m")), P(Lit(6))}

Around(t) == {Try(<<P(Lit(1)), t, P(Lit(2))>>, <<P(E_)>>),
              Try(<<t>>, <<Throw(Lit(9))>>),
              Try(<<Try(<<t, P(Lit(1))>>, <<P(Lit(3)), Throw(Lit(9))>>), P(Lit(2))>>, <<P(E_), P(X)>>),
              Try(<<Throw(Lit(4))>>, <<Try(<<P(E_), t>>, <<P(Lit(5))>>)>>),
              Try(<<While("i", <<P(Var("i")), t>>)>>, <<P(Var("i"))>>)}

Tries == Throwers \cup UNION {Around(t) : t \in Throwers}

\* An argument would be on the stack if f were missing, and stay there each
\* time a handler in a loop goes on: of such a loop there is no chart.
Looped == Tries \ Around(Missed)

Guarded == Tries
           \cup {While("j", <<t, P(X)>>) : t \in Looped}
           \cup {Assign("y", FuncCall(FuncDecl(<<"a">>, <<Deep, Assign("i", Lit(0)), t, Return_(A)>>), <<X>>)) : t \in Tries}

Exceptions ==
  {<<Deep, Assign("x", Lit(n)), Assign("i", Lit(0)), Assign("j", Lit(0)),
     Assign("f", FuncDecl(<<"a">>, <<If(A, <<Throw(A)>>), Try(<<Throw(Lit(8))>>, <<Return_(Lit(7))>>)>>)),
     t, P(Lit(0)), u>> :
   n \in 0 .. 1, t \in Guarded, u \in {P(X), Try(<<Throw(Lit(3))>>, <<P(E_)>>)}}

-----------------------------------------------------------------------------
(* Objects and arrays.                                                     *)

O == Var("o")
R == Var("r")
M(v, name) == MemberAccess(v, name)
At_(v, i) == IndexNode(v, i)
Get(v) == FuncDecl(<< >>, <<Return_(v)>>)

Made == {ObjectDecl(<<<<"m", X>>, <<"n", Lit(2)>>>>, Absent),
         ObjectDecl(<<<<"m", Lit(3)>>, <<"n", Lit(1)>>, <<"m", X>>>>, Absent),
         ObjectDecl(<<<<"n", Lit(4)>>>>, ObjectDecl(<<<<"m", X>>>>, Absent)),
         NamedObject(<<<<"m", Lit(2)>>, <<"n", Get(X)>>, <<"g", Get(M(Var("self"), "m"))>>>>, "self", Absent),
         NamedObject(<<<<"n", Lit(2)>>, <<"g", FuncDecl(<<"a">>, <<TripleSet(M(Var("self"), "m"), A, "+"), Return_(M(Var("self"), "m"))>>)>>>>,
                     "self", ObjectDecl(<<<<"m", X>>>>, Absent))}

Used == {<<P(M(O, "m"))>>,
         <<BinaryNode(M(O, "m"), X, "="), P(M(O, "m"))>>,
         <<TripleSet(M(O, "m"), Lit(5), "+"), P(M(O, "m"))>>,
         <<P(TripleSet(M(O, "m"), Plus(X, M(O, "m")), "-"))>>,
         <<P(FuncCall(M(O, "g"), <<Lit(1)>>)), P(M(O, "m"))>>,
         <<ObjectDecl(<<<<"k", Lit(7)>>, <<"m", M(O, "m")>>>>, O), P(M(O, "k"))>>,
         <<P(BinaryNode(M(X, "m"), Lit(4), "="))>>}

Arrays == {<<P(At_(R, X))>>,
           <<P(At_(R, Lit(2)))>>,
           <<BinaryNode(At_(R, Lit(1)), X, "="), P(At_(R, Lit(1)))>>,
           <<BinaryNode(At_(R, Lit(3)), X, "=")>>,
           <<TripleSet(At_(R, X), Lit(5), "+"), P(At_(R, X)), P(At_(R, Lit(0)))>>,
           <<P(TripleSet(At_(R, Lit(1)), At_(R, Lit(0)), "-"))>>,
           <<In("v", "i", R, <<P(Var("v")), BinaryNode(At_(R, Lit(1)), Var("i"), "=")>>)>>,
           <<P(At_(At_(ArrayNode(<<R, R>>), X), Lit(0)))>>}

Data == {<<Assign("x", Lit(n)), Assign("o", m)>> \o u : n \in 0 .. 1, m \in Made, u \in Used}
        \cup {<<Assign("x", Lit(n)), Assign("r", ArrayNode(<<Lit(5), Lit(6)>>))>> \o u : n \in 0 .. 1, u \in Arrays}

-----------------------------------------------------------------------------
AllFamilies == <<ControlFlow, Breaks, Functions_, Exceptions, Data>>

\* Those without a handler: the size of the catch stack is not in the file.
Handlerless == <<Functions_, Data>>
None == << >>

\* A try block that the loop around it goes on or ends from the middle of.
LeftTries ==
  <<{<<Deep, Assign("i", Lit(0)), l, P(Var("i"))>> :
       l \in {For("i", <<Try(<<P(Lit(1)), o>>, <<P(E_)>>)>>) : o \in {Break, Continue}}}>>
=============================================================================

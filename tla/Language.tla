------------------------------ MODULE Language ------------------------------
(***************************************************************************)
(* The language end to end: a tree is compiled, the tape is measured, the  *)
(* machine runs it, from memory or from a file, and what comes out is what *)
(* the tree means.                                                         *)
(***************************************************************************)
EXTENDS Charts, Compiler, Structured, Serializer

CONSTANTS
  Trees,   \* families of programs, each program a sequence of statements
  Bottled, \* families that are also written to a file and run from it
  Junk,    \* what a field nobody has set may hold
  Fuel     \* the loop iterations and calls after which a tree's meaning is given up

ASSUME FuelAssumption == Fuel \in Nat

\* A program with what its tree means and a chart of its tapes.
Program(codes, block) == [codes |-> codes, meaning |-> Meaning(block, Fuel), chart |-> Chart(codes)]

Compiled(block) == Program(compile_ast_repl(block), block)

\* The program as the file that Saved made of its code brings it back.
Reloaded(block, junk) == Program(Loaded(Saved(compile_ast_repl(block)), junk), block)

Init ==
  /\ \/ \E i \in DOMAIN Trees : \E block \in Trees[i] : program = Compiled(block)
     \/ \E i \in DOMAIN Bottled : \E block \in Bottled[i], junk \in Junk : program = Reloaded(block, junk)
  /\ Start

Spec == Init /\ [][Next]_vars

FairSpec == Spec /\ WF_vars(Next)

-----------------------------------------------------------------------------
Meant == program.meaning

\* The compiler, the analyzer and the machine together do what the tree
\* says: the machine prints what it should in the order it should, ends the
\* way it should (in particular not for want of stack), and not earlier.
FollowsTree ==
  IF Meant.outcome = "stuck"
    THEN IsPrefix(output, Meant.output) \/ IsPrefix(Meant.output, output)
    ELSE /\ IsPrefix(output, Meant.output)
         /\ status # "running" => output = Meant.output /\ status = Meant.outcome

\* A program that ends by its tree ends in the machine: no jump, handler or
\* slot of the compiler's makes a loop of what is none.
Ends == (Meant.outcome # "stuck") ~> (status # "running")
=============================================================================

------------------------------ MODULE Bytecode ------------------------------
(***************************************************************************)
(* The instructions of the machine as bytes (interpreter/instruction_set.h)*)
(* and the two sizes the compiler reads off a finished tape of them        *)
(* (compiler/bytecode_analyzer.c): how deep the operand stack gets, and    *)
(* how many handlers are open at once.                                     *)
(*                                                                         *)
(* A tape is a sequence of bytes, whose places are counted from 0 as in    *)
(* the code.  An operand of four bytes is little-endian.                   *)
(***************************************************************************)
EXTENDS Integers, Sequences, FiniteSets

\* The enumeration, in its order; the first is 50.
Instructions == <<
  "BINARY_ADD", "BINARY_SUBTRACT", "BINARY_MULTIPLY", "BINARY_DIVIDE", "BINARY_MODULO",
  "BINARY_POWER", "BINARY_LT", "BINARY_GT", "BINARY_EQUAL", "BINARY_LTE", "BINARY_GTE",
  "BINARY_NE", "BINARY_AND", "BINARY_OR", "BINARY_NC", "BINARY_BAND", "BINARY_BOR",
  "BINARY_BXOR", "BINARY_BLSHIFT", "BINARY_BRSHIFT", "UNARY_NOT", "UNARY_NEGATIVE",
  "LOAD_CONST", "PRINT", "POP", "JUMP_FALSE", "JUMP_TRUE", "JUMP", "JUMP_FALSE_ELSE_POP",
  "JUMP_TRUE_ELSE_POP", "IGNORE", "SAVE_LOCAL", "LOAD_LOCAL", "PUSH_NIL", "PUSH_BOOL",
  "PUSH_NEW_OBJECT", "CALL_FUNC", "RETURN", "LOAD_MEMBER", "SAVE_MEMBER", "MAKE_FUNCTION",
  "MAKE_CLASS", "SAVE_CLOSE", "LOAD_CLOSE", "MAKE_ARRAY", "MAKE_TABLE", "MAKE_OBJECT",
  "LOAD_INDEX", "SAVE_INDEX", "SDUPLICATE", "DDUPLICATE", "FLIP_TWO", "SINK_FIRST",
  "MAKE_ITER", "NEXT_ITER_OR_JUMP", "ITER_INDEX", "LOAD_MODULE", "PUSH_CATCH",
  "POP_CATCH", "RAISE" >>

FirstCode == 50

LI == [name \in {Instructions[i] : i \in 1 .. Len(Instructions)} |->
         FirstCode - 1 + (CHOOSE i \in 1 .. Len(Instructions) : Instructions[i] = name)]

\* The name of a byte the analyzer takes for an instruction; an operand may
\* be no instruction at all.
NameOf(byte) ==
  IF byte \in FirstCode .. FirstCode + Len(Instructions) - 1
    THEN Instructions[byte - FirstCode + 1]
    ELSE "DEFAULT"

At(ops, i) == ops[i + 1]

Word(ops, i) == At(ops, i) + 256 * (At(ops, i + 1) + 256 * (At(ops, i + 2) + 256 * At(ops, i + 3)))

Bytes(n) == << n % 256, (n \div 256) % 256, (n \div 65536) % 256, (n \div 16777216) % 256 >>

-----------------------------------------------------------------------------
(* stack_effect_for: what the analyzer believes, which is not always what  *)
(* the instruction does (LOAD_INDEX pops two, a call pops its arguments),  *)
(* and how many bytes after the instruction it passes over, which is not   *)
(* always the length of the operands.                                      *)

BinaryOps == {Instructions[i] : i \in 1 .. 20}

StackEffect(ops, i) ==
  LET name == NameOf(At(ops, i))
  IN  CASE name \in BinaryOps \cup {"JUMP_FALSE", "JUMP_TRUE", "SAVE_MEMBER", "PRINT", "POP", "RETURN"}
             -> -1
        [] name \in {"LOAD_CONST", "LOAD_LOCAL", "LOAD_CLOSE", "LOAD_INDEX", "MAKE_ARRAY", "MAKE_TABLE",
                     "PUSH_BOOL", "LOAD_MODULE", "SDUPLICATE", "PUSH_NIL", "PUSH_NEW_OBJECT",
                     "ITER_INDEX", "MAKE_OBJECT", "NEXT_ITER_OR_JUMP"}
             -> 1
        [] name = "DDUPLICATE" -> 2
        [] name = "MAKE_CLASS" -> At(ops, i + 1)
        [] OTHER -> 0

Skip(ops, i) ==
  LET name == NameOf(At(ops, i))
  IN  CASE name \in {"JUMP_FALSE", "JUMP_TRUE", "SAVE_MEMBER", "NEXT_ITER_OR_JUMP"} -> 4
        [] name \in {"LOAD_CONST", "LOAD_LOCAL", "LOAD_CLOSE", "LOAD_INDEX", "MAKE_ARRAY", "MAKE_TABLE",
                     "PUSH_BOOL", "LOAD_MODULE", "JUMP_TRUE_ELSE_POP", "JUMP_FALSE_ELSE_POP", "JUMP",
                     "SAVE_LOCAL", "SAVE_CLOSE", "LOAD_MEMBER"} -> 1
        [] name = "MAKE_CLASS" -> 2 * At(ops, i + 1) + 1
        [] OTHER -> 0

\* A mutant: the sum at the end, where nothing should be left.
depth_at_end(ops, len) ==
  LET walk[i \in Nat, depth \in Int] ==
        IF i >= len THEN IF depth > 0 THEN depth ELSE 0 ELSE walk[i + 1 + Skip(ops, i), depth + StackEffect(ops, i)]
  IN  walk[0, 0]

\* The highest the running sum of the effects gets, over the bytes it takes
\* for instructions.
calculate_max_stack_depth(ops, len) ==
  LET walk[i \in Nat, depth \in Int, highest \in Nat] ==
        IF i >= len THEN highest
        ELSE walk[i + 1 + Skip(ops, i), depth + StackEffect(ops, i),
                  IF depth + StackEffect(ops, i) > highest THEN depth + StackEffect(ops, i) ELSE highest]
  IN  walk[0, 0, 0]

\* A mutant: a handler that is closed makes room for another.
unclosed_catches(ops, len) ==
  LET count(name) == Cardinality({i \in 0 .. len - 1 : At(ops, i) = LI[name]})
  IN  IF count("PUSH_CATCH") > count("POP_CATCH") THEN count("PUSH_CATCH") - count("POP_CATCH") ELSE 0

\* One for each byte that is PUSH_CATCH, operand or not.
calculate_max_catch_depth(ops, len) == Cardinality({i \in 0 .. len - 1 : At(ops, i) = LI["PUSH_CATCH"]})
=============================================================================

------------------------------- MODULE Charts -------------------------------
(***************************************************************************)
(* Charts of programs: what a verifier of bytecode would find out about a  *)
(* tape before it runs.  The repository has none: the machine trusts the   *)
(* compiler and the sizes of the analyzer.  A chart says of every place of *)
(* a tape the program counter may stop at how high the operand stack gets  *)
(* there (depth), how high it may be there while an exception is on its    *)
(* way or a call is waited for (bare, -1 where neither can be), and which  *)
(* handlers are open, innermost last (open).  Passes compares a chart with *)
(* the tape, one instruction at a time; that a program with a chart that   *)
(* passes keeps to it is what TypeOK says.                                 *)
(***************************************************************************)
EXTENDS Machine

OpAt(code, pc) == NameOf(At(code.ops, pc + 1))
ArgAt(code, pc) == Word(code.ops, pc + 2)
ByteAt(code, pc) == At(code.ops, pc + 2)

Wide == {"LOAD_CONST", "JUMP", "JUMP_FALSE", "JUMP_TRUE_ELSE_POP", "JUMP_FALSE_ELSE_POP",
         "SAVE_LOCAL", "LOAD_LOCAL", "SAVE_CLOSE", "LOAD_CLOSE", "LOAD_MEMBER", "SAVE_MEMBER",
         "MAKE_OBJECT", "MAKE_ARRAY", "NEXT_ITER_OR_JUMP", "PUSH_CATCH"}
Short == {"PUSH_BOOL", "MAKE_FUNCTION", "CALL_FUNC"}

\* The place after this one, and what the way there does to the height of the stack.
Way(to, by) == [to |-> to, by |-> by]

Moves(code, pc) ==
  LET op == OpAt(code, pc)
      arg == ArgAt(code, pc)
      On(names, to, by) == IF op \in names THEN {Way(to, by)} ELSE {}
  IN  UNION {
        On({"BINARY_ADD", "BINARY_SUBTRACT", "BINARY_LT", "BINARY_EQUAL", "POP", "PRINT",
            "LOAD_INDEX", "RETURN"}, pc + 1, -1),
        On({"UNARY_NOT", "FLIP_TWO", "SINK_FIRST", "IGNORE", "MAKE_ITER", "POP_CATCH"}, pc + 1, 0),
        On({"PUSH_NIL", "SDUPLICATE", "PUSH_NEW_OBJECT", "ITER_INDEX"}, pc + 1, 1),
        On({"DDUPLICATE"}, pc + 1, 2),
        On({"SAVE_INDEX"}, pc + 1, -2),
        On({"PUSH_BOOL"}, pc + 2, 1),
        On({"MAKE_FUNCTION"}, pc + 2, 0),
        On({"CALL_FUNC"}, pc + 2, -ByteAt(code, pc)),
        On({"LOAD_CONST", "LOAD_LOCAL", "LOAD_CLOSE", "NEXT_ITER_OR_JUMP"}, pc + 5, 1),
        On({"SAVE_LOCAL", "SAVE_CLOSE", "LOAD_MEMBER", "PUSH_CATCH"}, pc + 5, 0),
        On({"JUMP_FALSE", "JUMP_TRUE_ELSE_POP", "JUMP_FALSE_ELSE_POP", "SAVE_MEMBER"}, pc + 5, -1),
        On({"MAKE_ARRAY"}, pc + 5, 1 - arg),
        On({"MAKE_OBJECT"}, pc + 5 + 4 * arg, -arg),
        On({"JUMP", "NEXT_ITER_OR_JUMP"}, Jumped(arg, pc + 5), 0),
        On({"JUMP_TRUE_ELSE_POP", "JUMP_FALSE_ELSE_POP"}, arg, 0),
        On({"JUMP_FALSE"}, arg, -1)}

\* Where an instruction stops that raises, or that waits for a call.
Throws(code, pc) ==
  LET op == OpAt(code, pc)
      On(names, to, by) == IF op \in names THEN {Way(to, by)} ELSE {}
  IN  UNION {
        On({"LOAD_CLOSE"}, pc + 5, 0),
        On({"LOAD_MEMBER"}, pc + 5, -1),
        On({"LOAD_INDEX", "RAISE"}, pc + 1, -1),
        On({"SAVE_INDEX"}, pc + 1, -2),
        On({"CALL_FUNC"}, pc + 2, -1 - ByteAt(code, pc))}

\* The handlers that are open behind an instruction.
Opened(code, pc, open) ==
  IF OpAt(code, pc) = "PUSH_CATCH" THEN Append(open, ArgAt(code, pc))
  ELSE IF OpAt(code, pc) = "POP_CATCH" /\ open # << >> THEN Front(open) ELSE open

-----------------------------------------------------------------------------
(* A chart of one tape, t, and one of a program.                           *)

SizesOK(code) ==
  /\ code.op_len \in Nat /\ code.num_locals \in Nat
  /\ code.stack_size \in Nat /\ code.catch_size \in Nat

\* The operands are on the tape, and name what there is.
OperandsOK(codes, code, pc) ==
  LET op == OpAt(code, pc)
      arg == ArgAt(code, pc)
  IN  /\ op \in Wide => pc + 5 < code.op_len /\ arg \in Nat
      /\ op \in Short => pc + 2 < code.op_len /\ ByteAt(code, pc) \in Nat
      /\ op = "LOAD_CONST" =>
           /\ arg + 1 \in DOMAIN code.constants
           /\ code.constants[arg + 1] \in [kind : {"int"}, at : Int] \cup [kind : {"code"}, at : DOMAIN codes]
      /\ op \in {"SAVE_LOCAL", "LOAD_LOCAL"} => arg + 1 \in 1 .. code.num_locals

HandlerOK(t, p) ==
  LET h == Last(p.open)
  IN  h \in DOMAIN t /\ p.bare + 1 <= t[h].depth /\ t[h].open = Front(p.open)

PlaceOK(codes, code, t, pc) ==
  LET p == t[pc]
  IN  /\ pc \in -1 .. code.op_len - 1
      /\ p.depth \in 0 .. code.stack_size /\ p.bare \in -1 .. p.depth
      /\ p.open \in Seq(0 .. code.op_len - 1) /\ Len(p.open) <= code.catch_size
      /\ p.bare >= 0 /\ p.open # << >> => HandlerOK(t, p)
      /\ pc + 1 < code.op_len =>
           /\ OperandsOK(codes, code, pc)
           /\ \A m \in Moves(code, pc) \cup Throws(code, pc) :
                m.to \in DOMAIN t /\ t[m.to].open = Opened(code, pc, p.open)
           /\ \A m \in Moves(code, pc) : p.depth + m.by <= t[m.to].depth
           /\ \A m \in Throws(code, pc) : p.depth + m.by <= t[m.to].bare

TapeOK(codes, code, t) ==
  /\ SizesOK(code)
  /\ -1 \in DOMAIN t /\ t[-1].open = << >>
  /\ \A pc \in DOMAIN t : PlaceOK(codes, code, t, pc)

Passes(codes, chart) ==
  /\ codes # << >> /\ codes \in Seq(ToSet(codes)) /\ DOMAIN chart = DOMAIN codes
  /\ \A c \in DOMAIN codes : TapeOK(codes, codes[c], chart[c])

-----------------------------------------------------------------------------
(* The chart of a program, drawn in the order of the tapes: what jumps     *)
(* back finds a place that is charted.  Passes tells whether it is right.  *)

Arrival == [at : Int, depth : Int, bare : Int, open : Seq(Int)]
Arrives(at, depth, bare, open) == [at |-> at, depth |-> depth, bare |-> bare, open |-> open]

\* The place pc, as those of arrivals that come to it find it.
Met(arrivals, pc) ==
  LET here == {a \in arrivals : a.at = pc}
  IN  [depth |-> Max({a.depth : a \in here}), bare |-> Max({a.bare : a \in here}),
       open |-> (CHOOSE a \in here : TRUE).open]

\* Where the machine goes from the place pc that is p: on, or to the handler.
Onward(codes, code, p, pc) ==
  LET open == Opened(code, pc, p.open)
  IN  (IF pc + 1 < code.op_len /\ OperandsOK(codes, code, pc)
         THEN {Arrives(m.to, p.depth + m.by, -1, open) : m \in Moves(code, pc)}
                \cup {Arrives(m.to, p.depth + m.by, p.depth + m.by, open) : m \in Throws(code, pc)}
         ELSE {})
      \cup (IF p.bare >= 0 /\ p.open # << >>
              THEN {Arrives(Last(p.open), p.bare + 1, -1, Front(p.open))} ELSE {})

ChartOf(codes, code) ==
  LET drawn[first, last \in Int, arrivals \in SUBSET Arrival] ==
        LET mid == (first + last) \div 2
        IN  IF first < last THEN drawn[mid + 1, last, drawn[first, mid, arrivals]]
            ELSE arrivals \cup (IF \E a \in arrivals : a.at = first
                                  THEN Onward(codes, code, Met(arrivals, first), first) ELSE {})
      all == drawn[-1, code.op_len - 1, {Arrives(-1, 0, -1, << >>)}]
  IN  [pc \in {a.at : a \in all} |-> Met(all, pc)]

\* The chart, if it is right.
Chart(codes) ==
  LET chart == FoldLeft(LAMBDA charts, code : Append(charts, ChartOf(codes, code)), << >>, codes)
  IN  IF Passes(codes, chart) THEN chart ELSE << >>

-----------------------------------------------------------------------------
(* What holds of the machine while it runs a program that passes.          *)

\* The cell a reference leads to has these fields.
Shape == [object |-> {"members"}, error |-> {"members"}, array |-> {"items"},
          iterable |-> {"store", "index"}, function |-> {"code", "argc", "parents"}]

Kinds == {"NULL", "nil", "bool", "int", "code"} \cup DOMAIN Shape

\* The values there may be in program p, beside the heap h.
Valid(p, h) ==
  {v \in [kind : Kinds, at : Int] :
     /\ v.kind = "code" => v.at \in DOMAIN p.codes
     /\ v.kind \in DOMAIN Shape => v.at \in DOMAIN h /\ DOMAIN h[v.at] = Shape[v.kind]}

Buckets(h) == {a \in DOMAIN h : DOMAIN h[a] = {"members"}}

CellOK(p, c, h) ==
  \/ DOMAIN c = {"members"} /\ \A n \in DOMAIN c.members : c.members[n] \in Valid(p, h)
  \/ DOMAIN c = {"items"} /\ c.items \in Seq(Valid(p, h))
  \/ DOMAIN c = {"store", "index"} /\ c.store \in Valid(p, h) /\ c.store.kind = "array" /\ c.index \in Nat
  \/ /\ DOMAIN c = {"code", "argc", "parents"}
     /\ c.code \in DOMAIN p.codes /\ c.argc \in Nat /\ c.parents \in Seq(Buckets(h))

HeapOK(p, h) == h \in Seq(ToSet(h)) /\ \A a \in DOMAIN h : CellOK(p, h[a], h)

LocalsOK(p, l, h) ==
  /\ DOMAIN l = DOMAIN p.codes
  /\ \A c \in DOMAIN l : l[c] \in [1 .. p.codes[c].num_locals -> Valid(p, h)]

Frame(p, h) ==
  [code : DOMAIN p.codes, pc : Int, stack : Seq(Valid(p, h)), catches : Seq(Int),
   bucket : Buckets(h), parents : Seq(Buckets(h)), ret : Valid(p, h)]

\* What the chart has of the place the frame is at.
PlaceOf(p, f) == p.chart[f.code][f.pc]

\* The frame is at a place of the chart, and has what the chart says it has there.
OnChart(p, f) ==
  /\ f.code \in DOMAIN p.chart /\ f.pc \in DOMAIN p.chart[f.code]
  /\ Len(f.stack) <= PlaceOf(p, f).depth /\ f.catches = PlaceOf(p, f).open

\* It has not returned, and what it waits for still has to be pushed.
Bare(p, f) == f.ret = NULL /\ Len(f.stack) <= PlaceOf(p, f).bare
Waits(p, f) == Bare(p, f) /\ Len(f.stack) < PlaceOf(p, f).depth

FramesOK(p, fs, h, e) ==
  /\ fs # << >> /\ fs \in Seq(Frame(p, h))
  /\ \A i \in DOMAIN fs : OnChart(p, fs[i])
  /\ \A i \in 1 .. Len(fs) - 1 : Waits(p, fs[i])
  /\ e # NULL => Bare(p, Last(fs))

\* Every value is what its kind says, wherever it is kept, and every reference
\* leads to a cell of its kind.  Every frame runs one of the program's code
\* objects, and is at a place where an instruction ends, with no more operands
\* and with the very handlers that the chart has for the place: no jump, no
\* handler and no return takes it to anywhere else (lky_machine.c:340-760).
TypeOK ==
  /\ status \in {"running", "done", "fatal", "overflow"}
  /\ HeapOK(program, heap) /\ LocalsOK(program, locals, heap) /\ error \in Valid(program, heap)
  /\ FramesOK(program, frames, heap, error)

MachineSpec == Passes(program.codes, program.chart) /\ Start /\ [][Next]_vars
=============================================================================

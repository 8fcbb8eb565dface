------------------------------- MODULE Machine -------------------------------
(***************************************************************************)
(* The machine (interpreter/lky_machine.c): mach_execute, mach_eval and    *)
(* the calls between them, one action per instruction.                     *)
(*                                                                         *)
(* A frame's pc is the last byte it has read, as in the code.  An          *)
(* instruction whose operands are not there, or are of a type it does not  *)
(* look at, is undefined in C and has no step here.  Collection, the event *)
(* runtime, modules, classes and natives are other modules' subjects.      *)
(***************************************************************************)
EXTENDS Bytecode, Values, SequencesExt

VARIABLES
  program,   \* a record: codes, the code objects, the main one last; and what nothing here reads
  frames,    \* interp->stack, outermost first
  locals,    \* locals of each code object, shared by its activations
  heap,      \* cells by address: buckets and objects, functions, arrays, iterators
  error,     \* interp->error
  output,    \* what was printed
  status     \* "running", "done", "fatal" (no handler), "overflow" (the stack is full)

vars == <<program, frames, locals, heap, error, output, status>>

-----------------------------------------------------------------------------
Alloc(cell) == heap' = Append(heap, cell)
NextRef(kind) == Val(kind, Len(heap) + 1)

\* lobj_get_member on a bucket, an object or an exception: NULL if it has none
Member(cells, at, name) ==
  IF name \in DOMAIN cells[at].members THEN cells[at].members[name] ELSE NULL

\* Members, those of these names anew.
Setting(members, names, value(_)) ==
  [n \in DOMAIN members \cup names |-> IF n \in names THEN value(n) ELSE members[n]]

WithMember(cells, at, name, v) == [cells EXCEPT ![at].members = Setting(@, {name}, LAMBDA n : v)]

Items(v) == heap[v.at].items

-----------------------------------------------------------------------------
(* The frame that runs.                                                    *)

F == Last(frames)
CodeOf(f) == program.codes[f.code]
Ops == CodeOf(F).ops
Op == NameOf(At(Ops, F.pc + 1))
Arg == Word(Ops, F.pc + 2)
Byte == At(Ops, F.pc + 2)
Name == CodeOf(F).names[Arg + 1]
S == F.stack
Depth == Len(S)
Top == S[Depth]
Nth(n) == S[Depth - n]
Drop(n) == SubSeq(S, 1, Depth - n)

Finished == F.pc >= CodeOf(F).op_len \/ F.ret # NULL

\* The next instruction is one of these, and has its n operands.
Ready(names, n) ==
  /\ status = "running" /\ error = NULL /\ ~Finished
  /\ F.pc + 1 < CodeOf(F).op_len
  /\ Op \in names
  /\ Depth >= n

\* The frame goes on with this stack.  push_node looks at the size before it
\* pushes, and lets one element more than the size pass.
Go(stack, pc) ==
  IF Len(stack) > CodeOf(F).stack_size + 1
    THEN status' = "overflow" /\ UNCHANGED frames
    ELSE /\ frames' = [frames EXCEPT ![Len(frames)].stack = stack, ![Len(frames)].pc = pc]
         /\ UNCHANGED status

\* JUMP and NEXT_ITER_OR_JUMP go to the byte itself, backwards, and behind it, forwards.
Jumped(target, pc) ==
  IF target = 0 THEN -1 ELSE IF target < pc THEN target - 1 ELSE target

-----------------------------------------------------------------------------
(* Instructions that touch the operand stack only.                         *)

Arithmetic ==
  /\ Ready({"BINARY_ADD", "BINARY_SUBTRACT", "BINARY_LT", "BINARY_EQUAL"}, 2)
  /\ Top.kind \in Operands /\ Nth(1).kind \in Operands
  /\ Go(Append(Drop(2), Binary(Op, Nth(1), Top)), F.pc + 1)
  /\ UNCHANGED <<program, locals, heap, error, output>>

Not ==
  /\ Ready({"UNARY_NOT"}, 1)
  /\ Go(Append(Drop(1), Negated(Top)), F.pc + 1)
  /\ UNCHANGED <<program, locals, heap, error, output>>

LoadConst ==
  /\ Ready({"LOAD_CONST"}, 0)
  /\ Go(Append(S, CodeOf(F).constants[Arg + 1]), F.pc + 5)
  /\ UNCHANGED <<program, locals, heap, error, output>>

PushNil ==
  /\ Ready({"PUSH_NIL"}, 0)
  /\ Go(Append(S, Nil), F.pc + 1)
  /\ UNCHANGED <<program, locals, heap, error, output>>

PushBool ==
  /\ Ready({"PUSH_BOOL"}, 0)
  /\ Go(Append(S, Bool(Byte # 0)), F.pc + 2)
  /\ UNCHANGED <<program, locals, heap, error, output>>

Pop ==
  /\ Ready({"POP"}, 1)
  /\ Go(Drop(1), F.pc + 1)
  /\ UNCHANGED <<program, locals, heap, error, output>>

Duplicate ==
  /\ \/ Ready({"SDUPLICATE"}, 1) /\ Go(Append(S, Top), F.pc + 1)
     \/ Ready({"DDUPLICATE"}, 2) /\ Go(S \o <<Nth(1), Top>>, F.pc + 1)
  /\ UNCHANGED <<program, locals, heap, error, output>>

FlipTwo ==
  /\ Ready({"FLIP_TWO"}, 2)
  /\ Go(Drop(2) \o <<Top, Nth(1)>>, F.pc + 1)
  /\ UNCHANGED <<program, locals, heap, error, output>>

SinkFirst ==
  /\ Ready({"SINK_FIRST"}, 3)
  /\ Go(Drop(3) \o <<Top, Nth(2), Nth(1)>>, F.pc + 1)
  /\ UNCHANGED <<program, locals, heap, error, output>>

Ignore ==
  /\ Ready({"IGNORE"}, 0)
  /\ Go(S, F.pc + 1)
  /\ UNCHANGED <<program, locals, heap, error, output>>

Jump ==
  /\ Ready({"JUMP"}, 0)
  /\ Go(S, Jumped(Arg, F.pc + 5))
  /\ UNCHANGED <<program, locals, heap, error, output>>

JumpFalse ==
  /\ Ready({"JUMP_FALSE"}, 1)
  /\ Go(Drop(1), IF Truthy(Top) THEN F.pc + 5 ELSE Arg)
  /\ UNCHANGED <<program, locals, heap, error, output>>

JumpElsePop ==
  /\ Ready({"JUMP_TRUE_ELSE_POP", "JUMP_FALSE_ELSE_POP"}, 1)
  /\ IF Truthy(Top) = (Op = "JUMP_TRUE_ELSE_POP")
       THEN Go(S, Arg) ELSE Go(Drop(1), F.pc + 5)
  /\ UNCHANGED <<program, locals, heap, error, output>>

\* An exception prints as the value it was raised with.
PrintTop ==
  /\ Ready({"PRINT"}, 1)
  /\ output' = Append(output, IF Top.kind = "error" THEN Member(heap, Top.at, "custom_") ELSE Top)
  /\ Go(Drop(1), F.pc + 1)
  /\ UNCHANGED <<program, locals, heap, error>>

-----------------------------------------------------------------------------
(* Variables: slots of the code object, and members of the buckets.        *)

SaveLocal ==
  /\ Ready({"SAVE_LOCAL"}, 1)
  /\ locals' = [locals EXCEPT ![F.code][Arg + 1] = Top]
  /\ Go(S, F.pc + 5)
  /\ UNCHANGED <<program, heap, error, output>>

LoadLocal ==
  /\ Ready({"LOAD_LOCAL"}, 0)
  /\ Go(Append(S, locals[F.code][Arg + 1]), F.pc + 5)
  /\ UNCHANGED <<program, locals, heap, error, output>>

\* The innermost of the enclosing buckets that has the name, own bucket not among them.
Enclosing(name) ==
  LET having == {i \in 1 .. Len(F.parents) : Member(heap, F.parents[i], name) # NULL}
  IN  IF having = {} THEN 0 ELSE F.parents[Max(having)]

\* The enclosing buckets are asked first, the own one gets what is left.
SaveClose ==
  /\ Ready({"SAVE_CLOSE"}, 1)
  /\ LET bk == IF Enclosing(Name) # 0 THEN Enclosing(Name) ELSE F.bucket
     IN  heap' = WithMember(heap, bk, Name, Top)
  /\ Go(S, F.pc + 5)
  /\ UNCHANGED <<program, locals, error, output>>

Raised(custom) == [members |-> [n \in IF custom = NULL THEN {} ELSE {"custom_"} |-> custom]]

\* The own bucket is asked first.
LoadClose ==
  /\ Ready({"LOAD_CLOSE"}, 0)
  /\ LET own == Member(heap, F.bucket, Name)
         v == IF own # NULL THEN own
              ELSE IF Enclosing(Name) # 0 THEN Member(heap, Enclosing(Name), Name) ELSE NULL
     IN  IF v # NULL
           THEN Go(Append(S, v), F.pc + 5) /\ UNCHANGED <<heap, error>>
           ELSE Go(S, F.pc + 5) /\ Alloc(Raised(NULL)) /\ error' = NextRef("error")
  /\ UNCHANGED <<program, locals, output>>

-----------------------------------------------------------------------------
(* Objects and arrays.                                                     *)

PushNewObject ==
  /\ Ready({"PUSH_NEW_OBJECT"}, 0)
  /\ Alloc([members |-> << >>])
  /\ Go(Append(S, NextRef("object")), F.pc + 1)
  /\ UNCHANGED <<program, locals, error, output>>

HasMembers(v) == v.kind \in {"object", "error"}

\* Nothing is pushed for a member that is not there.
LoadMember ==
  /\ Ready({"LOAD_MEMBER"}, 1)
  /\ HasMembers(Top) \/ Top.kind \in Operands
  /\ LET v == IF HasMembers(Top) THEN Member(heap, Top.at, Name) ELSE NULL
     IN  IF v # NULL
           THEN Go(Append(Drop(1), v), F.pc + 5) /\ UNCHANGED <<heap, error>>
           ELSE Go(Drop(1), F.pc + 5) /\ Alloc(Raised(NULL)) /\ error' = NextRef("error")
  /\ UNCHANGED <<program, locals, output>>

\* A number takes no members and does not say so.
SaveMember ==
  /\ Ready({"SAVE_MEMBER"}, 2)
  /\ HasMembers(Top) \/ Top.kind = "int"
  /\ heap' = IF HasMembers(Top) THEN WithMember(heap, Top.at, Name, Nth(1)) ELSE heap
  /\ Go(Drop(1), F.pc + 5)
  /\ UNCHANGED <<program, locals, error, output>>

\* The object is on top, its ct members under it; their names follow, last first.
MakeObject ==
  /\ Ready({"MAKE_OBJECT"}, 1 + Arg)
  /\ HasMembers(Top)
  /\ LET name(k) == CodeOf(F).names[Word(Ops, F.pc + 2 + 4 * k) + 1]
         obj == Top.at
         named == {name(k) : k \in 1 .. Arg}
         value(n) == Nth(Max({k \in 1 .. Arg : name(k) = n}))
     IN  heap' = [heap EXCEPT ![obj].members = Setting(@, named, value)]
  /\ Go(Append(Drop(1 + Arg), Top), F.pc + 5 + 4 * Arg)
  /\ UNCHANGED <<program, locals, error, output>>

MakeArray ==
  /\ Ready({"MAKE_ARRAY"}, Arg)
  /\ Alloc([items |-> SubSeq(S, Depth - Arg + 1, Depth)])
  /\ Go(Append(Drop(Arg), NextRef("array")), F.pc + 5)
  /\ UNCHANGED <<program, locals, error, output>>

\* stlarr_get and stlarr_set look at one end of the range only.
InRange(arr, idx) == idx.at < Len(Items(arr))

\* The native that finds the index wrong leaves an exception and returns
\* nil, which is pushed.
LoadIndex ==
  /\ Ready({"LOAD_INDEX"}, 2)
  /\ Nth(1).kind = "array" => Top.kind = "int" /\ Top.at >= 0
  /\ IF Nth(1).kind = "array" /\ InRange(Nth(1), Top)
       THEN /\ Go(Append(Drop(2), Items(Nth(1))[Top.at + 1]), F.pc + 1)
            /\ UNCHANGED <<heap, error>>
       ELSE /\ Go(Append(Drop(2), Nil), F.pc + 1)
            /\ Alloc(Raised(NULL))
            /\ error' = NextRef("error")
  /\ UNCHANGED <<program, locals, output>>

SaveIndex ==
  /\ Ready({"SAVE_INDEX"}, 3)
  /\ Nth(1).kind = "array" => Top.kind = "int" /\ Top.at >= 0
  /\ Go(Drop(2), F.pc + 1)
  /\ IF Nth(1).kind = "array" /\ InRange(Nth(1), Top)
       THEN heap' = [heap EXCEPT ![Nth(1).at].items[Top.at + 1] = Nth(2)] /\ UNCHANGED error
       ELSE Alloc(Raised(NULL)) /\ error' = NextRef("error")
  /\ UNCHANGED <<program, locals, output>>

-----------------------------------------------------------------------------
(* Iterators: objects on the operand stack that move on.                   *)

MakeIter ==
  /\ Ready({"MAKE_ITER"}, 1)
  /\ Top.kind = "array"
  /\ Alloc([store |-> Top, index |-> 0])
  /\ Go(Append(Drop(1), NextRef("iterable")), F.pc + 1)
  /\ UNCHANGED <<program, locals, error, output>>

\* The store of an array is looked at anew each time, and a NULL in it is
\* taken for its end.
NextIterOrJump ==
  /\ Ready({"NEXT_ITER_OR_JUMP"}, 1)
  /\ Top.kind \notin {"int", "NULL"}
  /\ LET it == heap[Top.at]
         more == Top.kind = "iterable" /\ it.index < Len(Items(it.store))
         item == Items(it.store)[it.index + 1]
     IN  /\ IF more /\ item # NULL THEN Go(Append(S, item), F.pc + 5)
                                   ELSE Go(S, Jumped(Arg, F.pc + 5))
         /\ heap' = IF more THEN [heap EXCEPT ![Top.at].index = @ + 1] ELSE heap
  /\ UNCHANGED <<program, locals, error, output>>

IterIndex ==
  /\ Ready({"ITER_INDEX"}, 1)
  /\ Top.kind = "iterable"
  /\ Go(Append(S, Num(heap[Top.at].index - 1)), F.pc + 1)
  /\ UNCHANGED <<program, locals, heap, error, output>>

-----------------------------------------------------------------------------
(* Functions.                                                              *)

MakeFunction ==
  /\ Ready({"MAKE_FUNCTION"}, 1)
  /\ Top.kind = "code"
  /\ Alloc([code |-> Top.at, argc |-> Byte, parents |-> Append(F.parents, F.bucket)])
  /\ Go(Append(Drop(1), NextRef("function")), F.pc + 2)
  /\ UNCHANGED <<program, locals, error, output>>

\* The frame of an activation of a code object.
Activation(code, bucket, parents) ==
  [code |-> code, pc |-> -1, stack |-> << >>, catches |-> << >>,
   bucket |-> bucket, parents |-> parents, ret |-> NULL]

\* The bucket of a call (lobjb_default_callable): the parameters, nil where
\* arguments are missing, and the arguments there are too many of.
Bucket(fn, args, rest) ==
  LET names == program.codes[fn.code].names
      params == [n \in {names[i] : i \in 1 .. fn.argc} |->
                  LET i == Max({j \in 1 .. fn.argc : names[j] = n})
                  IN  IF i <= Len(args) THEN args[i] ELSE Nil]
  IN  [members |-> Setting(params, {"va_args_"}, LAMBDA n : rest)]

\* The callee and its arguments leave the stack before it runs.
Call ==
  /\ Ready({"CALL_FUNC"}, 1 + Byte)
  /\ Top.kind = "function"
  /\ LET fn == heap[Top.at]
         args == SubSeq(S, Depth - Byte, Depth - 1)
         more == SubSeq(args, fn.argc + 1, Len(args))
         cells == IF more = << >> THEN << >> ELSE <<[items |-> more]>>
         rest == IF more = << >> THEN Nil ELSE NextRef("array")
     IN  /\ heap' = heap \o cells \o <<Bucket(fn, args, rest)>>
         /\ frames' = Append([frames EXCEPT ![Len(frames)].stack = Drop(1 + Byte),
                                            ![Len(frames)].pc = @ + 2],
                             Activation(fn.code, Len(heap) + Len(cells) + 1, fn.parents))
  /\ UNCHANGED <<program, locals, error, output, status>>

\* lobjb_call returns NULL for what cannot be called, and does not raise.
CallNothing ==
  /\ Ready({"CALL_FUNC"}, 1 + Byte)
  /\ Top.kind \in {"nil", "bool", "error", "iterable"}
  /\ Go(Append(Drop(1 + Byte), NULL), F.pc + 2)
  /\ UNCHANGED <<program, locals, heap, error, output>>

\* A frame that returns NULL has not returned: it goes on behind the RETURN.
Return ==
  /\ Ready({"RETURN"}, 1)
  /\ frames' = [frames EXCEPT ![Len(frames)].stack = Drop(1),
                              ![Len(frames)].pc = @ + 1,
                              ![Len(frames)].ret = Top]
  /\ UNCHANGED <<program, locals, heap, error, output, status>>

\* mach_execute drops the frame, and CALL_FUNC pushes what it returned.
Leave ==
  /\ status = "running" /\ Finished /\ Len(frames) > 1
  /\ LET caller == frames[Len(frames) - 1]
         stack == Append(caller.stack, F.ret)
     IN  IF Len(stack) > CodeOf(caller).stack_size + 1
           THEN status' = "overflow" /\ UNCHANGED frames
           ELSE /\ frames' = [Front(frames) EXCEPT ![Len(frames) - 1].stack = stack]
                /\ UNCHANGED status
  /\ UNCHANGED <<program, locals, heap, error, output>>

Finish ==
  /\ status = "running" /\ Finished /\ Len(frames) = 1
  /\ status' = "done"
  /\ UNCHANGED <<program, frames, locals, heap, error, output>>

-----------------------------------------------------------------------------
(* Exceptions.                                                             *)

PushCatch ==
  /\ Ready({"PUSH_CATCH"}, 0)
  /\ frames' = [frames EXCEPT ![Len(frames)].catches = Append(@, Arg), ![Len(frames)].pc = @ + 5]
  /\ UNCHANGED <<program, locals, heap, error, output, status>>

\* The entry above the innermost handler is cleared, and the handler is gone.
PopCatch ==
  /\ Ready({"POP_CATCH"}, 0)
  /\ F.catches # << >>
  /\ frames' = [frames EXCEPT ![Len(frames)].catches = Front(@), ![Len(frames)].pc = @ + 1]
  /\ UNCHANGED <<program, locals, heap, error, output, status>>

Raise ==
  /\ Ready({"RAISE"}, 1)
  /\ Alloc(Raised(Top))
  /\ error' = NextRef("error")
  /\ Go(Drop(1), F.pc + 1)
  /\ UNCHANGED <<program, locals, output>>

Thrown == status = "running" /\ ~Finished /\ error # NULL

\* What the expression that failed had on the stack stays there.
Catch ==
  /\ Thrown /\ F.catches # << >>
  /\ IF Depth > CodeOf(F).stack_size
       THEN status' = "overflow" /\ UNCHANGED frames
       ELSE /\ frames' = [frames EXCEPT ![Len(frames)] =
                            [@ EXCEPT !.stack = Append(S, error), !.pc = Last(F.catches),
                                      !.catches = Front(F.catches)]]
            /\ UNCHANGED status
  /\ error' = NULL
  /\ UNCHANGED <<program, locals, heap, output>>

\* A mutant: the frame is told of the exception, and stays.
EscapeNot ==
  /\ Thrown /\ F.catches = << >> /\ Len(frames) > 1
  /\ UNCHANGED vars

\* A frame without a handler ends, and CALL_FUNC in the one before takes the
\* exception from thrown at once.
Escape ==
  /\ Thrown /\ F.catches = << >> /\ Len(frames) > 1
  /\ frames' = Front(frames)
  /\ UNCHANGED <<program, locals, heap, error, output, status>>

Fatal ==
  /\ Thrown /\ F.catches = << >> /\ Len(frames) = 1
  /\ status' = "fatal"
  /\ error' = NULL
  /\ UNCHANGED <<program, frames, locals, heap, output>>

-----------------------------------------------------------------------------
(* What the sizes the analyzer computed promise.                           *)

\* No frame's operand stack outgrows the array mach_execute made for it, of
\* the size calculate_max_stack_depth computed.
StackFits == \A i \in DOMAIN frames : Len(frames[i].stack) <= CodeOf(frames[i]).stack_size

\* No frame has more open handlers than calculate_max_catch_depth counted.
CatchFits == \A i \in DOMAIN frames : Len(frames[i].catches) <= CodeOf(frames[i]).catch_size

-----------------------------------------------------------------------------
\* The start of the program.
Start ==
  /\ frames = <<Activation(Len(program.codes), 1, << >>)>>
  /\ locals = [c \in DOMAIN program.codes |->
                [i \in 1 .. program.codes[c].num_locals |-> NULL]]
  /\ heap = <<[members |-> << >>]>>
  /\ error = NULL
  /\ output = << >>
  /\ status = "running"

Stopped == status # "running" /\ UNCHANGED vars

Instruction ==
  \/ Arithmetic \/ Not \/ LoadConst \/ PushNil \/ PushBool \/ Pop \/ Duplicate \/ FlipTwo \/ SinkFirst
  \/ Ignore \/ Jump \/ JumpFalse \/ JumpElsePop \/ PrintTop
  \/ SaveLocal \/ LoadLocal \/ SaveClose \/ LoadClose
  \/ PushNewObject \/ LoadMember \/ SaveMember \/ MakeObject \/ MakeArray \/ LoadIndex \/ SaveIndex
  \/ MakeIter \/ NextIterOrJump \/ IterIndex
  \/ MakeFunction \/ Call \/ CallNothing \/ Return
  \/ PushCatch \/ PopCatch \/ Raise

Next == Instruction \/ Leave \/ Finish \/ Catch \/ Escape \/ Fatal \/ Stopped
=============================================================================

-------------------------------- MODULE LkyGC -------------------------------
(***************************************************************************)
(* interpreter/lky_gc.c: the stop-the-world mark and sweep collector, with *)
(* the bytecode of lky_machine.c that creates, moves and drops the         *)
(* pointers it follows.  One action is one instruction (or one native      *)
(* call); a sweep is one action per object, because destroying an object   *)
(* may run bytecode, and bytecode may start another collection.            *)
(*                                                                         *)
(* Pointers: `env' of a function is the scope it was made in, `member' of  *)
(* an object the one value stored in it.  Sizes are counted in objects.    *)
(* The constants in capitals say what the program being run does, so that  *)
(* the collector's guarantee can be stated for the programs that have it.  *)
(***************************************************************************)
EXTENDS Integers, Sequences, FiniteSets

CONSTANTS Obj,            \* addresses of objects
          NULL,
          Stdlib,         \* objects made before gc_init: never in the pool
          Proto,          \* the pooled prototype an object of Stdlib refers to, or NULL
          Main,           \* the main function, one of Stdlib
          Scope,          \* the main function's bucket
          Destroyable,    \* addresses whose objects have an on_destroy_ in Lanky
          NumLocals,      \* code->num_locals
          StackSize,      \* code->stack_size
          Growth,         \* growth_size
          MaxFrames,      \* bound on nested calls
          MaxPermanent,   \* bound on the objects that are never collected
          MaxSweeps,      \* bound on nested collections
          SKIPS_LOCALS,   \* the program may leave a local unset below a set one
          READS_STDLIB,   \* it reads pooled values out of objects of Stdlib
          PAUSES,         \* it calls Meta.gc_pause
          HALTS           \* it calls Meta.gc_halt

ASSUME ObjAssumption ==
  /\ IsFiniteSet(Obj) /\ NULL \notin Obj
  /\ Stdlib \subseteq Obj /\ Main \in Stdlib /\ Destroyable \subseteq Obj
  /\ Scope \in Obj \ Stdlib /\ Proto \in (Obj \ Stdlib) \cup {NULL} /\ Proto # Scope
ASSUME BoundAssumption ==
  /\ NumLocals \in Nat
  /\ StackSize \in Nat \ {0} /\ Growth \in Nat \ {0}
  /\ MaxPermanent \in Nat /\ MaxFrames \in Nat \ {0} /\ MaxSweeps \in Nat \ {0}
ASSUME ProgramAssumption ==
  /\ SKIPS_LOCALS \in BOOLEAN /\ READS_STDLIB \in BOOLEAN /\ PAUSES \in BOOLEAN /\ HALTS \in BOOLEAN

Local == 1..NumLocals

VARIABLES
  live,      \* objects allocated and not freed
  pool,      \* bundle.pool
  marked,    \* objects whose mem_count is 1
  member,    \* [Obj -> Obj or NULL]
  env,       \* [Obj -> Obj or NULL]
  roots,     \* bundle.roots: how many entries an object has
  frames,    \* the stack frames, outermost first
  locals,    \* the local slots of the functions' code: they belong to the code,
             \* not to a frame.  Top-level code has none (compile_ast_repl).
  started,   \* gc_started
  paused,    \* gc_paused
  cur,       \* bundle.cur_size
  max,       \* bundle.max_size
  survived,  \* bundle.marked_size
  sweeps     \* the activations of gc_collect, innermost last

heap == <<live, pool, marked, member, env>>
limits == <<cur, max, survived>>
flags == <<started, paused>>
vars == <<heap, roots, frames, locals, flags, limits, sweeps>>

Ptr == Obj \cup {NULL}
Frame == [func: Obj, bucket: Obj, data: Seq(Obj), saved: SUBSET Local]
Sweep == [todo: SUBSET Obj, dying: Ptr, byLimit: BOOLEAN, depth: Nat \ {0}]

TypeOK ==
  /\ live \subseteq Obj /\ pool \subseteq Obj /\ marked \subseteq Obj
  /\ member \in [Obj -> Ptr] /\ env \in [Obj -> Ptr]
  /\ roots \in [Obj -> Nat]
  /\ frames \in Seq(Frame) \ {<<>>}
  /\ locals \in [Local -> Ptr]
  /\ started \in BOOLEAN /\ paused \in BOOLEAN
  /\ cur \in Int /\ max \in Int /\ survived \in Int
  /\ sweeps \in Seq(Sweep)

Init ==
  /\ pool = {Proto, Scope} \ {NULL}
  /\ live = Stdlib \cup pool
  /\ marked = {}
  /\ member = [o \in Obj |-> IF o \in Stdlib \ {Main} THEN Proto ELSE NULL]
  /\ env = [o \in Obj |-> NULL]
  /\ roots = [o \in Obj |-> IF o = Main THEN 1 ELSE 0]
  /\ frames = <<[func |-> Main, bucket |-> Scope, data |-> <<>>, saved |-> {}]>>
  /\ locals = [i \in Local |-> NULL]
  /\ started = TRUE /\ paused = FALSE
  /\ cur = Cardinality(pool) /\ max = Growth /\ survived = 0
  /\ sweeps = <<>>

-----------------------------------------------------------------------------
(* The running frame.                                                      *)

top == frames[Len(frames)]
data == top.data
TOP == data[Len(data)]

SetData(d) == frames' = [frames EXCEPT ![Len(frames)].data = d]
Popped(d) == SubSeq(d, 1, Len(d) - 1)

\* gc_gc collects at the top of the instruction loop, whatever gc_started is.
Due == cur >= max /\ ~paused

\* Bytecode runs unless the collector is sweeping; it also runs while the
\* collector waits for an on_destroy_.
Interpreting == sweeps # <<>> => sweeps[Len(sweeps)].dying # NULL
Step == Interpreting /\ ~Due

Room == Len(data) < StackSize

\* Objects made before gc_init, or while the collector was off, stay.
Permanent == live \ pool

\* lobj_alloc and its siblings, with gc_add_object
Allocates(o) ==
  /\ o \in Obj \ live
  /\ live' = live \cup {o}
  /\ marked' = marked \ {o}
  /\ IF started THEN pool' = pool \cup {o} /\ cur' = cur + 1
                ELSE UNCHANGED <<pool, cur>>

\* LI_PUSH_NEW_OBJECT
PushNewObject(o) ==
  /\ Step /\ Room
  /\ Allocates(o)
  /\ SetData(Append(data, o))
  /\ member' = [member EXCEPT ![o] = NULL]
  /\ env' = [env EXCEPT ![o] = NULL]
  /\ UNCHANGED <<roots, locals, flags, max, survived, sweeps>>

\* LI_MAKE_FUNCTION: a closure over the running frame's bucket
MakeFunction(o) ==
  /\ Step /\ Room
  /\ Allocates(o)
  /\ SetData(Append(data, o))
  /\ member' = [member EXCEPT ![o] = NULL]
  /\ env' = [env EXCEPT ![o] = top.bucket]
  /\ UNCHANGED <<roots, locals, flags, max, survived, sweeps>>

\* A broken Readable, for the runs to catch: an unset member reads as NULL.
ReadableUnset(o, v) == o \in Permanent /\ v \notin Permanent => READS_STDLIB

\* Most programs read out of them nothing that is in the pool.
Readable(o, v) == v # NULL /\ (o \in Permanent /\ v \notin Permanent => READS_STDLIB)

\* LI_LOAD_CLOSE: from the own bucket, or from the scope of the function
LoadClose ==
  /\ Step /\ Room
  /\ \E b \in {top.bucket, env[top.func]} \ {NULL} :
       /\ Readable(b, member[b])
       /\ SetData(Append(data, member[b]))
  /\ UNCHANGED <<heap, roots, locals, flags, limits, sweeps>>

\* LI_SAVE_CLOSE
SaveClose ==
  /\ Step /\ Len(data) > 0
  /\ \E b \in {top.bucket, env[top.func]} \ {NULL} :
       member' = [member EXCEPT ![b] = TOP]
  /\ UNCHANGED <<live, pool, marked, env, roots, frames, locals, flags, limits, sweeps>>

\* LI_LOAD_MEMBER
LoadMember ==
  /\ Step /\ Len(data) > 0
  /\ Readable(TOP, member[TOP])
  /\ SetData(Append(Popped(data), member[TOP]))
  /\ UNCHANGED <<heap, roots, locals, flags, limits, sweeps>>

\* LI_SAVE_MEMBER
SaveMember ==
  /\ Step /\ Len(data) > 1
  /\ member' = [member EXCEPT ![TOP] = data[Len(data) - 1]]
  /\ SetData(Popped(data))
  /\ UNCHANGED <<live, pool, marked, env, roots, locals, flags, limits, sweeps>>

\* A stdlib class, loaded by its name
PushStdlib(o) ==
  /\ Step /\ Room /\ o \in Stdlib \ {Main}
  /\ SetData(Append(data, o))
  /\ UNCHANGED <<heap, roots, locals, flags, limits, sweeps>>

\* LI_POP
Pop ==
  /\ Step /\ Len(data) > 0
  /\ SetData(Popped(data))
  /\ UNCHANGED <<heap, roots, locals, flags, limits, sweeps>>

\* LI_SAVE_LOCAL.  A branch not taken leaves the slots of its variables unset.
SaveLocal(i) ==
  /\ Step /\ top.func # Main /\ Len(data) > 0
  /\ ~SKIPS_LOCALS => \A j \in Local : j < i => locals[j] # NULL
  /\ locals' = [locals EXCEPT ![i] = TOP]
  /\ frames' = [frames EXCEPT ![Len(frames)].saved = @ \cup {i}]
  /\ UNCHANGED <<heap, roots, flags, limits, sweeps>>

\* LI_LOAD_LOCAL of a variable this activation has set
LoadLocal(i) ==
  /\ Step /\ Room /\ i \in top.saved
  /\ SetData(Append(data, locals[i]))
  /\ UNCHANGED <<heap, roots, locals, flags, limits, sweeps>>

\* A broken AddRoot: the test of gc_started the wrong way round.
AddRootWhenOff(o) == roots' = IF started THEN roots ELSE [roots EXCEPT ![o] = @ + 1]

AddRoot(o) == roots' = IF started THEN [roots EXCEPT ![o] = @ + 1] ELSE roots
RemoveRoot(o) == roots' = [roots EXCEPT ![o] = IF @ = 0 THEN 0 ELSE @ - 1]

NewFrame(f, b) == [func |-> f, bucket |-> b, data |-> <<>>, saved |-> {}]

\* LI_CALL_FUNC of a Lanky function: lobjb_default_callable makes the bucket
\* and puts the argument in it, mach_execute pushes the frame and roots the
\* function.
CallFunc(b, argc) ==
  /\ Step /\ Len(data) > argc /\ Len(frames) < MaxFrames
  /\ env[TOP] # NULL
  /\ Allocates(b)
  /\ member' = [member EXCEPT ![b] = IF argc = 1 THEN data[Len(data) - 1] ELSE NULL]
  /\ env' = [env EXCEPT ![b] = NULL]
  /\ AddRoot(TOP)
  /\ frames' = Append([frames EXCEPT ![Len(frames)].data = SubSeq(@, 1, Len(@) - 1 - argc)],
                      NewFrame(TOP, b))
  /\ UNCHANGED <<locals, flags, max, survived, sweeps>>

\* The frame an on_destroy_ runs in ends in Destroyed, the main frame never.
IsCall ==
  /\ Len(frames) > 1
  /\ sweeps # <<>> => Len(frames) > sweeps[Len(sweeps)].depth + 1

\* LI_RETURN and the end of mach_execute.  The locals keep their values.
Return ==
  /\ Step /\ IsCall /\ Len(data) > 0
  /\ LET n == Len(frames) - 1
     IN frames' = [SubSeq(frames, 1, n) EXCEPT ![n].data = Append(@, TOP)]
  /\ RemoveRoot(top.func)
  /\ UNCHANGED <<heap, locals, flags, limits, sweeps>>

\* gc_pause, compile and gc_resume: md_load_text_code, stlmeta_compile_and_exec
CompileModule(o) ==
  /\ Step /\ Room
  /\ o \in Obj \ live /\ Cardinality(Permanent) < MaxPermanent
  /\ live' = live \cup {o}
  /\ marked' = marked \ {o}
  /\ member' = [member EXCEPT ![o] = NULL]
  /\ env' = [env EXCEPT ![o] = NULL]
  /\ SetData(Append(data, o))
  /\ started' = TRUE
  /\ UNCHANGED <<pool, roots, locals, paused, limits, sweeps>>

\* Meta.gc_pause, Meta.gc_halt, Meta.gc_resume
SetFlags ==
  /\ Step
  /\ \/ PAUSES /\ paused' = TRUE /\ started' = started
     \/ HALTS /\ started' = FALSE /\ paused' = paused
     \/ started' = TRUE /\ paused' = FALSE
  /\ UNCHANGED <<heap, roots, frames, locals, limits, sweeps>>

-----------------------------------------------------------------------------
(* Marking.                                                                *)

\* A broken Scanned: off by one at the last slot.
ScannedShort(f) ==
  IF f.func = Main THEN {}
  ELSE {locals[i] : i \in {i \in Local : i < NumLocals /\ \A j \in 1..i : locals[j] # NULL}}

\* gc_mark_stack on the locals of a frame: it stops at the first NULL.
Scanned(f) ==
  IF f.func = Main THEN {}
  ELSE {locals[i] : i \in {i \in Local : \A j \in 1..i : locals[j] # NULL}}

\* gc_mark_function_stack marks the bucket, the scopes above it and the data
\* stack of a frame, but not the function: that is what the root list is for.
FramePointers(f) ==
  {f.bucket} \cup {f.data[i] : i \in DOMAIN f.data} \cup ({env[f.func]} \ {NULL})

\* A broken RootSet: only the running frame is scanned.
RootSetOfTop ==
  {o \in Obj : roots[o] > 0} \cup FramePointers(top) \cup Scanned(top)

RootSet ==
  {o \in Obj : roots[o] > 0}
    \cup UNION {FramePointers(frames[i]) \cup Scanned(frames[i])
                : i \in DOMAIN frames}

Fields(o) == {member[o], env[o]} \ {NULL}

\* gc_mark_object returns at once at an object that is marked; a freed block
\* reads as marked, the link aquarium.c put there having those bits set.
Visited ==
  LET White == live \ marked
      First == RootSet \cap White
      Closed(C) == First \subseteq C /\ \A o \in C : Fields(o) \cap White \subseteq C
      AllClosed == {C \in SUBSET White : Closed(C)}
  IN {o \in White : \A C \in AllClosed : o \in C}

\* gc_mark and the start of gc_collect
Collect(byLimit) ==
  /\ Len(sweeps) < MaxSweeps
  /\ marked' = marked \cup Visited
  /\ survived' = 0
  /\ sweeps' = Append(sweeps, [todo |-> pool, dying |-> NULL,
                               byLimit |-> byLimit, depth |-> Len(frames)])
  /\ UNCHANGED <<live, pool, member, env, roots, frames, locals, flags, cur, max>>

\* gc_gc, called by the instruction loop
CollectWhenDue == Interpreting /\ Due /\ Collect(TRUE)

\* Meta.gc_collect, which looks at no limit and no flag
CollectByCall == Step /\ Collect(FALSE)

-----------------------------------------------------------------------------
(* Sweeping: the loop of gc_collect over the pool as it was at its start.  *)

now == sweeps[Len(sweeps)]

\* gchs_to_list lists the pool by address, so addresses are visited in a fixed
\* order; an object can have any address.
Visiting(o) ==
  /\ sweeps # <<>> /\ now.dying = NULL /\ now.todo # {}
  /\ o = CHOOSE p \in now.todo : TRUE
Done(o) == [sweeps EXCEPT ![Len(sweeps)].todo = @ \ {o}]

\* A broken Keep: mem_count is not reset.
KeepMarked(o) ==
  /\ Visiting(o)
  /\ o \in marked \/ o \notin live
  /\ survived' = survived + 1
  /\ sweeps' = Done(o)
  /\ UNCHANGED <<heap, roots, frames, locals, flags, cur, max>>

\* A block that a nested collection freed reads as marked, too.
Keep(o) ==
  /\ Visiting(o)
  /\ o \in marked \/ o \notin live
  /\ marked' = marked \ {o}
  /\ survived' = survived + 1
  /\ sweeps' = Done(o)
  /\ UNCHANGED <<live, pool, member, env, roots, frames, locals, flags, cur, max>>

\* lobj_dealloc and gchs_remove
Dealloc(o) ==
  /\ live' = live \ {o}
  /\ pool' = pool \ {o}
  /\ member' = [member EXCEPT ![o] = NULL]
  /\ env' = [env EXCEPT ![o] = NULL]

\* A broken Free: cur_size keeps the size of the freed object.
FreeUncounted(o) ==
  /\ Visiting(o) /\ o \in live \ marked
  /\ o \notin Destroyable
  /\ Dealloc(o)
  /\ sweeps' = Done(o)
  /\ UNCHANGED <<marked, roots, frames, locals, flags, limits>>

Free(o) ==
  /\ Visiting(o) /\ o \in live \ marked
  /\ o \notin Destroyable
  /\ cur' = cur - 1
  /\ Dealloc(o)
  /\ sweeps' = Done(o)
  /\ UNCHANGED <<marked, roots, frames, locals, flags, max, survived>>

\* The object's on_destroy_ is called, with the object as its self.
Destroy(o, f, b) ==
  /\ Visiting(o) /\ o \in live \ marked
  /\ o \in Destroyable /\ Len(frames) < MaxFrames
  /\ f \in live \ {o} /\ env[f] # NULL
  /\ b \in Obj \ live
  /\ live' = live \cup {b}
  /\ marked' = marked \ {b}
  /\ IF started THEN pool' = pool \cup {b} /\ cur' = cur
                ELSE pool' = pool /\ cur' = cur - 1
  /\ member' = [member EXCEPT ![b] = o]
  /\ env' = [env EXCEPT ![b] = NULL]
  /\ AddRoot(f)
  /\ frames' = Append(frames, NewFrame(f, b))
  /\ sweeps' = [sweeps EXCEPT ![Len(sweeps)].dying = o]
  /\ UNCHANGED <<locals, flags, max, survived>>

\* The on_destroy_ returns and its object is freed, whatever became of it.
Destroyed ==
  /\ Step /\ sweeps # <<>> /\ Len(frames) = now.depth + 1
  /\ frames' = SubSeq(frames, 1, now.depth)
  /\ RemoveRoot(top.func)
  /\ Dealloc(now.dying)
  /\ sweeps' = [sweeps EXCEPT ![Len(sweeps)].todo = @ \ {now.dying},
                              ![Len(sweeps)].dying = NULL]
  /\ UNCHANGED <<marked, locals, flags, limits>>

\* A broken EndSweep: the limit is set to what survived, with no growth.
EndSweepTight ==
  /\ sweeps # <<>> /\ now.dying = NULL /\ now.todo = {}
  /\ sweeps' = SubSeq(sweeps, 1, Len(sweeps) - 1)
  /\ max' = IF now.byLimit THEN survived ELSE max
  /\ survived' = IF Len(sweeps) = 1 THEN 0 ELSE survived
  /\ UNCHANGED <<heap, roots, frames, locals, flags, cur>>

\* The end of gc_collect, and of gc_gc.  Between collections nobody reads
\* marked_size, and the model forgets it.
EndSweep ==
  /\ sweeps # <<>> /\ now.dying = NULL /\ now.todo = {}
  /\ sweeps' = SubSeq(sweeps, 1, Len(sweeps) - 1)
  /\ max' = IF now.byLimit THEN survived + Growth ELSE max
  /\ survived' = IF Len(sweeps) = 1 THEN 0 ELSE survived
  /\ UNCHANGED <<heap, roots, frames, locals, flags, cur>>

-----------------------------------------------------------------------------
Instruction ==
  \/ LoadClose \/ SaveClose \/ LoadMember \/ SaveMember \/ Pop \/ Return \/ SetFlags
  \/ \E o \in Obj : \/ PushNewObject(o) \/ MakeFunction(o) \/ PushStdlib(o)
                    \/ CompileModule(o) \/ CallFunc(o, 0) \/ CallFunc(o, 1)
  \/ \E i \in Local : SaveLocal(i) \/ LoadLocal(i)

Collection ==
  \/ CollectWhenDue \/ CollectByCall \/ Destroyed \/ EndSweep
  \/ \E o \in Obj : \/ Keep(o) \/ Free(o)
                    \/ \E f, b \in Obj : Destroy(o, f, b)

Next == Instruction \/ Collection

Spec == Init /\ [][Next]_vars

-----------------------------------------------------------------------------
\* What the program can still get at from its frames: the functions that run,
\* their scopes, operands and the locals they have set, and from there the
\* fields of objects.
Held(f) == {f.func} \cup FramePointers(f) \cup {locals[i] : i \in f.saved}

\* The collector frees nothing the program can still reach: some set of live
\* objects has all that the frames hold and all that its members refer to.
ReachableIsLive ==
  LET Out(o) == IF o \in Permanent /\ ~READS_STDLIB THEN {} ELSE Fields(o)
  IN \E C \in SUBSET live : /\ \A i \in DOMAIN frames : Held(frames[i]) \subseteq C
                            /\ \A o \in C : Out(o) \subseteq C

\* A function that is running is in the root list once for each of its frames
\* (gc_add_root_object is silent after Meta.gc_halt, gc_remove_root_object is not).
RootsCoverFrames ==
  \A o \in Obj : Cardinality({i \in DOMAIN frames : frames[i].func = o}) <= roots[o]

\* Outside a collection no object of the pool is marked: a mark left behind
\* would hide the object's fields from the next gc_mark.
MarksCleared == sweeps = <<>> => pool \cap marked = {}

\* cur_size is the size of the pool; it is what triggers the next collection.
SizeIsExact ==
  cur = Cardinality(pool) - Cardinality({i \in DOMAIN sweeps : sweeps[i].dying # NULL})

\* gc_gc leaves room below the limit, so the next instruction does not
\* collect again.
LeavesRoom ==
  [][sweeps # <<>> /\ sweeps' = <<>> /\ sweeps[1].byLimit => cur' < max']_vars
=============================================================================

---------------------------- MODULE LkyGCProofs -----------------------------
(***************************************************************************)
(* Theorems about LkyGC, for any heap, program and growth of the limit.    *)
(***************************************************************************)
EXTENDS LkyGC, FiniteSetTheorems, SequenceTheorems, TLAPS

-----------------------------------------------------------------------------
(* Sequences, as stacks.                                                   *)

\* The last element of a stack is replaced.
LEMMA Replaced ==
  ASSUME NEW S, NEW s \in Seq(S), s # <<>>, NEW x \in S
  PROVE  LET t == [s EXCEPT ![Len(s)] = x]
         IN  /\ t \in Seq(S) /\ t # <<>> /\ Len(t) = Len(s)
             /\ \A i \in 1..Len(s) : t[i] = IF i = Len(s) THEN x ELSE s[i]
<1>1. Len(s) \in 1..Len(s)
  BY SMT
<1> DEFINE t == [s EXCEPT ![Len(s)] = x]
<1>2. /\ t \in Seq(S) /\ Len(t) = Len(s)
      /\ \A i \in 1..Len(s) : t[i] = IF i = Len(s) THEN x ELSE s[i]
  BY <1>1, ExceptSeq
<1>3. t # <<>>
  BY <1>1, <1>2, Len(<<>>) = 0, SMT
<1> QED BY <1>2, <1>3

\* The first n elements of a stack.
LEMMA Bottom ==
  ASSUME NEW S, NEW s \in Seq(S), NEW n \in 0..Len(s)
  PROVE  /\ SubSeq(s, 1, n) \in Seq(S) /\ Len(SubSeq(s, 1, n)) = n
         /\ \A i \in 1..n : SubSeq(s, 1, n)[i] = s[i]
<1>1. n \in Int /\ \A i \in 1..n : s[i] \in S
  OBVIOUS
<1>2. /\ SubSeq(s, 1, n) \in Seq(S)
      /\ Len(SubSeq(s, 1, n)) = IF 1 <= n THEN n - 1 + 1 ELSE 0
      /\ \A i \in 1..n-1+1 : SubSeq(s, 1, n)[i] = s[1+i-1]
  BY <1>1, SubSeqProperties
<1>3. n - 1 + 1 = n /\ (~(1 <= n) => n = 0) /\ \A i \in 1..n : 1 + i - 1 = i
  BY SMT
<1> QED BY <1>2, <1>3

\* Pushing an element on a stack whose elements are in D.
LEMMA Pushed ==
  ASSUME NEW S, NEW s \in Seq(S), NEW x \in S, NEW D, \A i \in DOMAIN s : s[i] \in D, x \in D
  PROVE  Append(s, x) \in Seq(S) /\ \A i \in DOMAIN Append(s, x) : Append(s, x)[i] \in D
<1> DEFINE t == Append(s, x)
<1>1. /\ t \in Seq(S) /\ Len(t) = Len(s) + 1
      /\ \A k \in 1..Len(s) : t[k] = s[k]
      /\ t[Len(s) + 1] = x
  BY AppendProperties
<1> HIDE DEF t
<1>2. DOMAIN t = 1..Len(s)+1 /\ DOMAIN s = 1..Len(s) /\ Len(s) \in Nat
  BY <1>1
<1>3. \A i \in 1..Len(s)+1 : i \in 1..Len(s) \/ i = Len(s) + 1
  BY <1>2, SMT
<1>4. \A i \in DOMAIN t : t[i] \in D
  BY <1>1, <1>2, <1>3
<1> QED BY <1>1, <1>4 DEF t

-----------------------------------------------------------------------------
(* Types.                                                                  *)

\* A local that some activation has set is set: no instruction unsets one.
SavedSet == \A k \in DOMAIN frames : \A i \in frames[k].saved : locals[i] # NULL

LEMMA TopTyped ==
  ASSUME TypeOK
  PROVE  /\ frames \in Seq(Frame) /\ frames # <<>> /\ Len(frames) \in Nat \ {0}
         /\ DOMAIN frames = 1..Len(frames) /\ Len(frames) \in DOMAIN frames
         /\ \A i \in DOMAIN frames : frames[i] \in Frame
         /\ top \in Frame /\ top.func \in Obj /\ top.bucket \in Obj /\ top.saved \in SUBSET Local
         /\ data \in Seq(Obj) /\ Len(data) \in Nat /\ DOMAIN data = 1..Len(data)
         /\ \A i \in DOMAIN data : data[i] \in Obj
         /\ Len(data) > 0 => /\ TOP \in Obj /\ Popped(data) \in Seq(Obj)
                             /\ \A i \in DOMAIN Popped(data) : i \in DOMAIN data /\ Popped(data)[i] = data[i]
<1>1. frames \in Seq(Frame) /\ frames # <<>>
  BY DEF TypeOK
<1>2. /\ Len(frames) \in Nat \ {0} /\ DOMAIN frames = 1..Len(frames) /\ Len(frames) \in DOMAIN frames
      /\ \A i \in DOMAIN frames : frames[i] \in Frame
  BY <1>1, SMT
<1>3. top \in Frame
  BY <1>2 DEF top
<1>4. top.func \in Obj /\ top.bucket \in Obj /\ top.saved \in SUBSET Local /\ data \in Seq(Obj)
  BY <1>3 DEF Frame, data
<1>5. /\ Len(data) \in Nat /\ DOMAIN data = 1..Len(data)
      /\ \A i \in DOMAIN data : data[i] \in Obj
  BY <1>4
<1>6. ASSUME Len(data) > 0
      PROVE  /\ TOP \in Obj /\ Popped(data) \in Seq(Obj)
             /\ \A i \in DOMAIN Popped(data) : i \in DOMAIN data /\ Popped(data)[i] = data[i]
  <2>1. Len(data) \in DOMAIN data /\ Len(data) - 1 \in 0..Len(data)
    BY <1>5, <1>6, SMT
  <2>2. /\ Popped(data) \in Seq(Obj) /\ Len(Popped(data)) = Len(data) - 1
        /\ \A i \in 1..Len(data)-1 : Popped(data)[i] = data[i]
    BY <1>4, <2>1, Bottom DEF Popped
  <2>3. DOMAIN Popped(data) = 1..Len(data)-1
    BY <2>2
  <2>4. \A i \in 1..Len(data)-1 : i \in DOMAIN data
    BY <1>5, SMT
  <2> QED BY <1>5, <2>1, <2>2, <2>3, <2>4 DEF TOP
<1> QED BY <1>1, <1>2, <1>3, <1>4, <1>5, <1>6

\* The running frame's operands become d.
LEMMA DataTyped ==
  ASSUME TypeOK, NEW d \in Seq(Obj), SetData(d)
  PROVE  /\ frames' \in Seq(Frame) \ {<<>>} /\ Len(frames') = Len(frames)
         /\ \A i \in 1..Len(frames) :
              frames'[i] = IF i = Len(frames) THEN [top EXCEPT !.data = d] ELSE frames[i]
<1>1. [top EXCEPT !.data = d] \in Frame
  BY TopTyped DEF Frame
<1>2. frames' = [frames EXCEPT ![Len(frames)] = [top EXCEPT !.data = d]]
  BY DEF SetData, top
<1> QED BY <1>1, <1>2, TopTyped, Replaced

\* A frame is pushed, or the last one dropped.
LEMMA PushedFrame ==
  ASSUME NEW S, NEW s \in Seq(S), NEW x \in S
  PROVE  Append(s, x) \in Seq(S) \ {<<>>}
BY AppendProperties

LEMMA PushTyped == ASSUME TypeOK, NEW o \in Obj, PushNewObject(o) \/ MakeFunction(o) PROVE TypeOK'
<1>1. Append(data, o) \in Seq(Obj) /\ SetData(Append(data, o))
  BY TopTyped, AppendProperties DEF PushNewObject, MakeFunction
<1>2. frames' \in Seq(Frame) \ {<<>>}
  BY <1>1, DataTyped
<1>3. /\ live' \subseteq Obj /\ pool' \subseteq Obj /\ marked' \subseteq Obj /\ cur' \in Int
      /\ UNCHANGED <<roots, locals, flags, max, survived, sweeps>>
  BY SMT DEF TypeOK, PushNewObject, MakeFunction, Allocates
<1>4. member' \in [Obj -> Ptr] /\ env' \in [Obj -> Ptr]
  BY TopTyped DEF TypeOK, PushNewObject, MakeFunction, Ptr
<1> QED BY <1>2, <1>3, <1>4 DEF TypeOK, flags

\* The instructions that only move pointers between the heap and the operands.
Moves(d) == SetData(d) /\ UNCHANGED <<heap, roots, locals, flags, limits, sweeps>>

LEMMA MovesTyped == ASSUME TypeOK, NEW d \in Seq(Obj), Moves(d) PROVE TypeOK'
<1>1. frames' \in Seq(Frame) \ {<<>>}
  BY DataTyped DEF Moves
<1> QED BY <1>1 DEF TypeOK, Moves, heap, flags, limits

LEMMA LoadCloseMoves ==
  ASSUME TypeOK, LoadClose
  PROVE  \E b \in {top.bucket, env[top.func]} \ {NULL} :
           b \in Obj /\ member[b] \in Obj /\ Readable(b, member[b]) /\ Moves(Append(data, member[b]))
<1>1. PICK b \in {top.bucket, env[top.func]} \ {NULL} : Readable(b, member[b]) /\ SetData(Append(data, member[b]))
  BY DEF LoadClose
<1>2. b \in Obj
  BY TopTyped DEF TypeOK, Ptr
<1>3. member[b] \in Obj
  BY <1>1, <1>2 DEF Readable, TypeOK, Ptr
<1> QED BY <1>1, <1>2, <1>3 DEF LoadClose, Moves

LEMMA LoadMemberMoves ==
  ASSUME TypeOK, LoadMember
  PROVE  /\ TOP \in Obj /\ member[TOP] \in Obj /\ Readable(TOP, member[TOP]) /\ Len(data) > 0
         /\ Moves(Append(Popped(data), member[TOP]))
<1>1. Len(data) > 0 /\ Readable(TOP, member[TOP])
  BY DEF LoadMember
<1>2. TOP \in Obj
  BY <1>1, TopTyped
<1>3. member[TOP] \in Obj
  BY <1>1, <1>2 DEF Readable, TypeOK, Ptr
<1> QED BY <1>1, <1>2, <1>3 DEF LoadMember, Moves

LEMMA MovementTyped ==
  ASSUME TypeOK, LoadClose \/ LoadMember \/ Pop \/ (\E o \in Obj : PushStdlib(o))
  PROVE  TypeOK'
<1>1. CASE LoadClose
  BY <1>1, LoadCloseMoves, TopTyped, AppendProperties, MovesTyped
<1>2. CASE LoadMember
  BY <1>2, LoadMemberMoves, TopTyped, AppendProperties, MovesTyped
<1>3. CASE Pop
  BY <1>3, TopTyped, MovesTyped DEF Pop, Moves
<1>4. ASSUME NEW o \in Obj, PushStdlib(o) PROVE TypeOK'
  BY <1>4, TopTyped, AppendProperties, MovesTyped DEF PushStdlib, Moves
<1> QED BY <1>1, <1>2, <1>3, <1>4

LEMMA SaveCloseTyped == ASSUME TypeOK, SaveClose PROVE TypeOK'
<1>1. PICK b \in {top.bucket, env[top.func]} \ {NULL} : member' = [member EXCEPT ![b] = TOP]
  BY DEF SaveClose
<1>2. TOP \in Obj
  BY TopTyped DEF SaveClose
<1>3. member' \in [Obj -> Ptr]
  BY <1>1, <1>2 DEF TypeOK, Ptr
<1> QED BY <1>3 DEF SaveClose, TypeOK, flags, limits

LEMMA SaveMemberTyped == ASSUME TypeOK, SaveMember PROVE TypeOK'
<1>1. /\ Len(data) > 1 /\ member' = [member EXCEPT ![TOP] = data[Len(data) - 1]]
      /\ SetData(Popped(data))
      /\ UNCHANGED <<live, pool, marked, env, roots, locals, flags, limits, sweeps>>
  BY DEF SaveMember
<1>2. Len(data) > 0 /\ Len(data) - 1 \in DOMAIN data
  BY <1>1, TopTyped, SMT
<1>3. Popped(data) \in Seq(Obj) /\ data[Len(data) - 1] \in Obj
  BY <1>2, TopTyped
<1>4. member' \in [Obj -> Ptr]
  BY <1>1, <1>3 DEF TypeOK, Ptr
<1>5. frames' \in Seq(Frame) \ {<<>>}
  BY <1>1, <1>3, DataTyped
<1> QED BY <1>1, <1>4, <1>5 DEF TypeOK, flags, limits

LEMMA SaveLocalFrames ==
  ASSUME TypeOK, NEW i \in Local, SaveLocal(i)
  PROVE  /\ frames' \in Seq(Frame) \ {<<>>} /\ Len(frames') = Len(frames)
         /\ \A k \in 1..Len(frames) :
              frames'[k] = IF k = Len(frames) THEN [top EXCEPT !.saved = @ \cup {i}] ELSE frames[k]
<1>1. [top EXCEPT !.saved = @ \cup {i}] \in Frame
  BY TopTyped DEF Frame
<1>2. frames' = [frames EXCEPT ![Len(frames)] = [top EXCEPT !.saved = @ \cup {i}]]
  BY DEF SaveLocal, top
<1> QED BY <1>1, <1>2, TopTyped, Replaced

LEMMA LoadLocalMoves ==
  ASSUME TypeOK, SavedSet, NEW i \in Local, LoadLocal(i)
  PROVE  i \in top.saved /\ locals[i] \in Obj /\ Moves(Append(data, locals[i]))
<1>1. i \in top.saved /\ SetData(Append(data, locals[i]))
  BY DEF LoadLocal
<1>2. locals[i] # NULL
  BY <1>1, TopTyped DEF SavedSet, top
<1>3. locals[i] \in Obj
  BY <1>2 DEF TypeOK, Ptr
<1> QED BY <1>1, <1>3 DEF LoadLocal, Moves

LEMMA LocalsTyped == ASSUME TypeOK, SavedSet, NEW i \in Local, SaveLocal(i) \/ LoadLocal(i) PROVE TypeOK'
<1>1. CASE SaveLocal(i)
  <2>1. TOP \in Obj
    BY <1>1, TopTyped DEF SaveLocal
  <2>2. locals' \in [Local -> Ptr]
    BY <1>1, <2>1 DEF SaveLocal, TypeOK, Ptr
  <2> QED BY <1>1, <2>2, SaveLocalFrames DEF SaveLocal, TypeOK, heap, flags, limits
<1>2. CASE LoadLocal(i)
  BY <1>2, LoadLocalMoves, TopTyped, AppendProperties, MovesTyped
<1> QED BY <1>1, <1>2

\* A call pops the function and its argument and pushes a frame.
LEMMA CallFrames ==
  ASSUME TypeOK, NEW b \in Obj, NEW argc \in {0, 1}, CallFunc(b, argc)
  PROVE  LET d == SubSeq(data, 1, Len(data) - 1 - argc)
         IN  /\ TOP \in Obj /\ (argc = 1 => data[Len(data) - 1] \in Obj /\ Len(data) - 1 \in DOMAIN data)
             /\ DOMAIN d \subseteq DOMAIN data /\ \A i \in DOMAIN d : d[i] = data[i]
             /\ frames' \in Seq(Frame) \ {<<>>} /\ Len(frames') = Len(frames) + 1
             /\ \A k \in 1..Len(frames) :
                  frames'[k] = IF k = Len(frames) THEN [top EXCEPT !.data = d] ELSE frames[k]
             /\ frames'[Len(frames) + 1] = NewFrame(TOP, b)
             /\ NewFrame(TOP, b) \in Frame
<1> DEFINE n == Len(data) - 1 - argc
           d == SubSeq(data, 1, n)
           under == [frames EXCEPT ![Len(frames)] = [top EXCEPT !.data = d]]
<1>1. Len(data) > argc /\ frames' = Append(under, NewFrame(TOP, b))
  BY DEF CallFunc, top, data
<1>2. /\ Len(data) > 0 /\ n \in 0..Len(data)
      /\ argc = 1 => Len(data) - 1 \in DOMAIN data
  BY <1>1, TopTyped, SMT
<1>3. TOP \in Obj /\ (argc = 1 => data[Len(data) - 1] \in Obj)
  BY <1>2, TopTyped
<1>4. d \in Seq(Obj) /\ Len(d) = n /\ \A i \in 1..n : d[i] = data[i]
  BY <1>2, TopTyped, Bottom
<1>5. DOMAIN d = 1..n /\ DOMAIN data = 1..Len(data)
  <2>1. DOMAIN d = 1..Len(d)
    <3> HIDE DEF d
    <3> QED BY <1>4
  <2> QED BY <1>4, <2>1, TopTyped
<1>6. 1..n \subseteq 1..Len(data)
  BY <1>2, TopTyped, SMT
<1> HIDE DEF n, d
<1>7. [top EXCEPT !.data = d] \in Frame
  BY <1>4, TopTyped DEF Frame
<1>8. /\ under \in Seq(Frame) /\ Len(under) = Len(frames)
      /\ \A k \in 1..Len(frames) : under[k] = IF k = Len(frames) THEN [top EXCEPT !.data = d] ELSE frames[k]
  BY <1>7, TopTyped, Replaced
<1>9. NewFrame(TOP, b) \in Frame
  BY <1>3, EmptySeq DEF NewFrame, Frame
<1> HIDE DEF under
<1>10. /\ frames' \in Seq(Frame) \ {<<>>} /\ Len(frames') = Len(frames) + 1
       /\ \A k \in 1..Len(frames) : frames'[k] = under[k]
       /\ frames'[Len(frames) + 1] = NewFrame(TOP, b)
  BY <1>1, <1>8, <1>9, AppendProperties
<1> QED BY <1>2, <1>3, <1>4, <1>5, <1>6, <1>8, <1>9, <1>10 DEF d, n

LEMMA CallTyped == ASSUME TypeOK, NEW b \in Obj, NEW argc \in {0, 1}, CallFunc(b, argc) PROVE TypeOK'
<1>1. /\ live' \subseteq Obj /\ pool' \subseteq Obj /\ marked' \subseteq Obj /\ cur' \in Int
      /\ UNCHANGED <<locals, flags, max, survived, sweeps>>
  BY SMT DEF TypeOK, CallFunc, Allocates
<1>2. TOP \in Obj /\ (argc = 1 => data[Len(data) - 1] \in Obj) /\ frames' \in Seq(Frame) \ {<<>>}
  BY CallFrames
<1>3. member' \in [Obj -> Ptr] /\ env' \in [Obj -> Ptr]
  BY <1>2 DEF CallFunc, TypeOK, Ptr
<1>4. roots' \in [Obj -> Nat]
  BY <1>2, SMT DEF CallFunc, AddRoot, TypeOK
<1> QED BY <1>1, <1>2, <1>3, <1>4 DEF TypeOK, flags

\* A return drops the last frame and pushes its value on the one below.
LEMMA ReturnFrames ==
  ASSUME TypeOK, Return
  PROVE  LET n == Len(frames) - 1
         IN  /\ n \in DOMAIN frames /\ n \in Nat \ {0} /\ Len(data) > 0 /\ TOP \in Obj
             /\ frames' \in Seq(Frame) \ {<<>>} /\ Len(frames') = n
             /\ \A k \in 1..n : frames'[k] = IF k = n THEN [frames[n] EXCEPT !.data = Append(@, TOP)]
                                             ELSE frames[k]
             /\ Append(frames[n].data, TOP) \in Seq(Obj)
<1> DEFINE n == Len(frames) - 1
           under == SubSeq(frames, 1, n)
           f == [frames[n] EXCEPT !.data = Append(@, TOP)]
<1>1. Len(frames) > 1 /\ Len(data) > 0
  BY DEF Return, IsCall
<1>2. n \in DOMAIN frames /\ n \in Nat \ {0} /\ n \in 0..Len(frames) /\ n \in 1..n
  BY <1>1, TopTyped, SMT
<1>3. TOP \in Obj
  BY <1>1, TopTyped
<1>4. frames[n] \in Frame
  BY <1>2, TopTyped
<1>5. Append(frames[n].data, TOP) \in Seq(Obj)
  BY <1>3, <1>4, AppendProperties DEF Frame
<1>6. f \in Frame
  BY <1>4, <1>5 DEF Frame
<1>7. under \in Seq(Frame) /\ Len(under) = n /\ \A k \in 1..n : under[k] = frames[k]
  BY <1>2, TopTyped, Bottom
<1>8. frames' = [under EXCEPT ![n].data = Append(@, TOP)]
  BY DEF Return
<1>9. under[n] = frames[n]
  BY <1>2, <1>7
<1>10. frames' = [under EXCEPT ![Len(under)] = f]
  <2> HIDE DEF n, under
  <2> QED BY <1>7, <1>8, <1>9
<1>11. under # <<>>
  BY <1>2, <1>7, Len(<<>>) = 0
<1> HIDE DEF f, under
<1>12. /\ frames' \in Seq(Frame) /\ frames' # <<>> /\ Len(frames') = n
       /\ \A k \in 1..n : frames'[k] = IF k = n THEN f ELSE under[k]
  <2> HIDE DEF n
  <2> QED BY <1>6, <1>7, <1>10, <1>11, Replaced
<1> QED BY <1>1, <1>2, <1>3, <1>5, <1>7, <1>12 DEF f

LEMMA RootRemoved ==
  ASSUME TypeOK, NEW f \in Obj, RemoveRoot(f)
  PROVE  /\ roots' \in [Obj -> Nat]
         /\ \A o \in Obj : roots'[o] = IF o = f /\ roots[o] # 0 THEN roots[o] - 1 ELSE roots[o]
<1>1. roots \in [Obj -> Nat] /\ roots[f] \in Nat
  BY DEF TypeOK
<1>2. (IF roots[f] = 0 THEN 0 ELSE roots[f] - 1) \in Nat
  BY <1>1, SMT
<1>3. roots' = [roots EXCEPT ![f] = IF roots[f] = 0 THEN 0 ELSE roots[f] - 1]
  BY DEF RemoveRoot
<1> QED BY <1>1, <1>2, <1>3

LEMMA ReturnTyped == ASSUME TypeOK, Return PROVE TypeOK'
<1>1. frames' \in Seq(Frame) \ {<<>>}
  BY ReturnFrames
<1>2. roots' \in [Obj -> Nat]
  BY TopTyped, RootRemoved DEF Return
<1> QED BY <1>1, <1>2 DEF Return, TypeOK, heap, flags, limits

LEMMA OthersTyped == ASSUME TypeOK, (\E o \in Obj : CompileModule(o)) \/ SetFlags PROVE TypeOK'
<1>1. ASSUME NEW o \in Obj, CompileModule(o) PROVE TypeOK'
  <2>1. SetData(Append(data, o)) /\ Append(data, o) \in Seq(Obj)
    BY <1>1, TopTyped, AppendProperties DEF CompileModule
  <2>2. frames' \in Seq(Frame) \ {<<>>}
    BY <2>1, DataTyped
  <2>3. live' \subseteq Obj /\ marked' \subseteq Obj /\ started' \in BOOLEAN
    BY <1>1 DEF CompileModule, TypeOK
  <2>4. member' \in [Obj -> Ptr] /\ env' \in [Obj -> Ptr]
    BY <1>1 DEF CompileModule, TypeOK, Ptr
  <2> QED BY <1>1, <2>2, <2>3, <2>4 DEF CompileModule, TypeOK, limits
<1>2. CASE SetFlags
  BY <1>2 DEF SetFlags, TypeOK, heap, limits
<1> QED BY <1>1, <1>2

LEMMA NowTyped ==
  ASSUME TypeOK, sweeps # <<>>
  PROVE  /\ sweeps \in Seq(Sweep) /\ Len(sweeps) \in Nat \ {0} /\ Len(sweeps) \in DOMAIN sweeps
         /\ now \in Sweep /\ now.todo \subseteq Obj /\ now.dying \in Ptr /\ now.depth \in Nat \ {0}
<1>1. sweeps \in Seq(Sweep)
  BY DEF TypeOK
<1>2. Len(sweeps) \in Nat \ {0} /\ Len(sweeps) \in DOMAIN sweeps
  BY <1>1, SMT
<1>3. now \in Sweep
  BY <1>1, <1>2 DEF now
<1> QED BY <1>1, <1>2, <1>3 DEF Sweep

\* The innermost sweep becomes s.
LEMMA NowBecomes ==
  ASSUME TypeOK, sweeps # <<>>, NEW s \in Sweep, sweeps' = [sweeps EXCEPT ![Len(sweeps)] = s]
  PROVE  /\ sweeps' \in Seq(Sweep) /\ sweeps' # <<>> /\ Len(sweeps') = Len(sweeps)
         /\ \A i \in 1..Len(sweeps) : sweeps'[i] = IF i = Len(sweeps) THEN s ELSE sweeps[i]
BY NowTyped, Replaced

LEMMA VisitDone ==
  ASSUME TypeOK, NEW o \in Obj, sweeps # <<>>, sweeps' = Done(o)
  PROVE  /\ [now EXCEPT !.todo = @ \ {o}] \in Sweep
         /\ sweeps' = [sweeps EXCEPT ![Len(sweeps)] = [now EXCEPT !.todo = @ \ {o}]]
         /\ sweeps' \in Seq(Sweep)
<1>1. [now EXCEPT !.todo = @ \ {o}] \in Sweep
  BY NowTyped DEF Sweep
<1>2. sweeps' = [sweeps EXCEPT ![Len(sweeps)] = [now EXCEPT !.todo = @ \ {o}]]
  BY DEF Done, now
<1> QED BY <1>1, <1>2, NowBecomes

LEMMA CollectTyped == ASSUME TypeOK, NEW byLimit \in BOOLEAN, Collect(byLimit) PROVE TypeOK'
<1> DEFINE s == [todo |-> pool, dying |-> NULL, byLimit |-> byLimit, depth |-> Len(frames)]
<1>1. s \in Sweep
  BY TopTyped DEF TypeOK, Sweep, Ptr
<1>2. sweeps' = Append(sweeps, s) /\ sweeps \in Seq(Sweep)
  BY DEF Collect, TypeOK
<1> HIDE DEF s
<1>3. sweeps' \in Seq(Sweep)
  BY <1>1, <1>2, AppendProperties
<1>4. marked' \subseteq Obj /\ survived' \in Int
  BY SMT DEF Collect, Visited, TypeOK
<1> QED BY <1>3, <1>4 DEF Collect, TypeOK, flags

LEMMA KeepTyped == ASSUME TypeOK, NEW o \in Obj, Keep(o) PROVE TypeOK'
<1>1. sweeps' \in Seq(Sweep)
  BY VisitDone DEF Keep, Visiting
<1>2. survived' \in Int
  BY SMT DEF Keep, TypeOK
<1> QED BY <1>1, <1>2 DEF Keep, TypeOK, flags

LEMMA DeallocTyped ==
  ASSUME TypeOK, NEW o \in Obj, Dealloc(o)
  PROVE  /\ live' \subseteq Obj /\ pool' \subseteq Obj
         /\ member' \in [Obj -> Ptr] /\ env' \in [Obj -> Ptr]
BY DEF Dealloc, TypeOK, Ptr

LEMMA FreeTyped == ASSUME TypeOK, NEW o \in Obj, Free(o) PROVE TypeOK'
<1>1. sweeps' \in Seq(Sweep)
  BY VisitDone DEF Free, Visiting
<1>2. cur' \in Int
  BY SMT DEF Free, TypeOK
<1>3. /\ live' \subseteq Obj /\ pool' \subseteq Obj
      /\ member' \in [Obj -> Ptr] /\ env' \in [Obj -> Ptr]
  BY DeallocTyped DEF Free
<1> QED BY <1>1, <1>2, <1>3 DEF Free, TypeOK, flags

LEMMA DestroyTyped == ASSUME TypeOK, NEW o \in Obj, NEW f \in Obj, NEW b \in Obj, Destroy(o, f, b) PROVE TypeOK'
<1>1. NewFrame(f, b) \in Frame
  BY EmptySeq DEF NewFrame, Frame
<1>2. frames' \in Seq(Frame) \ {<<>>}
  BY <1>1, TopTyped, PushedFrame DEF Destroy
<1>3. sweeps' \in Seq(Sweep)
  <2>1. [now EXCEPT !.dying = o] \in Sweep
    BY NowTyped DEF Sweep, Destroy, Visiting, Ptr
  <2>2. sweeps # <<>> /\ sweeps' = [sweeps EXCEPT ![Len(sweeps)] = [now EXCEPT !.dying = o]]
    BY DEF Destroy, Visiting, now
  <2> QED BY <2>1, <2>2, NowBecomes
<1>4. roots' \in [Obj -> Nat]
  BY SMT DEF Destroy, AddRoot, TypeOK
<1>5. /\ live' \subseteq Obj /\ pool' \subseteq Obj /\ marked' \subseteq Obj /\ cur' \in Int
      /\ UNCHANGED <<locals, flags, max, survived>>
  BY SMT DEF TypeOK, Destroy
<1>6. member' \in [Obj -> Ptr] /\ env' \in [Obj -> Ptr]
  BY DEF Destroy, TypeOK, Ptr
<1> QED BY <1>2, <1>3, <1>4, <1>5, <1>6 DEF TypeOK, flags

LEMMA DestroyedFrames ==
  ASSUME TypeOK, Destroyed
  PROVE  /\ now.depth \in DOMAIN frames /\ now.depth \in Nat \ {0} /\ Len(frames) = now.depth + 1
         /\ frames' \in Seq(Frame) \ {<<>>} /\ Len(frames') = now.depth
         /\ \A k \in 1..now.depth : frames'[k] = frames[k]
         /\ now.dying \in Obj
<1> DEFINE n == now.depth
<1>1. n \in Nat \ {0} /\ Len(frames) = n + 1 /\ frames' = SubSeq(frames, 1, n)
  BY NowTyped DEF Destroyed
<1>2. n \in DOMAIN frames /\ n \in 0..Len(frames)
  <2> HIDE DEF n
  <2> QED BY <1>1, TopTyped, SMT
<1>3. frames' \in Seq(Frame) /\ Len(frames') = n /\ \A k \in 1..n : frames'[k] = frames[k]
  <2> HIDE DEF n
  <2> QED BY <1>1, <1>2, TopTyped, Bottom
<1>4. frames' # <<>>
  <2> HIDE DEF n
  <2> QED BY <1>1, <1>3, Len(<<>>) = 0
<1>5. now.dying \in Obj
  BY NowTyped DEF Destroyed, Step, Interpreting, now, Ptr
<1> QED BY <1>1, <1>2, <1>3, <1>4, <1>5

LEMMA DestroyedTyped == ASSUME TypeOK, Destroyed PROVE TypeOK'
<1>1. frames' \in Seq(Frame) \ {<<>>} /\ now.dying \in Obj
  BY DestroyedFrames
<1>2. /\ live' \subseteq Obj /\ pool' \subseteq Obj
      /\ member' \in [Obj -> Ptr] /\ env' \in [Obj -> Ptr]
  BY <1>1, DeallocTyped DEF Destroyed
<1>3. roots' \in [Obj -> Nat]
  BY TopTyped, RootRemoved DEF Destroyed
<1>4. sweeps' \in Seq(Sweep)
  <2> DEFINE s == [now EXCEPT !.todo = @ \ {now.dying}, !.dying = NULL]
  <2>1. s \in Sweep
    BY NowTyped DEF Sweep, Destroyed, Ptr
  <2>2. sweeps # <<>> /\ sweeps' = [sweeps EXCEPT ![Len(sweeps)] = s]
    BY DEF Destroyed, now
  <2> QED BY <2>1, <2>2, NowBecomes
<1> QED BY <1>1, <1>2, <1>3, <1>4 DEF Destroyed, TypeOK, flags, limits

LEMMA EndSweepTyped == ASSUME TypeOK, EndSweep PROVE TypeOK'
<1>1. sweeps # <<>> /\ Len(sweeps) - 1 \in 0..Len(sweeps)
  BY NowTyped, SMT DEF EndSweep
<1>2. sweeps' \in Seq(Sweep)
  BY <1>1, NowTyped, Bottom DEF EndSweep
<1>3. max' \in Int /\ survived' \in Int
  BY BoundAssumption, SMT DEF EndSweep, TypeOK
<1> QED BY <1>2, <1>3 DEF EndSweep, TypeOK, heap, flags

-----------------------------------------------------------------------------
(* What the steps do to the stack of frames.                               *)

\* The first n frames run the same functions and have set the same locals.
Kept(n) == \A k \in 1..n : frames'[k].func = frames[k].func /\ frames'[k].saved = frames[k].saved

Stays == Len(frames') = Len(frames) /\ Kept(Len(frames)) /\ UNCHANGED <<roots, locals>>
Enters(f, b) == /\ Len(frames') = Len(frames) + 1 /\ Kept(Len(frames))
                /\ frames'[Len(frames) + 1] = NewFrame(f, b)
                /\ AddRoot(f) /\ UNCHANGED locals
Leaves == /\ Len(frames) > 1 /\ Len(frames') = Len(frames) - 1 /\ Kept(Len(frames) - 1)
          /\ RemoveRoot(top.func) /\ UNCHANGED locals

LEMMA DataStays ==
  ASSUME TypeOK, NEW d \in Seq(Obj), SetData(d), UNCHANGED <<roots, locals>>
  PROVE  Stays
<1>1. /\ Len(frames') = Len(frames)
      /\ \A k \in 1..Len(frames) :
           frames'[k] = IF k = Len(frames) THEN [top EXCEPT !.data = d] ELSE frames[k]
  BY DataTyped
<1>2. /\ [top EXCEPT !.data = d].func = frames[Len(frames)].func
      /\ [top EXCEPT !.data = d].saved = frames[Len(frames)].saved
  BY TopTyped DEF top, Frame
<1>3. Kept(Len(frames))
  <2> DEFINE t == [top EXCEPT !.data = d]
  <2> HIDE DEF t
  <2> QED BY <1>1, <1>2 DEF Kept, t
<1> QED BY <1>1, <1>3 DEF Stays

LEMMA FramesStay == ASSUME UNCHANGED <<frames, roots, locals>> PROVE Stays
BY DEF Stays, Kept

LEMMA InstructionFrames ==
  ASSUME TypeOK, SavedSet, Instruction
  PROVE  \/ Stays
         \/ \E i \in Local : SaveLocal(i)
         \/ \E f, b \in Obj : Enters(f, b)
         \/ Leaves
<1>1. CASE LoadClose
  <2>1. PICK b \in {top.bucket, env[top.func]} \ {NULL} : member[b] \in Obj /\ Moves(Append(data, member[b]))
    BY <1>1, LoadCloseMoves
  <2>2. Append(data, member[b]) \in Seq(Obj)
    BY <2>1, TopTyped, AppendProperties
  <2> QED BY <2>1, <2>2, DataStays DEF Moves
<1>2. CASE LoadMember
  BY <1>2, LoadMemberMoves, TopTyped, AppendProperties, DataStays DEF Moves
<1>3. CASE Pop
  BY <1>3, TopTyped, DataStays DEF Pop
<1>4. CASE SaveClose \/ SetFlags
  BY <1>4, FramesStay DEF SaveClose, SetFlags
<1>5. CASE SaveMember
  <2>1. Len(data) > 0
    BY <1>5, TopTyped, SMT DEF SaveMember
  <2> QED BY <1>5, <2>1, TopTyped, DataStays DEF SaveMember
<1>6. CASE Return
  <2>1. /\ Len(frames') = Len(frames) - 1
        /\ \A k \in 1..Len(frames)-1 :
             frames'[k] = IF k = Len(frames) - 1 THEN [frames[Len(frames) - 1] EXCEPT !.data = Append(@, TOP)]
                          ELSE frames[k]
        /\ Len(frames) - 1 \in DOMAIN frames
    BY <1>6, ReturnFrames
  <2>2. Kept(Len(frames) - 1)
    BY <2>1, TopTyped DEF Kept, Frame
  <2> QED BY <1>6, <2>1, <2>2 DEF Return, IsCall, Leaves
<1>7. ASSUME NEW o \in Obj, PushNewObject(o) \/ MakeFunction(o) \/ PushStdlib(o) \/ CompileModule(o)
      PROVE  Stays
  BY <1>7, TopTyped, AppendProperties, DataStays
     DEF PushNewObject, MakeFunction, PushStdlib, CompileModule
<1>8. ASSUME NEW o \in Obj, NEW argc \in {0, 1}, CallFunc(o, argc)
      PROVE  \E f, b \in Obj : Enters(f, b)
  <2>1. /\ TOP \in Obj /\ Len(frames') = Len(frames) + 1
        /\ \A k \in 1..Len(frames) :
             frames'[k] = IF k = Len(frames) THEN [top EXCEPT !.data = SubSeq(data, 1, Len(data) - 1 - argc)]
                          ELSE frames[k]
        /\ frames'[Len(frames) + 1] = NewFrame(TOP, o)
    BY <1>8, CallFrames
  <2>2. Kept(Len(frames))
    BY <2>1, TopTyped DEF Kept, Frame, top
  <2> QED BY <1>8, <2>1, <2>2 DEF CallFunc, Enters
<1>9. ASSUME NEW i \in Local, LoadLocal(i) PROVE Stays
  BY <1>9, LoadLocalMoves, TopTyped, AppendProperties, DataStays DEF Moves
<1> QED BY <1>1, <1>2, <1>3, <1>4, <1>5, <1>6, <1>7, <1>8, <1>9 DEF Instruction

LEMMA FrameSteps ==
  ASSUME TypeOK, SavedSet, [Next]_vars
  PROVE  \/ Stays
         \/ \E i \in Local : SaveLocal(i)
         \/ \E f, b \in Obj : Enters(f, b)
         \/ Leaves
<1>1. CASE Instruction
  BY <1>1, InstructionFrames
<1>2. CASE CollectWhenDue \/ CollectByCall \/ EndSweep \/ UNCHANGED vars \/ \E o \in Obj : Keep(o) \/ Free(o)
  BY <1>2, FramesStay DEF CollectWhenDue, CollectByCall, Collect, EndSweep, Keep, Free, vars
<1>3. CASE Destroyed
  <2>1. /\ now.depth \in Nat \ {0} /\ Len(frames) = now.depth + 1 /\ Len(frames') = now.depth
        /\ \A k \in 1..now.depth : frames'[k] = frames[k]
    BY <1>3, DestroyedFrames
  <2>2. Len(frames) > 1 /\ now.depth = Len(frames) - 1
    BY <2>1, TopTyped, SMT
  <2> QED BY <1>3, <2>1, <2>2 DEF Destroyed, Leaves, Kept
<1>4. ASSUME NEW o \in Obj, NEW f \in Obj, NEW b \in Obj, Destroy(o, f, b) PROVE Enters(f, b)
  <2>1. NewFrame(f, b) \in Frame
    BY EmptySeq DEF NewFrame, Frame
  <2> QED BY <1>4, <2>1, TopTyped, AppendProperties DEF Destroy, Enters, Kept
<1> QED BY <1>1, <1>2, <1>3, <1>4 DEF Next, Collection

LEMMA SavedStep == ASSUME TypeOK, TypeOK', SavedSet, [Next]_vars PROVE SavedSet'
<1>1. /\ Len(frames) \in Nat /\ DOMAIN frames = 1..Len(frames)
      /\ Len(frames') \in Nat /\ DOMAIN frames' = 1..Len(frames')
  BY TopTyped DEF TypeOK
<1>2. CASE Stays
  BY <1>1, <1>2 DEF Stays, Kept, SavedSet
<1>3. ASSUME NEW i \in Local, SaveLocal(i) PROVE SavedSet'
  <2>1. /\ Len(frames') = Len(frames)
        /\ \A k \in 1..Len(frames) :
             frames'[k] = IF k = Len(frames) THEN [top EXCEPT !.saved = @ \cup {i}] ELSE frames[k]
    BY <1>3, SaveLocalFrames
  <2>2. TOP \in Obj /\ locals' = [locals EXCEPT ![i] = TOP] /\ locals \in [Local -> Ptr]
    BY <1>3, TopTyped DEF SaveLocal, TypeOK
  <2>3. \A k \in 1..Len(frames) : frames'[k].saved \subseteq frames[k].saved \cup {i}
    BY <2>1, TopTyped DEF top, Frame
  <2>4. \A k \in 1..Len(frames) : frames[k].saved \subseteq Local
    BY <1>1, TopTyped DEF Frame
  <2>5. \A j \in Local : locals'[j] = IF j = i THEN TOP ELSE locals[j]
    BY <2>2
  <2>6. TOP # NULL
    BY <2>2, ObjAssumption
  <2> QED BY <1>1, <2>1, <2>3, <2>4, <2>5, <2>6 DEF SavedSet
<1>4. ASSUME NEW f \in Obj, NEW b \in Obj, Enters(f, b) PROVE SavedSet'
  <2>1. frames'[Len(frames) + 1].saved = {}
    BY <1>4 DEF Enters, NewFrame
  <2>2. \A k \in 1..Len(frames') : k \in 1..Len(frames) \/ k = Len(frames) + 1
    BY <1>1, <1>4, SMT DEF Enters
  <2> QED BY <1>1, <1>4, <2>1, <2>2 DEF Enters, Kept, SavedSet
<1>5. CASE Leaves
  <2>1. \A k \in 1..Len(frames') : k \in 1..Len(frames)-1 /\ k \in 1..Len(frames)
    BY <1>1, <1>5, SMT DEF Leaves
  <2> QED BY <1>1, <1>5, <2>1 DEF Leaves, Kept, SavedSet
<1> QED BY <1>2, <1>3, <1>4, <1>5, FrameSteps

-----------------------------------------------------------------------------

LEMMA InstructionTyped == ASSUME TypeOK, SavedSet, Instruction PROVE TypeOK'
<1>1. CASE LoadClose \/ LoadMember \/ Pop \/ \E o \in Obj : PushStdlib(o)
  BY <1>1, MovementTyped
<1>2. CASE SaveClose
  BY <1>2, SaveCloseTyped
<1>3. CASE SaveMember
  BY <1>3, SaveMemberTyped
<1>4. CASE Return
  BY <1>4, ReturnTyped
<1>5. CASE SetFlags \/ \E o \in Obj : CompileModule(o)
  BY <1>5, OthersTyped
<1>6. CASE \E o \in Obj : PushNewObject(o) \/ MakeFunction(o)
  BY <1>6, PushTyped
<1>7. CASE \E o \in Obj : CallFunc(o, 0) \/ CallFunc(o, 1)
  BY <1>7, CallTyped
<1>8. CASE \E i \in Local : SaveLocal(i) \/ LoadLocal(i)
  BY <1>8, LocalsTyped
<1> QED BY <1>1, <1>2, <1>3, <1>4, <1>5, <1>6, <1>7, <1>8 DEF Instruction

LEMMA StepTyped == ASSUME TypeOK, SavedSet, [Next]_vars PROVE TypeOK'
<1>1. CASE Instruction
  BY <1>1, InstructionTyped
<1>2. CASE CollectWhenDue \/ CollectByCall
  BY <1>2, CollectTyped DEF CollectWhenDue, CollectByCall
<1>3. CASE Destroyed
  BY <1>3, DestroyedTyped
<1>4. CASE EndSweep
  BY <1>4, EndSweepTyped
<1>5. CASE \E o \in Obj : Keep(o) \/ Free(o) \/ \E f, b \in Obj : Destroy(o, f, b)
  BY <1>5, KeepTyped, FreeTyped, DestroyTyped
<1>6. CASE UNCHANGED vars
  BY <1>6 DEF TypeOK, vars, heap, flags, limits
<1> QED BY <1>1, <1>2, <1>3, <1>4, <1>5, <1>6 DEF Next, Collection

LEMMA InitTyped == Init => TypeOK /\ SavedSet
<1> SUFFICES ASSUME Init PROVE TypeOK /\ SavedSet
  OBVIOUS
<1> DEFINE f == [func |-> Main, bucket |-> Scope, data |-> <<>>, saved |-> {}]
<1>1. f \in Frame
  BY EmptySeq, ObjAssumption DEF Frame
<1>2. frames = <<f>>
  BY DEF Init
<1> HIDE DEF f
<1>3. frames \in Seq(Frame) \ {<<>>} /\ DOMAIN frames = {1} /\ frames[1] = f
  BY <1>1, <1>2, SMT
<1>4. pool \subseteq Obj /\ live \subseteq Obj /\ pool = {Proto, Scope} \ {NULL}
  BY ObjAssumption DEF Init
<1>5. Cardinality(pool) \in Int
  <2>1. IsFiniteSet(pool)
    BY <1>4, FS_Subset, ObjAssumption
  <2> QED BY <2>1, FS_CardinalityType, SMT
<1>6. /\ marked \subseteq Obj /\ started \in BOOLEAN /\ paused \in BOOLEAN
      /\ cur \in Int /\ max \in Int /\ survived \in Int
  <2>1. cur = Cardinality(pool) /\ max = Growth /\ survived = 0
    BY DEF Init
  <2>2. max \in Int /\ survived \in Int
    BY <2>1, BoundAssumption, SMT
  <2>3. marked = {} /\ started = TRUE /\ paused = FALSE
    BY DEF Init
  <2> QED BY <1>5, <2>1, <2>2, <2>3
<1>7. /\ member \in [Obj -> Ptr] /\ env \in [Obj -> Ptr] /\ roots \in [Obj -> Nat]
      /\ locals \in [Local -> Ptr]
  BY ObjAssumption, SMT DEF Init, Ptr
<1>8. sweeps \in Seq(Sweep)
  BY EmptySeq DEF Init
<1>9. SavedSet
  BY <1>3 DEF SavedSet, f
<1> QED BY <1>3, <1>4, <1>6, <1>7, <1>8, <1>9 DEF TypeOK

\* The types hold, and every local an activation has set is set, for any heap and
\* whatever the program does (lky_machine.c, lky_gc.c).
THEOREM Typed == Spec => [](TypeOK /\ SavedSet)
<1>1. TypeOK /\ SavedSet /\ [Next]_vars => (TypeOK /\ SavedSet)'
  BY StepTyped, SavedStep
<1> QED BY <1>1, InitTyped, PTL DEF Spec

\* Every variable keeps its type.
THEOREM TypeCorrect == Spec => []TypeOK
BY Typed, PTL

-----------------------------------------------------------------------------
(* The list of roots, in a program that does not call Meta.gc_halt.        *)

\* The frames in which o runs.
Of(o) == {i \in DOMAIN frames : frames[i].func = o}

LEMMA OfFinite == ASSUME TypeOK, NEW o \in Obj PROVE IsFiniteSet(Of(o)) /\ Cardinality(Of(o)) \in Nat
<1>1. Len(frames) \in Int /\ Of(o) \subseteq 1..Len(frames)
  BY TopTyped DEF Of
<1>2. IsFiniteSet(1..Len(frames))
  BY <1>1, FS_Interval, SMT
<1> QED BY <1>1, <1>2, FS_Subset, FS_CardinalityType

\* The collector is on unless it was halted.
LEMMA StartedStep == ASSUME ~HALTS, started = TRUE, [Next]_vars PROVE started' = TRUE
BY DEF Next, Instruction, Collection, LoadClose, SaveClose, LoadMember, SaveMember, Pop, Return, SetFlags,
   PushNewObject, MakeFunction, PushStdlib, CompileModule, CallFunc, SaveLocal, LoadLocal,
   CollectWhenDue, CollectByCall, Collect, Destroyed, EndSweep, Keep, Free, Destroy, vars, flags

LEMMA RootsStep ==
  ASSUME TypeOK, TypeOK', SavedSet, started = TRUE, RootsCoverFrames, [Next]_vars
  PROVE  RootsCoverFrames'
<1> SUFFICES ASSUME NEW o \in Obj PROVE Cardinality(Of(o)') <= roots'[o]
  BY DEF RootsCoverFrames, Of
<1>1. /\ Len(frames) \in Nat /\ DOMAIN frames = 1..Len(frames)
      /\ Len(frames') \in Nat /\ DOMAIN frames' = 1..Len(frames')
  BY TopTyped DEF TypeOK
<1>2. /\ IsFiniteSet(Of(o)) /\ Cardinality(Of(o)) \in Nat /\ roots \in [Obj -> Nat]
      /\ Cardinality(Of(o)) <= roots[o] /\ roots[o] \in Nat
  BY OfFinite DEF RootsCoverFrames, Of, TypeOK
<1>3. CASE Stays
  <2>1. Of(o)' = Of(o)
    BY <1>1, <1>3 DEF Of, Stays, Kept
  <2> QED BY <1>2, <1>3, <2>1 DEF Stays
<1>4. ASSUME NEW i \in Local, SaveLocal(i) PROVE Cardinality(Of(o)') <= roots'[o]
  <2>1. /\ Len(frames') = Len(frames)
        /\ \A k \in 1..Len(frames) :
             frames'[k] = IF k = Len(frames) THEN [top EXCEPT !.saved = @ \cup {i}] ELSE frames[k]
    BY <1>4, SaveLocalFrames
  <2>2. \A k \in 1..Len(frames) : frames'[k].func = frames[k].func
    BY <2>1, TopTyped DEF top, Frame
  <2>3. Of(o)' = Of(o)
    BY <1>1, <2>1, <2>2 DEF Of
  <2> QED BY <1>2, <1>4, <2>3 DEF SaveLocal
<1>5. ASSUME NEW f \in Obj, NEW b \in Obj, Enters(f, b) PROVE Cardinality(Of(o)') <= roots'[o]
  <2> DEFINE n == Len(frames) + 1
  <2>1. DOMAIN frames' = 1..n /\ n \notin DOMAIN frames /\ 1..n = DOMAIN frames \cup {n}
    BY <1>1, <1>5, SMT DEF Enters
  <2>2. frames'[n].func = f /\ \A k \in DOMAIN frames : frames'[k].func = frames[k].func
    BY <1>1, <1>5 DEF Enters, Kept, NewFrame
  <2>3. roots' = [roots EXCEPT ![f] = @ + 1]
    BY <1>5 DEF Enters, AddRoot
  <2> HIDE DEF n
  <2>4. CASE o = f
    <3>1. Of(o)' = Of(o) \cup {n} /\ n \notin Of(o)
      BY <2>1, <2>2, <2>4 DEF Of
    <3>2. Cardinality(Of(o)') = Cardinality(Of(o)) + 1
      BY <1>2, <3>1, FS_AddElement
    <3>3. roots'[o] = roots[o] + 1
      BY <1>2, <2>3, <2>4
    <3> QED BY <1>2, <3>2, <3>3, SMT
  <2>5. CASE o # f
    <3>1. Of(o)' = Of(o)
      BY <2>1, <2>2, <2>5 DEF Of
    <3> QED BY <1>2, <2>3, <2>5, <3>1
  <2> QED BY <2>4, <2>5
<1>6. CASE Leaves
  <2> DEFINE n == Len(frames)
  <2>1. n \in DOMAIN frames /\ DOMAIN frames' = 1..n-1 /\ 1..n-1 = DOMAIN frames \ {n}
    BY <1>1, <1>6, SMT DEF Leaves
  <2>2. frames[n].func = top.func /\ \A k \in 1..n-1 : frames'[k].func = frames[k].func
    BY <1>6 DEF Leaves, Kept, top
  <2>3. top.func \in Obj /\ RemoveRoot(top.func)
    BY <1>6, TopTyped DEF Leaves
  <2>4. roots'[o] = IF o = top.func /\ roots[o] # 0 THEN roots[o] - 1 ELSE roots[o]
    BY <2>3, RootRemoved
  <2> HIDE DEF n
  <2>5. CASE o = top.func
    <3>1. Of(o)' = Of(o) \ {n} /\ n \in Of(o)
      BY <2>1, <2>2, <2>5 DEF Of
    <3>2. Cardinality(Of(o)') = Cardinality(Of(o)) - 1
      BY <1>2, <3>1, FS_RemoveElement
    <3> QED BY <1>2, <2>4, <2>5, <3>2, SMT
  <2>6. CASE o # top.func
    <3>1. Of(o)' = Of(o)
      BY <2>1, <2>2, <2>6 DEF Of
    <3> QED BY <1>2, <2>4, <2>6, <3>1
  <2> QED BY <2>5, <2>6
<1> QED BY <1>3, <1>4, <1>5, <1>6, FrameSteps

LEMMA InitRoots == Init => RootsCoverFrames /\ started = TRUE
<1> SUFFICES ASSUME Init PROVE RootsCoverFrames
  BY DEF Init
<1>1. DOMAIN frames = {1} /\ frames[1].func = Main
  BY SMT DEF Init
<1>2. Of(Main) = {1} /\ \A o \in Obj \ {Main} : Of(o) = {}
  BY <1>1 DEF Of
<1>3. roots[Main] = 1 /\ \A o \in Obj \ {Main} : roots[o] = 0
  BY ObjAssumption DEF Init
<1>4. Cardinality({1}) = 1 /\ Cardinality({}) = 0
  BY FS_Singleton, FS_EmptySet
<1>5. \A o \in Obj : Cardinality(Of(o)) <= roots[o]
  BY <1>2, <1>3, <1>4, SMT
<1> QED BY <1>5 DEF RootsCoverFrames, Of

\* Unless the program calls Meta.gc_halt, every function that runs is in the list of
\* roots once for each of its frames (mach_execute, lky_machine.c:290), whatever
\* collections and on_destroy_ run in between.
THEOREM RunningAreRoots == ASSUME ~HALTS PROVE Spec => []RootsCoverFrames
<1> DEFINE R == RootsCoverFrames /\ started = TRUE
<1>1. TypeOK /\ SavedSet /\ (TypeOK /\ SavedSet)' /\ R /\ [Next]_vars => R'
  BY RootsStep, StartedStep
<1>2. Init => R
  BY InitRoots
<1> QED BY <1>1, <1>2, Typed, PTL DEF Spec

-----------------------------------------------------------------------------
(* The guarantee.  It holds for the programs that leave no local unset     *)
(* below a set one, read no pooled value out of the standard library's     *)
(* objects, never halt the collector, and whose objects have no            *)
(* on_destroy_: the runs gc_lost_local and gc_lost_in_destroy show that    *)
(* two of these are needed.                                                *)

Plain == Destroyable = {} /\ ~SKIPS_LOCALS /\ ~READS_STDLIB /\ ~HALTS

\* Without an on_destroy_ one sweep runs at a time, and only objects of the pool
\* wait for it; cur_size and marked_size count what they say.
ShapeInv ==
  /\ pool \subseteq live /\ Stdlib \subseteq live \ pool
  /\ \A o \in live \ pool : env[o] = NULL
  /\ cur = Cardinality(pool)
  /\ sweeps = <<>> => pool \cap marked = {}
  /\ sweeps # <<>> => /\ Len(sweeps) = 1 /\ now.dying = NULL
                      /\ now.todo \subseteq pool /\ pool \cap marked \subseteq now.todo
                      /\ Cardinality(pool) = survived + Cardinality(now.todo)

LEMMA PoolFinite ==
  ASSUME TypeOK, NEW S, S \subseteq pool
  PROVE  IsFiniteSet(S) /\ Cardinality(S) \in Nat
BY FS_Subset, FS_CardinalityType, ObjAssumption DEF TypeOK

\* Nothing but the collector runs while it sweeps.
LEMMA Calm ==
  ASSUME ShapeInv
  PROVE  /\ Instruction \/ CollectWhenDue \/ CollectByCall => sweeps = <<>>
         /\ ~Destroyed
<1>1. Interpreting => sweeps = <<>>
  BY DEF ShapeInv, Interpreting, now
<1>2. Instruction => Step
  BY DEF Instruction, LoadClose, SaveClose, LoadMember, SaveMember, Pop, Return, SetFlags,
     PushNewObject, MakeFunction, PushStdlib, CompileModule, CallFunc, SaveLocal, LoadLocal
<1> QED BY <1>1, <1>2 DEF Step, CollectWhenDue, CollectByCall, Destroyed

\* An instruction allocates one object, in the pool or (a module) outside it, or none.
Allocated(o, e) == /\ live' = live \cup {o} /\ pool' = pool \cup {o} /\ marked' = marked \ {o}
                   /\ env' = [env EXCEPT ![o] = e] /\ cur' = cur + 1
Loaded(o) == /\ live' = live \cup {o} /\ pool' = pool /\ marked' = marked \ {o}
             /\ env' = [env EXCEPT ![o] = NULL] /\ cur' = cur

LEMMA HeapSteps ==
  ASSUME TypeOK, started = TRUE, Instruction
  PROVE  /\ UNCHANGED <<max, survived, sweeps>>
         /\ \/ UNCHANGED <<live, pool, marked, env, cur>>
            \/ \E o \in Obj \ live, e \in Ptr : Allocated(o, e)
            \/ \E o \in Obj \ live : Loaded(o)
<1>1. CASE LoadClose \/ LoadMember \/ Pop \/ Return \/ SetFlags \/ SaveClose \/ SaveMember
  BY <1>1 DEF LoadClose, LoadMember, Pop, Return, SetFlags, SaveClose, SaveMember, heap, limits
<1>2. ASSUME NEW o \in Obj, PushNewObject(o)
      PROVE  o \in Obj \ live /\ Allocated(o, NULL) /\ UNCHANGED <<max, survived, sweeps>>
  BY <1>2 DEF PushNewObject, Allocates, Allocated
<1>3. ASSUME NEW o \in Obj, MakeFunction(o)
      PROVE  o \in Obj \ live /\ Allocated(o, top.bucket) /\ UNCHANGED <<max, survived, sweeps>>
  BY <1>3 DEF MakeFunction, Allocates, Allocated
<1>4. ASSUME NEW o \in Obj, NEW argc \in {0, 1}, CallFunc(o, argc)
      PROVE  o \in Obj \ live /\ Allocated(o, NULL) /\ UNCHANGED <<max, survived, sweeps>>
  BY <1>4 DEF CallFunc, Allocates, Allocated
<1>5. ASSUME NEW o \in Obj, CompileModule(o)
      PROVE  o \in Obj \ live /\ Loaded(o) /\ UNCHANGED <<max, survived, sweeps>>
  BY <1>5 DEF CompileModule, Loaded, limits
<1>6. ASSUME NEW o \in Obj, PushStdlib(o) PROVE UNCHANGED <<live, pool, marked, env, cur, max, survived, sweeps>>
  BY <1>6 DEF PushStdlib, heap, limits
<1>7. ASSUME NEW i \in Local, SaveLocal(i) \/ LoadLocal(i)
      PROVE  UNCHANGED <<live, pool, marked, env, cur, max, survived, sweeps>>
  BY <1>7 DEF SaveLocal, LoadLocal, heap, limits
<1>8. NULL \in Ptr /\ top.bucket \in Ptr
  BY TopTyped DEF Ptr
<1> QED BY <1>1, <1>2, <1>3, <1>4, <1>5, <1>6, <1>7, <1>8 DEF Instruction

LEMMA InstructionShape == ASSUME TypeOK, ShapeInv, started = TRUE, Instruction PROVE ShapeInv'
<1>1. sweeps = <<>> /\ sweeps' = <<>>
  BY Calm, HeapSteps
<1>2. /\ pool \subseteq live /\ Stdlib \subseteq live \ pool /\ \A o \in live \ pool : env[o] = NULL
      /\ pool \cap marked = {} /\ cur = Cardinality(pool) /\ live \subseteq Obj /\ env \in [Obj -> Ptr]
  BY <1>1 DEF ShapeInv, TypeOK
<1>3. CASE UNCHANGED <<live, pool, marked, env, cur>>
  BY <1>1, <1>2, <1>3 DEF ShapeInv
<1>4. ASSUME NEW o \in Obj \ live, NEW e \in Ptr, Allocated(o, e) PROVE ShapeInv'
  <2>1. Cardinality(pool') = Cardinality(pool) + 1
    BY <1>2, <1>4, PoolFinite, FS_AddElement DEF Allocated
  <2>2. pool' \subseteq live' /\ Stdlib \subseteq live' \ pool' /\ pool' \cap marked' = {}
    BY <1>2, <1>4 DEF Allocated
  <2>3. \A p \in live' \ pool' : env'[p] = NULL
    BY <1>2, <1>4 DEF Allocated
  <2>4. cur' = Cardinality(pool')
    BY <1>2, <1>4, <2>1 DEF Allocated
  <2> QED BY <1>1, <2>2, <2>3, <2>4 DEF ShapeInv
<1>5. ASSUME NEW o \in Obj \ live, Loaded(o) PROVE ShapeInv'
  <2>1. pool' \subseteq live' /\ Stdlib \subseteq live' \ pool' /\ pool' \cap marked' = {}
    BY <1>2, <1>5 DEF Loaded
  <2>2. \A p \in live' \ pool' : env'[p] = NULL
    BY <1>2, <1>5 DEF Loaded
  <2> QED BY <1>1, <1>2, <1>5, <2>1, <2>2 DEF ShapeInv, Loaded
<1> QED BY <1>3, <1>4, <1>5, HeapSteps

\* A collection begins: every object of the pool waits.
LEMMA Begins ==
  ASSUME TypeOK, sweeps = <<>>, NEW byLimit \in BOOLEAN, Collect(byLimit)
  PROVE  /\ sweeps' # <<>> /\ Len(sweeps') = 1
         /\ now' = [todo |-> pool, dying |-> NULL, byLimit |-> byLimit, depth |-> Len(frames)]
<1> DEFINE s == [todo |-> pool, dying |-> NULL, byLimit |-> byLimit, depth |-> Len(frames)]
<1>1. sweeps' = <<s>>
  BY DEF Collect
<1> HIDE DEF s
<1>2. Len(sweeps') = 1 /\ sweeps'[1] = s /\ sweeps' # <<>>
  BY <1>1
<1> QED BY <1>2 DEF now, s

LEMMA CollectShape ==
  ASSUME TypeOK, ShapeInv, sweeps = <<>>, NEW byLimit \in BOOLEAN, Collect(byLimit)
  PROVE  ShapeInv'
<1>1. sweeps' # <<>> /\ Len(sweeps') = 1 /\ now'.dying = NULL /\ now'.todo = pool
  BY Begins
<1>2. UNCHANGED <<live, pool, env, cur>> /\ survived' = 0
  BY DEF Collect
<1>3. Cardinality(pool) = 0 + Cardinality(pool)
  BY PoolFinite, SMT
<1>4. pool \subseteq live /\ Stdlib \subseteq live \ pool /\ (\A o \in live \ pool : env[o] = NULL)
      /\ cur = Cardinality(pool)
  BY DEF ShapeInv
<1> QED BY <1>1, <1>2, <1>3, <1>4 DEF ShapeInv

\* An object has been visited.
LEMMA Visits ==
  ASSUME TypeOK, ShapeInv, NEW o \in Obj, Visiting(o), sweeps' = Done(o)
  PROVE  /\ o \in now.todo /\ o \in pool
         /\ sweeps' # <<>> /\ Len(sweeps') = 1 /\ now'.dying = NULL /\ now'.todo = now.todo \ {o}
         /\ IsFiniteSet(now.todo) /\ Cardinality(now.todo) \in Nat
         /\ Cardinality(now.todo \ {o}) = Cardinality(now.todo) - 1
<1>1. sweeps # <<>> /\ now.todo # {} /\ o \in now.todo
  BY DEF Visiting
<1>2. Len(sweeps) = 1 /\ now.dying = NULL /\ now.todo \subseteq pool
  BY <1>1 DEF ShapeInv
<1>3. IsFiniteSet(now.todo) /\ Cardinality(now.todo) \in Nat
  BY <1>2, PoolFinite
<1>4. Cardinality(now.todo \ {o}) = Cardinality(now.todo) - 1
  BY <1>1, <1>3, FS_RemoveElement
<1>5. /\ sweeps' # <<>> /\ Len(sweeps') = 1 /\ sweeps'[1] = [now EXCEPT !.todo = @ \ {o}]
  <2> DEFINE s == [now EXCEPT !.todo = @ \ {o}]
  <2>1. s \in Sweep /\ sweeps' = [sweeps EXCEPT ![Len(sweeps)] = s]
    BY <1>1, VisitDone
  <2> HIDE DEF s
  <2>2. sweeps' # <<>> /\ Len(sweeps') = 1 /\ sweeps'[1] = s
    BY <1>1, <1>2, <2>1, NowBecomes
  <2> QED BY <2>2 DEF s
<1>6. now' = [now EXCEPT !.todo = @ \ {o}]
  BY <1>5 DEF now
<1>7. now'.dying = NULL /\ now'.todo = now.todo \ {o}
  BY <1>1, <1>2, <1>6, NowTyped DEF Sweep
<1> QED BY <1>1, <1>2, <1>3, <1>4, <1>5, <1>7

LEMMA KeepShape == ASSUME TypeOK, ShapeInv, NEW o \in Obj, Keep(o) PROVE ShapeInv'
<1>1. Visiting(o) /\ sweeps' = Done(o) /\ survived' = survived + 1 /\ marked' = marked \ {o}
      /\ UNCHANGED <<live, pool, env, cur>>
  BY DEF Keep
<1>2. /\ sweeps # <<>> /\ o \in now.todo
      /\ sweeps' # <<>> /\ Len(sweeps') = 1 /\ now'.dying = NULL /\ now'.todo = now.todo \ {o}
      /\ Cardinality(now.todo) \in Nat /\ Cardinality(now.todo \ {o}) = Cardinality(now.todo) - 1
  BY <1>1, Visits DEF Visiting
<1>3. survived \in Int /\ Cardinality(pool) = survived + Cardinality(now.todo) /\ Cardinality(pool) \in Nat
  BY <1>2, PoolFinite DEF ShapeInv, TypeOK
<1>4. Cardinality(pool') = survived' + Cardinality(now'.todo)
  BY <1>1, <1>2, <1>3, SMT
<1> QED BY <1>1, <1>2, <1>4 DEF ShapeInv

LEMMA FreeShape == ASSUME TypeOK, ShapeInv, NEW o \in Obj, Free(o) PROVE ShapeInv'
<1>1. /\ Visiting(o) /\ sweeps' = Done(o) /\ cur' = cur - 1 /\ Dealloc(o)
      /\ UNCHANGED <<marked, survived>> /\ o \notin marked
  BY DEF Free
<1>2. /\ sweeps # <<>> /\ o \in now.todo /\ o \in pool
      /\ sweeps' # <<>> /\ Len(sweeps') = 1 /\ now'.dying = NULL /\ now'.todo = now.todo \ {o}
      /\ Cardinality(now.todo) \in Nat /\ Cardinality(now.todo \ {o}) = Cardinality(now.todo) - 1
  BY <1>1, Visits DEF Visiting
<1>3. survived \in Int /\ Cardinality(pool) = survived + Cardinality(now.todo) /\ Cardinality(pool) \in Nat
  BY <1>2, PoolFinite DEF ShapeInv, TypeOK
<1>4. Cardinality(pool') = Cardinality(pool) - 1
  BY <1>1, <1>2, PoolFinite, FS_RemoveElement DEF Dealloc
<1>5. Cardinality(pool') = survived' + Cardinality(now'.todo) /\ cur' = Cardinality(pool')
  BY <1>1, <1>2, <1>3, <1>4, SMT DEF ShapeInv
<1>6. pool' \subseteq live' /\ Stdlib \subseteq live' \ pool' /\ now'.todo \subseteq pool'
  BY <1>1, <1>2 DEF Dealloc, ShapeInv
<1>7. \A p \in live' \ pool' : env'[p] = NULL
  BY <1>1, <1>2 DEF Dealloc, ShapeInv, TypeOK
<1>8. pool' \cap marked' \subseteq now'.todo
  BY <1>1, <1>2 DEF Dealloc, ShapeInv
<1> QED BY <1>2, <1>5, <1>6, <1>7, <1>8 DEF ShapeInv

\* The sweep is over.
LEMMA Ends ==
  ASSUME TypeOK, ShapeInv, EndSweep
  PROVE  sweeps # <<>> /\ Len(sweeps) = 1 /\ now.todo = {} /\ sweeps' = <<>>
<1>1. sweeps # <<>> /\ now.todo = {} /\ sweeps' = SubSeq(sweeps, 1, Len(sweeps) - 1)
  BY DEF EndSweep
<1>2. Len(sweeps) = 1
  BY <1>1 DEF ShapeInv
<1>3. SubSeq(sweeps, 1, 0) = <<>>
  BY SubSeqEmpty
<1> QED BY <1>1, <1>2, <1>3

LEMMA EndShape == ASSUME TypeOK, ShapeInv, EndSweep PROVE ShapeInv'
BY Ends DEF ShapeInv, EndSweep, heap

LEMMA ShapeStep ==
  ASSUME TypeOK, ShapeInv, started = TRUE, Destroyable = {}, [Next]_vars
  PROVE  ShapeInv'
<1>1. CASE Instruction
  BY <1>1, InstructionShape
<1>2. CASE CollectWhenDue \/ CollectByCall
  BY <1>2, Calm, CollectShape DEF CollectWhenDue, CollectByCall
<1>3. CASE \E o \in Obj : Keep(o) \/ Free(o)
  BY <1>3, KeepShape, FreeShape
<1>4. CASE EndSweep
  BY <1>4, EndShape
<1>5. CASE UNCHANGED vars
  BY <1>5 DEF vars, heap, limits, ShapeInv, now
<1>6. ~(\E o, f, b \in Obj : Destroy(o, f, b))
  BY DEF Destroy
<1> QED BY <1>1, <1>2, <1>3, <1>4, <1>5, <1>6, Calm DEF Next, Collection

LEMMA InitShape == Init => ShapeInv
<1> SUFFICES ASSUME Init PROVE ShapeInv
  OBVIOUS
<1>1. pool = {Proto, Scope} \ {NULL} /\ live = Stdlib \cup pool /\ marked = {} /\ sweeps = <<>>
      /\ env = [o \in Obj |-> NULL] /\ cur = Cardinality(pool)
  BY DEF Init
<1>2. Stdlib \cap pool = {} /\ live \subseteq Obj
  BY <1>1, ObjAssumption
<1> QED BY <1>1, <1>2 DEF ShapeInv

LEMMA ShapeHolds == ASSUME Plain PROVE Spec => [](ShapeInv /\ started = TRUE)
<1> DEFINE R == ShapeInv /\ started = TRUE
<1>1. TypeOK /\ R /\ [Next]_vars => R'
  BY ShapeStep, StartedStep DEF Plain
<1>2. Init => R
  BY InitShape DEF Init
<1> QED BY <1>1, <1>2, TypeCorrect, PTL DEF Spec

\* In a program of that kind, no mark is left in the pool after a collection
\* (lky_gc.c:197-208), ...
THEOREM MarksAlwaysCleared == ASSUME Plain PROVE Spec => []MarksCleared
<1>1. ShapeInv => MarksCleared
  BY DEF ShapeInv, MarksCleared
<1> QED BY <1>1, ShapeHolds, TypeCorrect, PTL

\* ... cur_size is the size of the pool at all times, ...
THEOREM SizeAlwaysExact == ASSUME Plain PROVE Spec => []SizeIsExact
<1>1. TypeOK /\ ShapeInv => SizeIsExact
  <2> SUFFICES ASSUME TypeOK, ShapeInv PROVE SizeIsExact
    OBVIOUS
  <2> DEFINE D == {i \in DOMAIN sweeps : sweeps[i].dying # NULL}
  <2>1. D = {}
    <3>1. CASE sweeps = <<>>
      BY <3>1
    <3>2. CASE sweeps # <<>>
      <4>1. Len(sweeps) = 1 /\ sweeps \in Seq(Sweep) /\ sweeps[1].dying = NULL
        BY <3>2, NowTyped DEF ShapeInv, now
      <4>2. DOMAIN sweeps = {1}
        BY <4>1, SMT
      <4> QED BY <4>1, <4>2
    <3> QED BY <3>1, <3>2
  <2>2. cur = Cardinality(pool) /\ Cardinality(pool) \in Nat
    BY PoolFinite DEF ShapeInv
  <2>3. Cardinality(D) = 0
    BY <2>1, FS_EmptySet
  <2> HIDE DEF D
  <2>4. cur = Cardinality(pool) - Cardinality(D)
    BY <2>2, <2>3, SMT
  <2> QED BY <2>4 DEF SizeIsExact, D
<1> QED BY <1>1, ShapeHolds, TypeCorrect, PTL

\* ... and a collection that the limit started leaves room below the new limit, so
\* that no instruction collects twice (lky_gc.c:166-180).
THEOREM AlwaysLeavesRoom == ASSUME Plain PROVE Spec => LeavesRoom
<1> DEFINE L == sweeps # <<>> /\ sweeps' = <<>> /\ sweeps[1].byLimit => cur' < max'
<1>1. TypeOK /\ ShapeInv /\ [Next]_vars => [L]_vars
  <2> SUFFICES ASSUME TypeOK, ShapeInv, [Next]_vars, sweeps # <<>>, sweeps' = <<>>,
                      sweeps[1].byLimit
               PROVE  cur' < max'
    OBVIOUS
  <2>1. ~Instruction /\ ~CollectWhenDue /\ ~CollectByCall /\ ~Destroyed
    BY Calm
  <2>2. \A o \in Obj : ~Keep(o) /\ ~Free(o)
    BY Visits DEF Keep, Free
  <2>3. ~(\E o, f, b \in Obj : Destroy(o, f, b))
    BY DEF Destroy, Plain
  <2>4. EndSweep
    BY <2>1, <2>2, <2>3 DEF Next, Collection, vars
  <2>5. now = sweeps[1] /\ now.todo = {}
    BY <2>4, Ends DEF now
  <2>6. cur = survived + Cardinality({}) /\ survived \in Int /\ Cardinality({}) = 0
    BY <2>5, FS_EmptySet DEF ShapeInv, TypeOK
  <2>7. cur' = cur /\ max' = survived + Growth
    BY <2>4, <2>5 DEF EndSweep
  <2> QED BY <2>6, <2>7, BoundAssumption, SMT
<1> QED BY <1>1, ShapeHolds, TypeCorrect, PTL DEF Spec, LeavesRoom

-----------------------------------------------------------------------------
(* What the program can reach.                                             *)

\* The locals are set from the first on, and the main function sets none.
LocalsInv ==
  /\ \A i, j \in Local : j < i /\ locals[i] # NULL => locals[j] # NULL
  /\ \A k \in DOMAIN frames : frames[k].func = Main => frames[k].saved = {}

\* C has what a frame f holds, where functions have the scopes e and locals the values l.
HasFrame(C, f, e, l) ==
  /\ f.func \in C /\ f.bucket \in C
  /\ \A i \in DOMAIN f.data : f.data[i] \in C
  /\ e[f.func] # NULL => e[f.func] \in C
  /\ \A i \in f.saved : l[i] \in C

Has(C) == \A k \in DOMAIN frames : HasFrame(C, frames[k], env, locals)

\* What objects of the pool in C refer to is in C.
Closed(C) == \A o \in C \cap pool : /\ member[o] # NULL => member[o] \in C
                                    /\ env[o] # NULL => env[o] \in C

\* The sweep that is under way has nothing of C before it but what is marked.
Spared(C) == sweeps # <<>> => C \cap now.todo \subseteq marked

ReachInv == \E C \in SUBSET live : Has(C) /\ Closed(C) /\ Spared(C)

LEMMA HasTop ==
  ASSUME TypeOK, NEW C, Has(C)
  PROVE  /\ HasFrame(C, top, env, locals)
         /\ top.func \in C /\ top.bucket \in C /\ \A i \in DOMAIN data : data[i] \in C
         /\ env[top.func] # NULL => env[top.func] \in C
         /\ Len(data) > 0 => TOP \in C /\ \A i \in DOMAIN Popped(data) : Popped(data)[i] \in C
         /\ \A i \in top.saved : locals[i] \in C
<1>1. HasFrame(C, top, env, locals)
  BY TopTyped DEF Has, top
<1>2. top.func \in C /\ top.bucket \in C /\ (\A i \in DOMAIN data : data[i] \in C)
      /\ (env[top.func] # NULL => env[top.func] \in C) /\ (\A i \in top.saved : locals[i] \in C)
  BY <1>1 DEF HasFrame, data
<1>3. ASSUME Len(data) > 0 PROVE TOP \in C /\ \A i \in DOMAIN Popped(data) : Popped(data)[i] \in C
  <2>1. Len(data) \in DOMAIN data
    BY <1>3, TopTyped, SMT
  <2>2. \A i \in DOMAIN Popped(data) : i \in DOMAIN data /\ Popped(data)[i] = data[i]
    BY <1>3, TopTyped
  <2> QED BY <1>2, <2>1, <2>2 DEF TOP
<1> QED BY <1>1, <1>2, <1>3

LEMMA HasMore ==
  ASSUME NEW C, NEW D, C \subseteq D, NEW f, NEW e, NEW l, HasFrame(C, f, e, l)
  PROVE  HasFrame(D, f, e, l)
BY DEF HasFrame

\* The operands of the running frame become d, of which D has everything.
LEMMA DataHas ==
  ASSUME TypeOK, NEW C, Has(C), NEW D, C \subseteq D, NEW d \in Seq(Obj), SetData(d),
         \A i \in DOMAIN d : d[i] \in D,
         \A o \in C : env'[o] = env[o], UNCHANGED locals
  PROVE  Has(D)'
<1>1. /\ Len(frames') = Len(frames) /\ frames' \in Seq(Frame)
      /\ \A k \in 1..Len(frames) : frames'[k] = IF k = Len(frames) THEN [top EXCEPT !.data = d] ELSE frames[k]
  BY DataTyped
<1>2. DOMAIN frames' = DOMAIN frames /\ DOMAIN frames = 1..Len(frames)
  BY <1>1, TopTyped
<1>3. \A k \in DOMAIN frames : HasFrame(D, frames[k], env, locals) /\ frames[k].func \in C
  BY HasMore DEF Has, HasFrame
<1>4. \A k \in DOMAIN frames : HasFrame(D, frames[k], env', locals)
  BY <1>3 DEF HasFrame
<1>5. HasFrame(D, [top EXCEPT !.data = d], env', locals)
  <2>1. HasFrame(D, top, env', locals) /\ top \in Frame
    BY <1>4, TopTyped DEF top
  <2> QED BY <2>1 DEF HasFrame, Frame
<1> QED BY <1>1, <1>2, <1>4, <1>5 DEF Has

\* A new object that refers to nothing but what C has leaves C, with it, closed.
LEMMA ClosedNew ==
  ASSUME TypeOK, NEW C \in SUBSET live, Closed(C), NEW o \in Obj \ live,
         NEW m \in C \cup {NULL}, NEW e \in C \cup {NULL},
         member' = [member EXCEPT ![o] = m], env' = [env EXCEPT ![o] = e],
         pool' \subseteq pool \cup {o}
  PROVE  Closed(C \cup {o})' /\ \A p \in C : env'[p] = env[p]
<1>1. /\ \A p \in C : p \in Obj /\ p # o
      /\ member \in [Obj -> Ptr] /\ env \in [Obj -> Ptr]
  BY DEF TypeOK
<1>2. \A p \in C : member'[p] = member[p] /\ env'[p] = env[p]
  BY <1>1
<1>3. member'[o] = m /\ env'[o] = e
  BY <1>1
<1>4. \A p \in (C \cup {o}) \cap pool' : p = o \/ p \in C \cap pool
  BY <1>1
<1> QED BY <1>2, <1>3, <1>4 DEF Closed

\* The assumption of the lemmas below, with a set of what the program reaches.
Holding(C) == /\ TypeOK /\ ShapeInv /\ started = TRUE /\ sweeps = <<>> /\ sweeps' = <<>>
              /\ C \in SUBSET live /\ Has(C) /\ Closed(C)

LEMMA MovesReach ==
  ASSUME NEW C, Holding(C), NEW d \in Seq(Obj), Moves(d),
         NEW V \in SUBSET (live \ pool), \A i \in DOMAIN d : d[i] \in C \cup V
  PROVE  ReachInv'
<1>1. UNCHANGED <<live, pool, member, env, locals>> /\ SetData(d)
  BY DEF Moves, heap
<1>2. Has(C \cup V)'
  BY <1>1, DataHas DEF Holding
<1>3. Closed(C \cup V)'
  BY <1>1 DEF Holding, Closed
<1>4. C \cup V \in SUBSET live' /\ Spared(C \cup V)'
  BY <1>1 DEF Holding, Spared
<1> QED BY <1>2, <1>3, <1>4 DEF ReachInv

\* What is read out of an object that is reached is reached, or is never collected.
LEMMA ReadsReach ==
  ASSUME ~READS_STDLIB, NEW C, Holding(C), NEW o \in C, Readable(o, member[o])
  PROVE  member[o] \in C \/ member[o] \in live \ pool
BY DEF Readable, Permanent, Holding, Closed

LEMMA MovementReach ==
  ASSUME ~READS_STDLIB, SavedSet, NEW C, Holding(C),
         \/ LoadClose \/ LoadMember \/ Pop
         \/ \E o \in Obj : PushStdlib(o)
         \/ \E i \in Local : LoadLocal(i)
  PROVE  ReachInv'
<1>0. TypeOK /\ Has(C) /\ C \subseteq Obj
  BY DEF Holding, TypeOK
<1>1. CASE LoadClose
  <2>1. PICK b \in {top.bucket, env[top.func]} \ {NULL} :
          b \in Obj /\ member[b] \in Obj /\ Readable(b, member[b]) /\ Moves(Append(data, member[b]))
    BY <1>0, <1>1, LoadCloseMoves
  <2>2. b \in C
    BY <1>0, HasTop
  <2>3. PICK V \in SUBSET (live \ pool) : member[b] \in C \cup V
    BY <2>1, <2>2, ReadsReach
  <2>4. /\ Append(data, member[b]) \in Seq(Obj)
        /\ \A i \in DOMAIN Append(data, member[b]) : Append(data, member[b])[i] \in C \cup V
    BY <1>0, <2>1, <2>3, TopTyped, HasTop, Pushed
  <2> QED BY <2>1, <2>4, MovesReach
<1>2. CASE LoadMember
  <2>1. /\ TOP \in Obj /\ member[TOP] \in Obj /\ Readable(TOP, member[TOP]) /\ Len(data) > 0
        /\ Moves(Append(Popped(data), member[TOP]))
    BY <1>0, <1>2, LoadMemberMoves
  <2>2. TOP \in C /\ \A i \in DOMAIN Popped(data) : Popped(data)[i] \in C
    BY <1>0, <2>1, HasTop
  <2>3. PICK V \in SUBSET (live \ pool) : member[TOP] \in C \cup V
    BY <2>1, <2>2, ReadsReach
  <2> DEFINE v == member[TOP]
  <2> HIDE DEF v
  <2>4. Popped(data) \in Seq(Obj) /\ v \in Obj /\ v \in C \cup V
    BY <1>0, <2>1, <2>3, TopTyped DEF v
  <2>5. /\ Append(Popped(data), v) \in Seq(Obj)
        /\ \A i \in DOMAIN Append(Popped(data), v) : Append(Popped(data), v)[i] \in C \cup V
    BY <2>2, <2>4, Pushed
  <2> QED BY <2>1, <2>5, MovesReach DEF v
<1>3. CASE Pop
  <2>1. Len(data) > 0 /\ Moves(Popped(data))
    BY <1>3 DEF Pop, Moves
  <2>2. Popped(data) \in Seq(Obj) /\ \A i \in DOMAIN Popped(data) : Popped(data)[i] \in C \cup {}
    BY <1>0, <2>1, TopTyped, HasTop
  <2> QED BY <2>1, <2>2, MovesReach
<1>4. ASSUME NEW o \in Obj, PushStdlib(o) PROVE ReachInv'
  <2>1. Moves(Append(data, o)) /\ {o} \subseteq live \ pool
    BY <1>4 DEF PushStdlib, Moves, Holding, ShapeInv
  <2>2. /\ Append(data, o) \in Seq(Obj)
        /\ \A i \in DOMAIN Append(data, o) : Append(data, o)[i] \in C \cup {o}
    BY <1>0, TopTyped, HasTop, Pushed
  <2> QED BY <2>1, <2>2, MovesReach
<1>5. ASSUME NEW i \in Local, LoadLocal(i) PROVE ReachInv'
  <2>1. i \in top.saved /\ locals[i] \in Obj /\ Moves(Append(data, locals[i]))
    BY <1>0, <1>5, LoadLocalMoves
  <2>2. locals[i] \in C
    BY <1>0, <2>1, HasTop
  <2>3. /\ Append(data, locals[i]) \in Seq(Obj)
        /\ \A j \in DOMAIN Append(data, locals[i]) : Append(data, locals[i])[j] \in C \cup {}
    BY <1>0, <2>1, <2>2, TopTyped, HasTop, Pushed
  <2> QED BY <2>1, <2>3, MovesReach
<1> QED BY <1>1, <1>2, <1>3, <1>4, <1>5

LEMMA StoresReach == ASSUME NEW C, Holding(C), SaveClose \/ SaveMember PROVE ReachInv'
<1>0. TypeOK /\ Has(C) /\ Closed(C) /\ C \in SUBSET live /\ C \subseteq Obj /\ sweeps' = <<>>
  BY DEF Holding, TypeOK
<1>1. ASSUME NEW o \in C, NEW v \in C, member' = [member EXCEPT ![o] = v], UNCHANGED <<live, pool, env>>
      PROVE  Closed(C)' /\ C \in SUBSET live' /\ Spared(C)'
  <2>1. \A p \in C : member'[p] = member[p] \/ member'[p] = v
    BY <1>0, <1>1 DEF TypeOK
  <2> QED BY <1>0, <1>1, <2>1 DEF Closed, Spared
<1>2. CASE SaveClose
  <2>1. PICK b \in {top.bucket, env[top.func]} \ {NULL} : member' = [member EXCEPT ![b] = TOP]
    BY <1>2 DEF SaveClose
  <2>2. b \in C /\ TOP \in C
    BY <1>0, <1>2, HasTop DEF SaveClose
  <2>3. UNCHANGED <<live, pool, env, frames, locals>>
    BY <1>2 DEF SaveClose
  <2>4. Has(C)'
    BY <1>0, <2>3 DEF Has
  <2> QED BY <1>1, <2>1, <2>2, <2>3, <2>4 DEF ReachInv
<1>3. CASE SaveMember
  <2>1. Len(data) > 0 /\ Len(data) - 1 \in DOMAIN data
    BY <1>0, <1>3, TopTyped, SMT DEF SaveMember
  <2>2. TOP \in C /\ data[Len(data) - 1] \in C
    BY <1>0, <2>1, HasTop
  <2>3. Popped(data) \in Seq(Obj) /\ \A i \in DOMAIN Popped(data) : Popped(data)[i] \in C
    BY <1>0, <2>1, TopTyped, HasTop
  <2>4. /\ member' = [member EXCEPT ![TOP] = data[Len(data) - 1]]
        /\ SetData(Popped(data)) /\ UNCHANGED <<live, pool, env, locals>>
    BY <1>3 DEF SaveMember
  <2>5. Has(C)'
    BY <1>0, <2>3, <2>4, DataHas
  <2> QED BY <1>1, <2>2, <2>4, <2>5 DEF ReachInv
<1> QED BY <1>2, <1>3

LEMMA SaveLocalReach == ASSUME NEW C, Holding(C), NEW i \in Local, SaveLocal(i) PROVE ReachInv'
<1>0. TypeOK /\ Has(C) /\ Closed(C) /\ C \in SUBSET live /\ sweeps' = <<>>
  BY DEF Holding
<1>1. /\ Len(frames') = Len(frames) /\ frames' \in Seq(Frame)
      /\ \A k \in 1..Len(frames) :
           frames'[k] = IF k = Len(frames) THEN [top EXCEPT !.saved = @ \cup {i}] ELSE frames[k]
  BY <1>0, SaveLocalFrames
<1>2. DOMAIN frames' = DOMAIN frames /\ DOMAIN frames = 1..Len(frames)
  BY <1>0, <1>1, TopTyped
<1>3. TOP \in C /\ locals' = [locals EXCEPT ![i] = TOP] /\ UNCHANGED <<live, pool, member, env>>
  BY <1>0, HasTop DEF SaveLocal, heap
<1>4. \A j \in Local : locals'[j] = IF j = i THEN TOP ELSE locals[j]
  BY <1>0, <1>3 DEF TypeOK
<1>5. \A k \in DOMAIN frames : HasFrame(C, frames[k], env, locals')
  <2> SUFFICES ASSUME NEW k \in DOMAIN frames PROVE HasFrame(C, frames[k], env, locals')
    OBVIOUS
  <2>1. HasFrame(C, frames[k], env, locals) /\ frames[k].saved \subseteq Local
    BY <1>0, TopTyped DEF Has, Frame
  <2> QED BY <1>3, <1>4, <2>1 DEF HasFrame
<1>6. HasFrame(C, [top EXCEPT !.saved = @ \cup {i}], env, locals')
  <2>1. HasFrame(C, top, env, locals') /\ top \in Frame
    BY <1>0, <1>5, TopTyped DEF top
  <2>2. locals'[i] \in C
    BY <1>3, <1>4
  <2> QED BY <2>1, <2>2 DEF HasFrame, Frame
<1>7. Has(C)'
  BY <1>1, <1>2, <1>3, <1>5, <1>6 DEF Has
<1>8. Closed(C)' /\ C \in SUBSET live' /\ Spared(C)'
  BY <1>0, <1>3 DEF Closed, Spared
<1> QED BY <1>7, <1>8 DEF ReachInv

LEMMA NewReach ==
  ASSUME NEW C, Holding(C), NEW o \in Obj, PushNewObject(o) \/ MakeFunction(o) \/ CompileModule(o)
  PROVE  ReachInv'
<1>0. TypeOK /\ Has(C) /\ Closed(C) /\ C \in SUBSET live /\ sweeps' = <<>>
  BY DEF Holding
<1>1. /\ o \in Obj \ live /\ live' = live \cup {o} /\ pool' \subseteq pool \cup {o}
      /\ member' = [member EXCEPT ![o] = NULL]
      /\ SetData(Append(data, o)) /\ UNCHANGED locals
  BY DEF PushNewObject, MakeFunction, CompileModule, Allocates
<1>2. PICK e \in C \cup {NULL} : env' = [env EXCEPT ![o] = e]
  BY <1>0, HasTop DEF PushNewObject, MakeFunction, CompileModule
<1>3. Closed(C \cup {o})' /\ \A p \in C : env'[p] = env[p]
  BY <1>0, <1>1, <1>2, ClosedNew
<1>4. /\ Append(data, o) \in Seq(Obj)
      /\ \A i \in DOMAIN Append(data, o) : Append(data, o)[i] \in C \cup {o}
  <2>1. data \in Seq(Obj) /\ \A i \in DOMAIN data : data[i] \in C \cup {o}
    BY <1>0, TopTyped, HasTop
  <2> QED BY <2>1, Pushed
<1>5. Has(C \cup {o})'
  BY <1>0, <1>1, <1>3, <1>4, DataHas
<1>6. C \cup {o} \in SUBSET live' /\ Spared(C \cup {o})'
  BY <1>0, <1>1 DEF Spared
<1> QED BY <1>3, <1>5, <1>6 DEF ReachInv

LEMMA CallReach == ASSUME NEW C, Holding(C), NEW b \in Obj, NEW argc \in {0, 1}, CallFunc(b, argc) PROVE ReachInv'
<1>0. TypeOK /\ Has(C) /\ Closed(C) /\ C \in SUBSET live /\ sweeps' = <<>> /\ ShapeInv /\ started = TRUE
  BY DEF Holding
<1> DEFINE d == SubSeq(data, 1, Len(data) - 1 - argc)
           D == C \cup {b}
<1>1. /\ TOP \in Obj /\ (argc = 1 => Len(data) - 1 \in DOMAIN data)
      /\ DOMAIN d \subseteq DOMAIN data /\ \A i \in DOMAIN d : d[i] = data[i]
      /\ frames' \in Seq(Frame) \ {<<>>} /\ Len(frames') = Len(frames) + 1
      /\ \A k \in 1..Len(frames) : frames'[k] = IF k = Len(frames) THEN [top EXCEPT !.data = d] ELSE frames[k]
      /\ frames'[Len(frames) + 1] = NewFrame(TOP, b)
  BY <1>0, CallFrames
<1>2. /\ b \in Obj \ live /\ live' = live \cup {b} /\ pool' = pool \cup {b}
      /\ env' = [env EXCEPT ![b] = NULL] /\ UNCHANGED locals
      /\ env[TOP] # NULL /\ Len(data) > argc
      /\ member' = [member EXCEPT ![b] = IF argc = 1 THEN data[Len(data) - 1] ELSE NULL]
  BY <1>0 DEF CallFunc, Allocates
<1>3. TOP \in C /\ \A i \in DOMAIN data : data[i] \in C
  <2>1. Len(data) > 0
    BY <1>0, <1>2, TopTyped, SMT
  <2> QED BY <1>0, <2>1, HasTop
<1> HIDE DEF d
<1>4. Closed(D)' /\ \A p \in C : env'[p] = env[p]
  <2>1. (IF argc = 1 THEN data[Len(data) - 1] ELSE NULL) \in C \cup {NULL}
    BY <1>1, <1>3
  <2> QED BY <1>0, <1>2, <2>1, ClosedNew
<1>5. env[TOP] \in C
  <2>1. TOP \in pool
    BY <1>0, <1>2, <1>3 DEF ShapeInv
  <2> QED BY <1>0, <1>2, <1>3, <2>1 DEF Closed
<1>6. HasFrame(D, NewFrame(TOP, b), env', locals')
  <2>1. DOMAIN <<>> = {}
    OBVIOUS
  <2> QED BY <1>3, <1>4, <1>5, <2>1 DEF HasFrame, NewFrame
<1>7. \A k \in DOMAIN frames : HasFrame(D, frames[k], env', locals')
  <2> SUFFICES ASSUME NEW k \in DOMAIN frames PROVE HasFrame(D, frames[k], env', locals')
    OBVIOUS
  <2>1. HasFrame(D, frames[k], env, locals) /\ frames[k].func \in C
    BY <1>0, HasMore DEF Has, HasFrame
  <2> QED BY <1>2, <1>4, <2>1 DEF HasFrame
<1>8. HasFrame(D, [top EXCEPT !.data = d], env', locals')
  <2>1. HasFrame(D, top, env', locals') /\ top \in Frame
    BY <1>0, <1>7, TopTyped DEF top
  <2> QED BY <1>1, <1>3, <2>1 DEF HasFrame, Frame
<1>9. Has(D)'
  <2>1. DOMAIN frames' = 1..Len(frames)+1 /\ DOMAIN frames = 1..Len(frames)
    BY <1>0, <1>1, TopTyped
  <2>2. \A k \in 1..Len(frames)+1 : k \in 1..Len(frames) \/ k = Len(frames) + 1
    BY <1>0, TopTyped, SMT
  <2> HIDE DEF D
  <2> QED BY <1>1, <1>6, <1>7, <1>8, <2>1, <2>2 DEF Has
<1>10. D \in SUBSET live' /\ Spared(D)'
  BY <1>0, <1>2 DEF Spared
<1> QED BY <1>4, <1>9, <1>10 DEF ReachInv

LEMMA ReturnReach == ASSUME NEW C, Holding(C), Return PROVE ReachInv'
<1>0. TypeOK /\ Has(C) /\ Closed(C) /\ C \in SUBSET live /\ sweeps' = <<>>
  BY DEF Holding
<1> DEFINE n == Len(frames) - 1
           f == [frames[n] EXCEPT !.data = Append(@, TOP)]
<1>1. /\ n \in DOMAIN frames /\ n \in Nat \ {0} /\ Len(data) > 0 /\ TOP \in Obj
      /\ frames' \in Seq(Frame) /\ Len(frames') = n
      /\ \A k \in 1..n : frames'[k] = IF k = n THEN f ELSE frames[k]
  BY <1>0, ReturnFrames
<1>2. UNCHANGED <<live, pool, member, env, locals>>
  BY DEF Return, heap
<1>3. TOP \in C
  BY <1>0, <1>1, HasTop
<1>4. \A k \in DOMAIN frames : HasFrame(C, frames[k], env, locals)
  BY <1>0 DEF Has
<1>5. HasFrame(C, f, env, locals)
  <2>1. HasFrame(C, frames[n], env, locals) /\ frames[n] \in Frame
    BY <1>0, <1>1, <1>4, TopTyped
  <2>2. frames[n].data \in Seq(Obj) /\ \A i \in DOMAIN frames[n].data : frames[n].data[i] \in C
    BY <2>1 DEF HasFrame, Frame
  <2>3. \A i \in DOMAIN Append(frames[n].data, TOP) : Append(frames[n].data, TOP)[i] \in C
    BY <1>1, <1>3, <2>2, Pushed
  <2> QED BY <2>1, <2>3 DEF HasFrame, Frame
<1>6. DOMAIN frames' = 1..n /\ \A k \in 1..n : k \in DOMAIN frames
  <2>1. DOMAIN frames = 1..Len(frames) /\ Len(frames) \in Nat
    BY <1>0, TopTyped
  <2> QED BY <1>1, <2>1
<1> HIDE DEF n, f
<1>7. Has(C)'
  BY <1>1, <1>2, <1>4, <1>5, <1>6 DEF Has
<1>8. Closed(C)' /\ C \in SUBSET live' /\ Spared(C)'
  BY <1>0, <1>2 DEF Closed, Spared
<1> QED BY <1>7, <1>8 DEF ReachInv

LEMMA FlagsReach == ASSUME NEW C, Holding(C), SetFlags PROVE ReachInv'
BY DEF Holding, SetFlags, heap, Has, Closed, Spared, ReachInv

\* gc_mark visits the white roots and the white fields of what it visits.
LEMMA MarkVisits ==
  /\ Visited \subseteq live \ marked
  /\ RootSet \cap (live \ marked) \subseteq Visited
  /\ \A o \in Visited : Fields(o) \cap (live \ marked) \subseteq Visited
BY DEF Visited

\* Whatever a frame holds is a root, if the locals are set from the first on.
LEMMA HeldIsRoot ==
  ASSUME TypeOK, SavedSet, LocalsInv, RootsCoverFrames, NEW k \in DOMAIN frames
  PROVE  /\ frames[k].func \in RootSet /\ frames[k].bucket \in RootSet
         /\ \A i \in DOMAIN frames[k].data : frames[k].data[i] \in RootSet
         /\ env[frames[k].func] # NULL => env[frames[k].func] \in RootSet
         /\ \A i \in frames[k].saved : locals[i] \in RootSet
<1>0. frames[k] \in Frame
  BY TopTyped
<1>1. FramePointers(frames[k]) \cup Scanned(frames[k]) \subseteq RootSet
  BY DEF RootSet
<1>2. frames[k].func \in RootSet
  <2> DEFINE o == frames[k].func
  <2>1. o \in Obj /\ k \in Of(o)
    BY <1>0 DEF Of, Frame
  <2>2. IsFiniteSet(Of(o)) /\ Cardinality(Of(o)) \in Nat /\ Cardinality(Of(o)) <= roots[o] /\ roots[o] \in Nat
    BY <2>1, OfFinite DEF RootsCoverFrames, Of, TypeOK
  <2>3. Cardinality(Of(o)) # 0
    BY <2>1, <2>2, FS_EmptySet
  <2>4. roots[o] > 0
    <3> DEFINE c == Cardinality(Of(o))
               r == roots[o]
    <3>1. c \in Nat /\ c # 0 /\ c <= r /\ r \in Nat
      BY <2>2, <2>3
    <3> HIDE DEF c, r
    <3>2. r > 0
      BY ONLY <3>1, SMT
    <3> QED BY <3>2 DEF r
  <2> QED BY <2>1, <2>4 DEF RootSet
<1>3. /\ frames[k].bucket \in RootSet
      /\ \A i \in DOMAIN frames[k].data : frames[k].data[i] \in RootSet
      /\ env[frames[k].func] # NULL => env[frames[k].func] \in RootSet
  BY <1>1 DEF FramePointers
<1>4. ASSUME NEW i \in frames[k].saved PROVE locals[i] \in RootSet
  <2>1. i \in Local /\ locals[i] # NULL /\ frames[k].func # Main
    BY <1>0 DEF SavedSet, LocalsInv, Frame
  <2>2. \A j \in 1..i : j \in Local /\ (j < i \/ j = i)
    BY <2>1, BoundAssumption, SMT DEF Local
  <2>3. \A j \in 1..i : locals[j] # NULL
    BY <2>1, <2>2 DEF LocalsInv
  <2>4. locals[i] \in Scanned(frames[k])
    BY <2>1, <2>3 DEF Scanned
  <2> QED BY <1>1, <2>4
<1> QED BY <1>2, <1>3, <1>4

LEMMA CollectReach ==
  ASSUME TypeOK, SavedSet, LocalsInv, RootsCoverFrames, ShapeInv, sweeps = <<>>, ReachInv,
         NEW byLimit \in BOOLEAN, Collect(byLimit)
  PROVE  ReachInv'
<1>1. PICK C \in SUBSET live : Has(C) /\ Closed(C)
  BY DEF ReachInv
<1>0. PICK D \in SUBSET live : D = C \cap ((live \ pool) \cup marked')
  OBVIOUS
<1>2. pool \cap marked = {} /\ marked' = marked \cup Visited
      /\ UNCHANGED <<live, pool, member, env, frames, locals>>
  BY DEF ShapeInv, Collect
<1>3. \A x \in C \cap RootSet : x \in D
  BY <1>0, <1>1, <1>2, MarkVisits
<1>4. Has(D)
  <2> SUFFICES ASSUME NEW k \in DOMAIN frames PROVE HasFrame(D, frames[k], env, locals)
    BY DEF Has
  <2>1. HasFrame(C, frames[k], env, locals)
    BY <1>1 DEF Has
  <2> QED BY <1>3, <2>1, HeldIsRoot DEF HasFrame
<1>5. Closed(D)
  <2> SUFFICES ASSUME NEW o \in D \cap pool, NEW v \in Fields(o) PROVE v \in D
    BY DEF Closed, Fields
  <2>1. o \in Visited
    BY <1>0, <1>2
  <2>2. v \in C /\ v \in live
    BY <1>0, <1>1 DEF Closed, Fields
  <2> QED BY <1>0, <1>2, <2>1, <2>2, MarkVisits
<1>6. Has(D)' /\ Closed(D)'
  BY <1>2, <1>4, <1>5 DEF Has, Closed
<1>7. D \cap now'.todo \subseteq marked'
  BY <1>0, Begins
<1> QED BY <1>2, <1>6, <1>7 DEF ReachInv, Spared

LEMMA KeepReach == ASSUME TypeOK, ShapeInv, ReachInv, NEW o \in Obj, Keep(o) PROVE ReachInv'
<1>1. PICK C \in SUBSET live : Has(C) /\ Closed(C) /\ Spared(C)
  BY DEF ReachInv
<1>2. Visiting(o) /\ sweeps' = Done(o) /\ marked' = marked \ {o}
      /\ UNCHANGED <<live, pool, member, env, frames, locals>>
  BY DEF Keep
<1>3. now'.todo = now.todo \ {o} /\ sweeps # <<>>
  BY <1>2, Visits DEF Visiting
<1>4. Has(C)' /\ Closed(C)' /\ Spared(C)'
  BY <1>1, <1>2, <1>3 DEF Has, Closed, Spared
<1> QED BY <1>1, <1>2, <1>4 DEF ReachInv

\* What is freed was not marked, and so was not reached.
LEMMA FreeReach == ASSUME TypeOK, ShapeInv, ReachInv, NEW o \in Obj, Free(o) PROVE ReachInv'
<1>1. PICK C \in SUBSET live : Has(C) /\ Closed(C) /\ Spared(C)
  BY DEF ReachInv
<1>2. /\ Visiting(o) /\ sweeps' = Done(o) /\ o \notin marked
      /\ UNCHANGED <<marked, frames, locals>>
      /\ live' = live \ {o} /\ pool' = pool \ {o}
      /\ member' = [member EXCEPT ![o] = NULL] /\ env' = [env EXCEPT ![o] = NULL]
  BY DEF Free, Dealloc
<1>3. now'.todo = now.todo \ {o} /\ sweeps # <<>> /\ o \in now.todo
  BY <1>2, Visits DEF Visiting
<1>4. o \notin C
  BY <1>1, <1>2, <1>3 DEF Spared
<1>5. \A p \in C : env'[p] = env[p] /\ member'[p] = member[p]
  BY <1>1, <1>2, <1>4 DEF TypeOK
<1>6. Has(C)'
  <2> SUFFICES ASSUME NEW k \in DOMAIN frames PROVE HasFrame(C, frames[k], env', locals)
    BY <1>2 DEF Has
  <2>1. HasFrame(C, frames[k], env, locals)
    BY <1>1 DEF Has
  <2> QED BY <1>5, <2>1 DEF HasFrame
<1>7. Closed(C)'
  BY <1>1, <1>2, <1>5 DEF Closed
<1>8. C \in SUBSET live' /\ Spared(C)'
  BY <1>1, <1>2, <1>3, <1>4 DEF Spared
<1> QED BY <1>6, <1>7, <1>8 DEF ReachInv

LEMMA EndReach == ASSUME TypeOK, ShapeInv, ReachInv, EndSweep PROVE ReachInv'
<1>1. PICK C \in SUBSET live : Has(C) /\ Closed(C)
  BY DEF ReachInv
<1>2. sweeps' = <<>> /\ UNCHANGED <<live, pool, member, env, frames, locals>>
  BY Ends DEF EndSweep, heap
<1>3. Has(C)' /\ Closed(C)' /\ Spared(C)'
  BY <1>1, <1>2 DEF Has, Closed, Spared
<1> QED BY <1>1, <1>2, <1>3 DEF ReachInv

\* The locals are set in order.
LEMMA LocalsStep ==
  ASSUME TypeOK, TypeOK', SavedSet, ~SKIPS_LOCALS, LocalsInv, [Next]_vars
  PROVE  LocalsInv'
<1>1. /\ Len(frames) \in Nat /\ DOMAIN frames = 1..Len(frames)
      /\ Len(frames') \in Nat /\ DOMAIN frames' = 1..Len(frames')
  BY TopTyped DEF TypeOK
<1>2. CASE Stays
  BY <1>1, <1>2 DEF Stays, Kept, LocalsInv
<1>3. ASSUME NEW i \in Local, SaveLocal(i) PROVE LocalsInv'
  <2>1. /\ Len(frames') = Len(frames)
        /\ \A k \in 1..Len(frames) :
             frames'[k] = IF k = Len(frames) THEN [top EXCEPT !.saved = @ \cup {i}] ELSE frames[k]
    BY <1>3, SaveLocalFrames
  <2>2. /\ top.func # Main /\ TOP \in Obj /\ locals' = [locals EXCEPT ![i] = TOP] /\ locals \in [Local -> Ptr]
        /\ \A j \in Local : j < i => locals[j] # NULL
    BY <1>3, TopTyped DEF SaveLocal, TypeOK
  <2>3. \A j \in Local : locals'[j] = IF j = i THEN TOP ELSE locals[j]
    BY <2>2
  <2>4. TOP # NULL
    BY <2>2, ObjAssumption
  <2>5. \A j, k \in Local : k < j /\ locals'[j] # NULL => locals'[k] # NULL
    BY <2>2, <2>3, <2>4 DEF LocalsInv
  <2>6. [top EXCEPT !.saved = @ \cup {i}].func = top.func
    BY TopTyped DEF Frame
  <2>7. \A k \in 1..Len(frames) : frames'[k].func = Main => frames'[k].saved = {}
    BY <1>1, <2>1, <2>2, <2>6 DEF LocalsInv
  <2> QED BY <1>1, <2>1, <2>5, <2>7 DEF LocalsInv
<1>4. ASSUME NEW f \in Obj, NEW b \in Obj, Enters(f, b) PROVE LocalsInv'
  <2>1. frames'[Len(frames) + 1].saved = {}
    BY <1>4 DEF Enters, NewFrame
  <2>2. \A k \in 1..Len(frames') : k \in 1..Len(frames) \/ k = Len(frames) + 1
    BY <1>1, <1>4, SMT DEF Enters
  <2> QED BY <1>1, <1>4, <2>1, <2>2 DEF Enters, Kept, LocalsInv
<1>5. CASE Leaves
  <2>1. \A k \in 1..Len(frames') : k \in 1..Len(frames)-1 /\ k \in 1..Len(frames)
    BY <1>1, <1>5, SMT DEF Leaves
  <2> QED BY <1>1, <1>5, <2>1 DEF Leaves, Kept, LocalsInv
<1> QED BY <1>2, <1>3, <1>4, <1>5, FrameSteps

LEMMA ReachStep ==
  ASSUME Plain, TypeOK, SavedSet, RootsCoverFrames, ShapeInv, started = TRUE, LocalsInv, ReachInv, [Next]_vars
  PROVE  ReachInv'
<1>1. CASE Instruction
  <2>1. sweeps = <<>> /\ sweeps' = <<>>
    BY <1>1, Calm, HeapSteps
  <2>2. PICK C \in SUBSET live : Holding(C)
    BY <2>1 DEF ReachInv, Holding
  <2>3. CASE SaveClose \/ SaveMember
    BY <2>2, <2>3, StoresReach
  <2>4. CASE Return
    BY <2>2, <2>4, ReturnReach
  <2>5. CASE SetFlags
    BY <2>2, <2>5, FlagsReach
  <2>6. CASE \E o \in Obj : PushNewObject(o) \/ MakeFunction(o) \/ CompileModule(o)
    BY <2>2, <2>6, NewReach
  <2>7. CASE \E o \in Obj : CallFunc(o, 0) \/ CallFunc(o, 1)
    BY <2>2, <2>7, CallReach
  <2>8. CASE \E i \in Local : SaveLocal(i)
    BY <2>2, <2>8, SaveLocalReach
  <2>9. CASE \/ LoadClose \/ LoadMember \/ Pop
             \/ \E o \in Obj : PushStdlib(o)
             \/ \E i \in Local : LoadLocal(i)
    BY <2>2, <2>9, MovementReach DEF Plain
  <2> QED BY <1>1, <2>3, <2>4, <2>5, <2>6, <2>7, <2>8, <2>9 DEF Instruction
<1>2. CASE CollectWhenDue \/ CollectByCall
  BY <1>2, Calm, CollectReach DEF CollectWhenDue, CollectByCall
<1>3. CASE \E o \in Obj : Keep(o) \/ Free(o)
  BY <1>3, KeepReach, FreeReach
<1>4. CASE EndSweep
  BY <1>4, EndReach
<1>5. CASE UNCHANGED vars
  BY <1>5 DEF vars, heap, ReachInv, Has, Closed, Spared, now
<1>6. ~(\E o, f, b \in Obj : Destroy(o, f, b))
  BY DEF Destroy, Plain
<1> QED BY <1>1, <1>2, <1>3, <1>4, <1>5, <1>6, Calm DEF Next, Collection

LEMMA InitReach == Init => LocalsInv /\ ReachInv
<1> SUFFICES ASSUME Init PROVE LocalsInv /\ ReachInv
  OBVIOUS
<1> DEFINE f == [func |-> Main, bucket |-> Scope, data |-> <<>>, saved |-> {}]
           C == Stdlib \cup {Scope}
<1>1. frames = <<f>> /\ sweeps = <<>> /\ live = Stdlib \cup pool /\ pool = {Proto, Scope} \ {NULL}
  BY DEF Init
<1>2. /\ locals = [i \in Local |-> NULL] /\ env = [o \in Obj |-> NULL]
      /\ member = [o \in Obj |-> IF o \in Stdlib \ {Main} THEN Proto ELSE NULL]
  BY DEF Init
<1>3. /\ C \in SUBSET live /\ Main \in C /\ Scope \in C /\ Main \in Obj /\ Scope \in Obj
      /\ C \cap pool = {Scope} /\ Scope \notin Stdlib
  BY <1>1, ObjAssumption
<1> HIDE DEF f
<1>4. DOMAIN frames = {1} /\ frames[1] = f
  BY <1>1, SMT
<1>5. LocalsInv
  BY <1>2, <1>4 DEF LocalsInv, f
<1>6. HasFrame(C, f, env, locals)
  <2>1. DOMAIN <<>> = {}
    OBVIOUS
  <2> QED BY <1>2, <1>3, <2>1 DEF HasFrame, f
<1>7. Has(C)
  BY <1>4, <1>6 DEF Has
<1>8. Closed(C) /\ Spared(C)
  BY <1>1, <1>2, <1>3 DEF Closed, Spared
<1> QED BY <1>3, <1>5, <1>7, <1>8 DEF ReachInv

\* ReachInv is what ReachableIsLive says, with what no member leads to left out.
LEMMA ReachSuffices == ASSUME ~READS_STDLIB, ReachInv PROVE ReachableIsLive
<1>1. PICK C \in SUBSET live : Has(C) /\ Closed(C)
  BY DEF ReachInv
<1>2. \A k \in DOMAIN frames : Held(frames[k]) \subseteq C
  BY <1>1 DEF Has, HasFrame, Held, FramePointers
<1>3. \A o \in C : (IF o \in Permanent /\ ~READS_STDLIB THEN {} ELSE Fields(o)) \subseteq C
  BY <1>1 DEF Closed, Fields, Permanent
<1> QED BY <1>2, <1>3 DEF ReachableIsLive

\* The collector's guarantee, for a program of that kind: whatever it can still reach
\* from its frames has not been freed (lky_gc.c), for any heap, any number of frames
\* and locals, any limit, and however often it pauses the collector or calls it.
THEOREM ReachedIsNeverFreed == ASSUME Plain PROVE Spec => []ReachableIsLive
<1> DEFINE R == LocalsInv /\ ReachInv
           H == TypeOK /\ SavedSet /\ RootsCoverFrames /\ ShapeInv /\ started = TRUE
<1>1. R /\ H /\ H' /\ [Next]_vars => R'
  BY LocalsStep, ReachStep DEF Plain
<1>2. Init => R
  BY InitReach
<1>3. R => ReachableIsLive
  BY ReachSuffices DEF Plain
<1>4. Spec => []RootsCoverFrames
  BY RunningAreRoots DEF Plain
<1> QED BY <1>1, <1>2, <1>3, <1>4, Typed, ShapeHolds, PTL DEF Spec
=============================================================================
